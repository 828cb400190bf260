SPECIFICATION LiveSpec
CONSTANT None = None
 
PROPERTY ActResolved
PROPERTY ResultSettled
CHECK_DEADLOCK FALSE

CONSTANTS
    Objs <- HandledObjs

SPECIFICATION Spec
INVARIANT TypeOK
 

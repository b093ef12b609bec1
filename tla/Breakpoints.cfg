SPECIFICATION Spec
CONSTANTS
    Tools = {t1, t2, t3, t4, t5, t6}
    t1 = t1
    t2 = t2
    t3 = t3
    t4 = t4
    t5 = t5
    t6 = t6
    Files = {file}
    Fn = Fn
    Keys = {five, seven, main, addr}
    Unsafe = {addr}
    file = file
    five = five
    seven = seven
    main = main
    addr = addr
    RequestChoices <- Session
    RelocChoices <- AnyPlace
    Careful = TRUE
INVARIANTS
    TypeOK
    
    
CHECK_DEADLOCK FALSE

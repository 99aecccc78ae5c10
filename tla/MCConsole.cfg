SPECIFICATION Spec
CONSTANTS
    r1 = r1
    r2 = r2
    w1 = w1
    w2 = w2
    k1 = k1
    Readers = {r1, r2}
    Writers = {w1, w2}
    Printers = {k1}
    intr = intr
    Nobody = Nobody
    INPUT_BUF_SIZE = 2
    UART_TX_BUF_SIZE = 2
    FIFO = 3
    UintSize = 4
    Starts = {2}
    ReadSizes = {2}
    WriteSize = 3
    MessageSize = 2
    Loads <- MCLoads
INVARIANTS OutputInOrder
PROPERTIES ImplementsLineDiscipline ComesToRest
CHECK_DEADLOCK FALSE

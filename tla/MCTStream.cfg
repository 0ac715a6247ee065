SPECIFICATION Spec
CONSTANTS
    Bytes = {a, b}
    Unset = Unset
    Readers = {main, worker}
    NoReader = NoReader
    NoView = NoView
    Sizes = {0, 1, 3}
    buff_length = 2
    MaxContent = 5
INVARIANTS TypeOK CopyFits
PROPERTIES ImplementsByteStream

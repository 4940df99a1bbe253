CONSTANTS
    Elem <- FourElements
    ListNull = ListNull
    ListKeys <- OneKeyTwice
    HashElem = {1, 2, 3, 4, 5}
    key_of <- FourKeys
    HashValue = {0, 1, 2, 7}
    MIN_BUCKETS = 1
    BEST_ELEMS_PER_BUCKET = 1
    NUL = 0
    Nowhere = Nowhere
    WORD = 4
    INT_BITS = 8
    Trap = Trap
    PGSIZE = 4
    PHYS_BASE = 20
    AddressSpace = 32
    Char = {1, 2, 3}
    SPACE = 1
    MaxString = 3
    MaxLine = 6
    StackSize = 32
    POINTER = 4
    KernelRoom = 6
    Number = {0, 1, 2}
    MaxArray = 6
    Segments <- SmallSegments
    FileLength = 6
    Entries <- SmallEntries
    SECTORS = 8
    Endless = Endless
    ELEM_BITS = 3
    BitmapSizes = {1, 6, 7}
    BITMAP_ERROR = BITMAP_ERROR
    NoKey = NoKey
    Reboot = Reboot
    Printed <- SmallIntegers
    Field <- SmallFields
    Precision <- SmallPrecisions
    sizeof_buf = 12
    NotYet = NotYet
SPECIFICATION Spec
INVARIANTS ContainersHold StringsAsPromised NumbersKept ProgramsStart KeysGiveCharacters PartitionsOnDisk
CHECK_DEADLOCK FALSE

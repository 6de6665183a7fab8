SPECIFICATION KmallocSpec
CONSTANTS
    NPages = 6
    DirectMapPages = 5
    PMM_PAGE_SIZE = 38
    HeaderSize = 2
    KMALLOC_ALIGN = 2
    KTHREAD_STACK_SIZE = 18
    SmallSize = 1
INVARIANTS
    BlocksApart
    StacksAsAbstracted

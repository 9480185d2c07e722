CONSTANTS
    Instances = {i1, i2}
    Customers = {c1}
    Plans = {pro}
    Unbilled = none
    Day = 2
    LockTTL = 1
    Month = 4
    End = 8
    MaxInvoices = 2
    Faults = {"redis", "sql", "crash"}
SPECIFICATION InvoicingSpec
INVARIANTS
    InvoicingTypeOK
    InvoiceJustified
CHECK_DEADLOCK FALSE

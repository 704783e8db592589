------------------------------- MODULE RefTable -------------------------------
(***************************************************************************)
(* The table of the fields of old blocks that point to young ones, as a    *)
(* growing array (byterun/minor_gc.c, caml_modify and caml_initialize).    *)
(* Beyond the threshold lies a reserve; its use urges a major slice, whose *)
(* minor collection empties the table.  Fields hold a young value or not.  *)
(***************************************************************************)
EXTENDS Naturals, Sequences, FiniteSets

CONSTANTS Cells,         \* the fields of old blocks
          FirstSize, Reserve, \* caml_minor_heap_size / sizeof (value) / 8, and 256
          MaxSize,       \* where realloc fails
          MaxEntries     \* bound on the entries of one collection

ASSUME TableAssumption == FirstSize \in Nat \ {0} /\ Reserve \in Nat \ {0} /\ MaxSize \in Nat
                          /\ MaxEntries \in Nat

VARIABLES table,         \* base..ptr
          base,          \* the array exists
          size, threshold, limit, end,
          forceSlice,    \* caml_force_major_slice
          youngCells,    \* the fields that hold young values
          fresh,         \* the minor heap is not empty
          finalising     \* the finalisation functions of a collection run
refVars == <<table, base, size, threshold, limit, end, forceSlice, youngCells, fresh, finalising>>

RefInit == /\ table = <<>> /\ base = FALSE /\ size = 0 /\ threshold = 0 /\ limit = 0 /\ end = 0
           /\ forceSlice = FALSE /\ youngCells = {} /\ fresh = FALSE /\ finalising = FALSE

\* caml_realloc_ref_table, on a full table: what it makes of the limits, and whether it urges.
Limits(b, s, t, l, e, urge) == base' = b /\ size' = s /\ threshold' = t /\ limit' = l /\ end' = e /\ forceSlice' = urge
Full == Len(table) >= limit
AllocatedShort == Limits(TRUE, FirstSize, FirstSize, FirstSize + Reserve + 1, FirstSize + Reserve, forceSlice)
Allocated == Limits(TRUE, FirstSize, FirstSize, FirstSize, FirstSize + Reserve, forceSlice)
UrgedNot == Limits(TRUE, size, threshold, end, end, forceSlice)
Urged == Limits(TRUE, size, threshold, end, end, TRUE)
Doubled == Limits(TRUE, 2 * size, 2 * size, 2 * size + Reserve, 2 * size + Reserve, forceSlice)
Realloc == IF ~base THEN Allocated ELSE IF limit = threshold THEN Urged ELSE Doubled
CanGrow == ~base \/ limit = threshold \/ 2 * size <= MaxSize   \* else a fatal error

\* caml_modify stores a young value: the field is added unless it held a young one already.
StoreYoung(c) ==
  /\ fresh /\ Len(table) < MaxEntries /\ youngCells' = youngCells \cup {c}
  /\ IF c \in youngCells THEN UNCHANGED <<table, base, size, threshold, limit, end, forceSlice>>
     ELSE /\ Full => CanGrow
          /\ table' = Append(table, c)
          /\ IF Full THEN Realloc ELSE UNCHANGED <<base, size, threshold, limit, end, forceSlice>>
  /\ UNCHANGED <<fresh, finalising>>
\* caml_modify stores an old value or an integer: the entry stays.
StoreOld(c) == /\ c \in youngCells /\ youngCells' = youngCells \ {c}
               /\ UNCHANGED <<table, base, size, threshold, limit, end, forceSlice, fresh, finalising>>
Allocate == /\ ~fresh /\ fresh' = TRUE
            /\ UNCHANGED <<table, base, size, threshold, limit, end, forceSlice, youngCells, finalising>>

EmptyMinorHeapOnce ==
  IF fresh /\ ~finalising THEN /\ youngCells' = {c \in youngCells : \A i \in DOMAIN table : table[i] # c}
                               /\ table' = <<>> /\ limit' = threshold /\ fresh' = FALSE
  ELSE IF fresh THEN table' = <<>> /\ limit' = threshold /\ UNCHANGED <<youngCells, fresh>>
  ELSE UNCHANGED <<youngCells, table, limit, fresh>>
\* caml_empty_minor_heap: what the table leads to is copied; clear_table.
EmptyMinorHeap ==
  IF fresh THEN /\ youngCells' = {c \in youngCells : \A i \in DOMAIN table : table[i] # c}
                /\ table' = <<>> /\ limit' = threshold /\ fresh' = FALSE
  ELSE UNCHANGED <<youngCells, table, limit, fresh>>
\* caml_minor_collection: the slice is done, then finalisation functions run, then the heap is
\* emptied again.
CollectMinor == /\ ~finalising /\ EmptyMinorHeap
                /\ forceSlice' = FALSE /\ finalising' = TRUE
                /\ UNCHANGED <<base, size, threshold, end>>
Finalised == /\ finalising /\ EmptyMinorHeap
             /\ finalising' = FALSE /\ UNCHANGED <<base, size, threshold, end, forceSlice>>
\* caml_set_minor_heap_size: after a collection the tables are given up.
SetMinorHeapSize == /\ ~fresh /\ ~finalising
                    /\ table' = <<>> /\ Limits(FALSE, 0, 0, 0, 0, forceSlice)
                    /\ UNCHANGED <<youngCells, fresh, finalising>>

RefNext == \/ \E c \in Cells : StoreYoung(c) \/ StoreOld(c)
           \/ Allocate \/ CollectMinor \/ Finalised \/ SetMinorHeapSize
RefSpec == RefInit /\ [][RefNext]_refVars

(* ------------------------------ Properties ------------------------------ *)
\* Every field with a young value is in the table: between the collections, and so none is left
\* pointing into the emptied heap.
NoneIsForgotten == /\ \A c \in youngCells : \E i \in DOMAIN table : table[i] = c
                   /\ ~fresh => youngCells = {}
\* The table has room for its entries, and its limits are in order.
LimitsAreInOrder == Len(table) <= limit /\ limit <= end /\ threshold <= limit
\* The table is complete, and its entries never leave the array.
TableIsComplete == NoneIsForgotten /\ LimitsAreInOrder

\* When the table grows, a slice has been urged for that collection (the assertion in
\* caml_realloc_ref_table).
GrowthIsUrged == [][size' > size /\ base => forceSlice]_refVars
===============================================================================

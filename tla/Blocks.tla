-------------------------------- MODULE Blocks --------------------------------
(***************************************************************************)
(* The primitives that make and change blocks, and the collections that    *)
(* come in the middle of them (byterun/alloc.c, array.c, obj.c, custom.c,  *)
(* meta.c, caml_modify and caml_initialize of memory.c).  A block is young *)
(* or old; a minor collection moves what it finds from the roots and from  *)
(* the table of old fields, and every pointer it does not find is Junk     *)
(* from then on.  A primitive is a plan: its steps with the points where a *)
(* collection may come.                                                    *)
(***************************************************************************)
EXTENDS Integers, Sequences, FiniteSets

CONSTANTS Ids, Roots,    \* blocks, and variables of the program
          MaxYoung,      \* Max_young_wosize
          MaxSize, MaxOps, MaxFinals   \* bounds: sizes, calls and stores, stores of finalisers

BlocksAssumption == Ids # {} /\ Ids \subseteq Nat \ {0} /\ MaxYoung \in Nat \ {0} /\ {MaxSize, MaxOps, MaxFinals} \subseteq Nat

VARIABLES where, fields, raw,    \* raw: the tag is at least No_scan_tag
          roots, global,         \* the variables, and caml_global_data
          table,                 \* caml_ref_table: the fields noted
          call,                  \* the primitive under way
          ops, finals
vars == <<where, fields, raw, roots, global, table, call, ops, finals>>
mem == <<where, fields, raw>>

Unit == 0                        \* an immediate value, or an atom
Junk == -1                       \* not initialised, or pointing where a block was
Is(b, w) == b \in Ids /\ where[b] = w
Young(v) == Is(v, "young")
NoCall == [fn |-> "none", n |-> 0, arg |-> Unit, res |-> Unit, plan |-> <<>>, i |-> 0]

Init == /\ \E g \in Ids : /\ where = [b \in Ids |-> IF b = g THEN "old" ELSE "free"]
                          /\ fields = [b \in Ids |-> IF b = g THEN <<Unit>> ELSE <<>>]
                          /\ global = g
        /\ raw = [b \in Ids |-> FALSE]
        /\ roots = [r \in Roots |-> Unit] /\ table = {} /\ call = NoCall /\ ops = 0 /\ finals = 0

\* The blocks reached from s through blocks of the places ws.
Held(b) == IF raw[b] THEN {} ELSE {fields[b][i] : i \in DOMAIN fields[b]}
Reached(s, ws) ==
  LET near(x) == {b \in x \cap Ids : where[b] \in ws}
      r[k \in 0..Cardinality(Ids)] == IF k = 0 THEN near(s)
        ELSE LET p == r[k - 1] IN p \cup near(UNION {Held(b) : b \in p})
  IN r[Cardinality(Ids)]
VariablesUndeclared == {roots[r] : r \in Roots} \cup {global, call.res}
Variables == {roots[r] : r \in Roots} \cup {global, call.arg, call.res}

(* ------------------------------- Stores --------------------------------- *)
\* Modify: the fields of b become new; young values in old fields that held none are noted.
NotedOldOnly(b, i, old, new) == Is(b, "old") /\ Young(new) /\ old = Unit
Noted(b, i, old, new) == Is(b, "old") /\ Young(new) /\ ~Young(old)
Modified(b, new) == {<<b, i>> : i \in {j \in DOMAIN new : Noted(b, j, fields[b][j], new[j])}}
\* caml_initialize of all the fields of a block not yet made, which will be old if `old'.
Initialised(b, old, new) == {<<b, i>> : i \in {j \in DOMAIN new : old /\ Young(new[j])}}

Store(b, i, v) == /\ b \in Ids /\ ~raw[b] /\ i \in DOMAIN fields[b]
                  /\ LET new == [fields[b] EXCEPT ![i] = v] IN
                     fields' = [fields EXCEPT ![b] = new] /\ table' = table \cup Modified(b, new)
                  /\ UNCHANGED <<where, raw, roots, global>>

(* ------------------------------ Collections ----------------------------- *)
\* caml_minor_collection: roots and table, then a slice, which may end a cycle and give back the
\* old blocks that are not reached.
Collected ==
  LET entries == {fields[e[1]][e[2]] : e \in {x \in table : x[2] \in DOMAIN fields[x[1]]}}
      kept == Reached(Variables \cup entries, {"young"})
      moved == [b \in Ids |-> IF b \in kept THEN "old" ELSE IF where[b] = "young" THEN "free" ELSE where[b]]
      found(b, i) == Young(fields[b][i]) /\ where[b] = "old" => <<b, i>> \in table
      updated == [b \in Ids |-> IF moved[b] = "free" THEN <<>>
                                ELSE [i \in DOMAIN fields[b] |-> IF found(b, i) THEN fields[b][i] ELSE Junk]]
      live == Reached(Variables, {"young", "old"})
  IN /\ table' = {}
     /\ \/ where' = moved /\ fields' = updated
        \/ /\ where' = [b \in Ids |-> IF b \in live THEN moved[b] ELSE "free"]
           /\ fields' = [b \in Ids |-> IF b \in live THEN updated[b] ELSE <<>>]
     /\ UNCHANGED <<raw, roots, global>>

(* ------------------------------ Primitives ------------------------------ *)
\* Which free place a block gets does not matter: it is the first.
Fresh(b) == where[b] = "free" /\ \A c \in Ids : c < b => where[c] # "free"
\* A block made at once: old blocks by caml_alloc_shr, young ones by Alloc_small.
Make(b, w, r, fs) == /\ Fresh(b) /\ where' = [where EXCEPT ![b] = w]
                     /\ fields' = [fields EXCEPT ![b] = fs] /\ raw' = [raw EXCEPT ![b] = r]
Filled(n, v) == [i \in 1..n |-> v]
Elements(n) == [k \in 1..2 * n |-> IF k % 2 = 1 THEN "gc" ELSE "elem"]

\* Where a collection may come: before a young block is made, after an old one.
PlanUncollected(fn, n, arg) ==
  IF n = 0 THEN <<>> ELSE IF fn = "vect" /\ n >= MaxYoung THEN <<"body", "gc">>
  ELSE IF fn = "dup" /\ n > MaxYoung /\ ~raw[arg] THEN <<"body">>
  ELSE (IF n <= MaxYoung THEN <<"gc", "body">> ELSE <<"body", "gc">>) \o (IF fn = "array" THEN Elements(n) ELSE <<>>)
Plan(fn, n, arg) ==
  CASE n = 0 -> <<>>
    [] fn = "vect" /\ n >= MaxYoung -> IF Young(arg) THEN <<"collect", "body", "gc">> ELSE <<"body", "gc">>
    [] fn = "dup" /\ n > MaxYoung /\ ~raw[arg] -> <<"body">>
    [] fn = "final" -> <<"body", "gc">>
    [] OTHER -> (IF n <= MaxYoung THEN <<"gc", "body">> ELSE <<"body", "gc">>)
                \o (IF fn = "array" THEN Elements(n) ELSE <<>>)
\* caml_alloc, caml_alloc_array, caml_alloc_custom with and without finaliser, caml_make_vect,
\* caml_obj_dup, caml_lazy_make_forward.
Begin(fn, n, arg) == call' = [NoCall EXCEPT !.fn = fn, !.n = n, !.arg = arg, !.plan = Plan(fn, n, arg)]
Start == /\ call.fn = "none" /\ ops < MaxOps /\ ops' = ops + 1
         /\ \/ /\ \/ \E n \in 0..MaxSize, fn \in {"alloc", "array"} : Begin(fn, n, Unit)
                  \/ \E n \in 1..MaxSize, fn \in {"custom", "final"} : Begin(fn, n, Unit)
               /\ UNCHANGED roots
            \/ \E r \in Roots :       \* the accumulator is no root during a call
                 /\ \/ \E n \in 0..MaxSize : Begin("vect", n, roots[r])
                    \/ roots[r] \in Ids /\ Begin("dup", Len(fields[roots[r]]), roots[r])
                    \/ Begin("forward", 1, roots[r])
                 /\ roots' = [roots EXCEPT ![r] = Unit]
         /\ UNCHANGED <<mem, global, table, finals>>

At(step) == call.plan # <<>> /\ Head(call.plan) = step
Advance == call' = [call EXCEPT !.plan = Tail(@)]
Contents == CASE call.fn = "vect" -> Filled(call.n, call.arg)
              [] call.fn = "dup" -> fields[call.arg]
              [] call.fn = "forward" -> <<call.arg>>
              [] OTHER -> Filled(call.n, Unit)
IsRaw == call.fn \in {"custom", "final"} \/ (call.fn = "dup" /\ raw[call.arg])
IsOld == call.n > MaxYoung \/ (call.fn = "vect" /\ call.n >= MaxYoung) \/ call.fn = "final"
\* The block is made and filled; large copies note their young values.
Body == /\ At("body")
        /\ \E b \in Ids : /\ Make(b, IF IsOld THEN "old" ELSE "young", IsRaw, Contents)
                          /\ call' = [call EXCEPT !.plan = Tail(@), !.res = b]
                          /\ table' = table \cup (IF call.fn = "dup" /\ ~IsRaw THEN Initialised(b, IsOld, Contents) ELSE {})
        /\ UNCHANGED <<roots, global, ops, finals>>
\* caml_alloc_array: a string is made, then stored with caml_modify.
Element == /\ At("elem")
           /\ \E b \in Ids : LET i == call.i + 1   r == call.res IN
                /\ Fresh(b) /\ where' = [where EXCEPT ![b] = "young"] /\ raw' = [raw EXCEPT ![b] = TRUE]
                /\ fields' = [fields EXCEPT ![b] = <<Unit>>, ![r][i] = b]
                /\ table' = table \cup (IF where[r] = "old" /\ ~Young(fields[r][i]) THEN {<<r, i>>} ELSE {})
           /\ call' = [call EXCEPT !.plan = Tail(@), !.i = @ + 1]
           /\ UNCHANGED <<roots, global, ops, finals>>
\* At a point where a collection may come, it does not; or it does, with finalisers that store,
\* and the minor heap is emptied again.
NoCollection == At("gc") /\ Advance /\ UNCHANGED <<mem, roots, global, table, ops, finals>>
Collect == /\ \/ At("gc") \/ At("collect")
           /\ Collected /\ call' = [call EXCEPT !.plan = <<"final">> \o Tail(@)] /\ UNCHANGED <<ops, finals>>
FinalStore == /\ At("final") /\ finals < MaxFinals /\ finals' = finals + 1
              /\ \E r, s \in Roots, i \in 1..MaxSize : Store(roots[r], i, roots[s])
              /\ UNCHANGED <<call, ops>>
\* One raises: the primitive is given up, and the minor heap is not emptied again.
FinalRaises == At("final") /\ call' = NoCall /\ UNCHANGED <<mem, roots, global, table, ops, finals>>
CollectAgain == At("final") /\ Collected /\ Advance /\ UNCHANGED <<ops, finals>>
Return == /\ call.fn # "none" /\ call.plan = <<>> /\ call' = NoCall
          /\ \E r \in Roots : roots' = [roots EXCEPT ![r] = call.res]
          /\ UNCHANGED <<mem, global, table, ops, finals>>

(* ------------------------- Changes without a call ----------------------- *)
Idle == call.fn = "none" /\ ops < MaxOps /\ ops' = ops + 1
\* caml_array_set and the stores of the interpreter.
Set == /\ Idle /\ \E r, s \in Roots, i \in 1..MaxSize : Store(roots[r], i, roots[s])
       /\ UNCHANGED <<call, finals>>
SetGlobal == /\ Idle /\ \E s \in Roots, i \in 1..MaxSize : Store(global, i, roots[s])
             /\ UNCHANGED <<call, finals>>
\* GETFIELD, GETGLOBALFIELD.
Load == /\ call.fn = "none" /\ \E r, s \in Roots, i \in 1..MaxSize :
             \E b \in {roots[s], global} \cap Ids : /\ ~raw[b] /\ i \in DOMAIN fields[b]
                                                  /\ roots' = [roots EXCEPT ![r] = fields[b][i]]
        /\ UNCHANGED <<mem, global, table, call, ops, finals>>
Drop == /\ call.fn = "none" /\ \E r \in Roots : roots[r] # Unit /\ roots' = [roots EXCEPT ![r] = Unit]
        /\ UNCHANGED <<mem, global, table, call, ops, finals>>
\* caml_update_dummy, between blocks of one size.
UpdateDummy ==
  /\ Idle /\ \E r, s \in Roots : LET d == roots[r]   v == roots[s] IN
       /\ {d, v} \subseteq Ids /\ ~raw[d] /\ ~raw[v] /\ Len(fields[d]) = Len(fields[v])
       /\ fields' = [fields EXCEPT ![d] = fields[v]] /\ table' = table \cup Modified(d, fields[v])
  /\ UNCHANGED <<where, raw, roots, global, call, finals>>
\* caml_obj_truncate: entries for the leftovers find a header or units.
Truncate == /\ Idle
            /\ \E r \in Roots : LET b == roots[r] IN
                 b \in Ids /\ \E n \in 1..Len(fields[b]) : fields' = [fields EXCEPT ![b] = SubSeq(@, 1, n)]
            /\ UNCHANGED <<where, raw, roots, global, table, call, finals>>
\* caml_realloc_global.
ReallocGlobal == /\ Idle /\ Len(fields[global]) < MaxSize
                 /\ \E b \in Ids : LET new == Append(fields[global], Unit) IN
                      /\ Make(b, "old", FALSE, new) /\ global' = b /\ table' = table \cup Initialised(b, TRUE, new)
                 /\ UNCHANGED <<roots, call, finals>>

Next == \/ Start \/ Body \/ Element \/ NoCollection \/ Collect \/ FinalStore \/ FinalRaises
        \/ CollectAgain \/ Return \/ Load
        \/ Set \/ SetGlobal \/ Drop \/ UpdateDummy \/ Truncate \/ ReallocGlobal
Spec == Init /\ [][Next]_vars

(* ------------------------------ Properties ------------------------------ *)
\* Where a collection may come and between calls, what is reached is initialised and points to
\* blocks that are there: the collector follows no junk and leaves none.
AtRest == call.fn = "none" \/ At("gc") \/ At("collect") \/ At("final")
Sound(v) == v = Unit \/ (v \in Ids /\ where[v] # "free")
HeapIsSound == AtRest => /\ \A v \in Variables : Sound(v)
                         /\ \A b \in Reached(Variables, {"young", "old"}) : \A v \in Held(b) : Sound(v)
\* A young block is reached from a live old one only through fields in the table.
OldIsRemembered == \A b \in Reached(Variables, {"young", "old"}) : where[b] = "old" /\ ~raw[b] =>
                     \A i \in DOMAIN fields[b] : Young(fields[b][i]) => <<b, i>> \in table
\* What make_vect, obj_dup, alloc and alloc_array return is whole, whatever collections came.
ResultIsWhole == call.fn # "none" /\ call.plan = <<>> /\ call.n > 0 =>
  LET fs == fields[call.res] IN
  CASE call.fn = "vect" -> fs = Filled(call.n, call.arg)
    [] call.fn = "dup" -> fs = fields[call.arg] /\ Len(fs) = call.n
    [] call.fn = "array" -> Len(fs) = call.n /\ \A i \in 1..call.n : fs[i] \in Ids /\ raw[fs[i]]
    [] call.fn = "forward" -> fs = <<call.arg>>
    [] OTHER -> fs = Filled(call.n, Unit)

================================================================================

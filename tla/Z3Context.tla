----------------------------- MODULE Z3Context -----------------------------
(***************************************************************************)
(* The record both prover interfaces keep, src/liquid/theoremProverZ3.ml   *)
(* and src/external/fixpoint/tpZ3.ml: the scopes of a Z3 context, the memo *)
(* tables from names to Z3 constants, and the list of declarations cut by  *)
(* barriers.  A predicate is the set of valuations of its names that       *)
(* satisfy it; a fact is a predicate, possibly negated, in which every     *)
(* name stands for the Z3 constant the memo gave it.                       *)
(***************************************************************************)
EXTENDS Integers, Sequences, FiniteSets

CONSTANTS Name, Sort, Value, Pred,
          VarsOf,   \* [Pred -> SUBSET Name]
          Holds     \* [Pred -> the set of valuations of VarsOf that satisfy it]

PredicatesAreSemantic ==
  /\ VarsOf \in [Pred -> SUBSET Name]
  /\ \A p \in Pred : Holds[p] \subseteq [VarsOf[p] -> Value]

(* A scope has its own identity: a scope pushed where another was popped is not the same. *)
BaseScope == [id |-> 0, facts |-> {}]

(* vart and funt are one memo; a run of declarations between two barriers is a set of keys. *)
Fresh == [scopes |-> <<BaseScope>>, pushes |-> 0, fresh |-> 0, memo |-> <<>>, decls |-> << {} >>]

Top(me) == me.scopes[Len(me.scopes)]

Push(me, facts) ==
  [me EXCEPT !.pushes = @ + 1, !.scopes = Append(@, [id |-> me.pushes + 1, facts |-> facts])]

Pop(me) == [me EXCEPT !.scopes = SubSeq(@, 1, Len(@) - 1)]

AssertFacts(me, facts) == [me EXCEPT !.scopes[Len(me.scopes)].facts = @ \cup facts]

Barrier(me) == [me EXCEPT !.decls = << {} >> \o @]

Forget(me, k) == [me EXCEPT !.memo = [j \in DOMAIN @ \ {k} |-> @[j]]]

(* Translating predicates declares the names the memo does not have yet: key gives *)
(* the memo's key of a name, env its sort.                                         *)
NewConst(me, n, env) == [name |-> n, sort |-> env[n], serial |-> me.fresh, scope |-> Top(me).id]

Translate(me, preds, key, env) ==
  LET names == UNION {VarsOf[p] : p \in preds}
      new   == {n \in names : key[n] \notin DOMAIN me.memo}
      consts == [k \in {key[n] : n \in new} |-> NewConst(me, CHOOSE n \in new : key[n] = k, env)]
  IN [me EXCEPT !.memo = [k \in DOMAIN @ \cup DOMAIN consts |-> IF k \in DOMAIN @ THEN @[k] ELSE consts[k]],
                !.decls[1] = @ \cup DOMAIN consts,
                !.fresh = @ + 1]

Term(me, p, key) == [pred |-> p, sign |-> TRUE, consts |-> [n \in VarsOf[p] |-> me.memo[key[n]]]]
Terms(me, preds, key) == {Term(me, p, key) : p \in preds}
\* A check that asserts the candidate itself.
NotNegated(fact) == fact
Negated(fact) == [fact EXCEPT !.sign = ~@]

(* Pops the declarations down to the first barrier and forgets them. *)
CleanDecls(me) ==
  [me EXCEPT !.memo = [k \in DOMAIN @ \ me.decls[1] |-> @[k]],
             !.decls = IF Len(@) = 1 THEN << {} >> ELSE Tail(@)]

Facts(me) == UNION {me.scopes[i].facts : i \in DOMAIN me.scopes}
Consts(facts) == UNION {{f.consts[n] : n \in DOMAIN f.consts} : f \in facts}
LiveScopes(me) == {me.scopes[i].id : i \in DOMAIN me.scopes}

Satisfies(v, f) == ([n \in DOMAIN f.consts |-> v[f.consts[n]]] \in Holds[f.pred]) = f.sign

(* Z3.check answers L_FALSE. *)
Unsat(me) ==
  LET facts == Facts(me) IN \A v \in [Consts(facts) -> Value] : \E f \in facts : ~Satisfies(v, f)

(* What a reference to a term needs to be valid: the scope it was created in is still pushed. *)
ConstsAreLive(me, consts) == \A c \in consts : c.scope \in LiveScopes(me)

(* The entailment a query asks for, with no prover in between. *)
Entails(preds, p) ==
  \A v \in [Name -> Value] :
     (\A q \in preds : [n \in VarsOf[q] |-> v[n]] \in Holds[q]) => [n \in VarsOf[p] |-> v[n]] \in Holds[p]
Contradictory(preds) ==
  \A v \in [Name -> Value] : \E q \in preds : [n \in VarsOf[q] |-> v[n]] \notin Holds[q]
=============================================================================

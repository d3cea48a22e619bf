---------------------------- MODULE MigrateProofs ----------------------------
(***************************************************************************)
(* Migrations are applied once and in order for any number of servers and  *)
(* of migrations, and any number of failures.                              *)
(***************************************************************************)
EXTENDS Migrate, SequenceTheorems, TLAPS

(* What the loop of Migrate knows: everything before the migration it      *)
(* looks at is applied, and inside the loop there is one to look at.       *)
LoopPosition ==
  \A s \in Server :
    /\ pc[s] # "down" => next[s] <= Len(schema) + 1
    /\ pc[s] \in {"apply", "record"} => next[s] <= Migrations
    /\ pc[s] = "serving" => next[s] = Migrations + 1

MInv == MTypeOK /\ schema \in Seq(Nat) /\ SchemaInOrder /\ LoopPosition

(* Every step of a server, and every kill, preserves the invariant. *)
LEMMA NextMInv == MInv /\ [MNext]_mvars => MInv'
<1> SUFFICES ASSUME MInv, [MNext]_mvars
             PROVE  MInv'
  OBVIOUS
<1> USE MigrateAssumption DEF MInv
<1>0. Len(schema) \in Nat
  BY LenProperties
<1>1. ASSUME NEW s \in Server, Boot(s)
      PROVE  MInv'
  BY <1>0, <1>1 DEF Boot, MTypeOK, SchemaInOrder, LoopPosition
<1>2. ASSUME NEW s \in Server, Check(s)
      PROVE  MInv'
  <2>1. CASE next[s] \in ledger
    BY <1>0, <1>2, <2>1 DEF Check, MTypeOK, SchemaInOrder, LoopPosition
  <2>2. CASE next[s] \notin ledger
    BY <1>0, <1>2, <2>2 DEF Check, MTypeOK, SchemaInOrder, LoopPosition
  <2> QED
    BY <2>1, <2>2
<1>3. ASSUME NEW s \in Server, Apply(s)
      PROVE  MInv'
  BY <1>0, <1>3 DEF Apply, MTypeOK, SchemaInOrder, LoopPosition
<1>4. ASSUME NEW s \in Server, Record(s)
      PROVE  MInv'
  <2>1. CASE next[s] \in ledger
    BY <1>0, <1>4, <2>1 DEF Record, MTypeOK, SchemaInOrder, LoopPosition
  <2>2. CASE next[s] \notin ledger
    <3>1. next[s] \in 1..Migrations /\ next[s] = Len(schema) + 1
      BY <1>0, <1>4, <2>2 DEF Record, MTypeOK, SchemaInOrder, LoopPosition
    <3>2. /\ schema' = Append(schema, next[s])
          /\ ledger' = ledger \cup {next[s]}
          /\ next' = [next EXCEPT ![s] = @ + 1]
          /\ pc' = [pc EXCEPT ![s] = "check"]
          /\ failures' = failures
      BY <1>4, <2>2 DEF Record
    <3>3. /\ schema' \in Seq(Nat) /\ Len(schema') = Len(schema) + 1
          /\ \A i \in 1..Len(schema) : schema'[i] = schema[i]
          /\ schema'[Len(schema) + 1] = next[s]
      BY <1>0, <3>1, <3>2, AppendProperties
    <3>4. SchemaInOrder'
      BY <1>0, <3>1, <3>2, <3>3 DEF SchemaInOrder
    <3>5. MTypeOK'
      <4>1. next[s] + 1 \in 1..(Migrations + 1)
        BY <3>1
      <4>2. next' \in [Server -> 1..(Migrations + 1)]
        BY <3>2, <4>1 DEF MTypeOK
      <4> QED
        BY <3>1, <3>2, <4>2 DEF MTypeOK
    <3>6. LoopPosition'
      BY <1>0, <3>1, <3>2, <3>3 DEF LoopPosition, MTypeOK
    <3> QED
      BY <3>3, <3>4, <3>5, <3>6
  <2> QED
    BY <2>1, <2>2
<1>5. ASSUME NEW s \in Server, Serve(s)
      PROVE  MInv'
  BY <1>0, <1>5 DEF Serve, MTypeOK, SchemaInOrder, LoopPosition
<1>6. ASSUME NEW s \in Server, Exit(s)
      PROVE  MInv'
  BY <1>0, <1>6 DEF Exit, MTypeOK, SchemaInOrder, LoopPosition
<1>7. CASE UNCHANGED mvars
  BY <1>7 DEF mvars, MTypeOK, SchemaInOrder, LoopPosition
<1> QED
  BY <1>1, <1>2, <1>3, <1>4, <1>5, <1>6, <1>7 DEF MNext, Step

(* The invariant of concurrent server starts. *)
THEOREM MInvAlways == MSpec => []MInv
<1>1. MInit => MInv
  BY MigrateAssumption, EmptySeq
     DEF MInit, MInv, MTypeOK, SchemaInOrder, LoopPosition
<1> QED
  BY <1>1, NextMInv, PTL DEF MSpec

(* Migrate applies each migration once and in filename order. *)
THEOREM SchemaAlwaysInOrder == MSpec => []SchemaInOrder
BY MInvAlways, PTL DEF MInv

(* A server that serves requests finds every migration applied. *)
THEOREM AlwaysServesOnFullSchema == MSpec => []ServesOnFullSchema
<1>1. MInv => ServesOnFullSchema
  <2> SUFFICES ASSUME MInv, NEW s \in Server, pc[s] = "serving"
               PROVE  Len(schema) = Migrations
    BY DEF ServesOnFullSchema
  <2>1. Len(schema) \in Nat
    BY LenProperties DEF MInv
  <2> QED
    BY <2>1, MigrateAssumption DEF MInv, SchemaInOrder, LoopPosition
<1> QED
  BY <1>1, MInvAlways, PTL
=============================================================================

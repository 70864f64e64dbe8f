----------------------------- MODULE LogProofs ------------------------------
(***************************************************************************)
(* Proofs about Log, for every number of processes and blocks and every    *)
(* size of the log.                                                        *)
(*                                                                         *)
(* The reservation argument.  A token <<p, k>> stands for a block that the *)
(* operation of p may still add to the log.  begin_op creates the tokens   *)
(* of an operation, log_write spends one for each new block, and the       *)
(* blocks logged plus the tokens left never exceed what begin_op reserved. *)
(*                                                                         *)
(* The refinement.  What a crash would leave (AfterRecovery) changes only  *)
(* when the header is written, and then becomes what readers see: TxInv    *)
(* says where the contents of a block are, in each phase of a commit and   *)
(* of recovery.                                                            *)
(***************************************************************************)
EXTENDS Log, FiniteSetTheorems, TLAPS

Committer == {p \in Proc : pc[p] \in {"write_log", "install", "done"}}

Logged == {lh[i] : i \in 1 .. Len(lh)}

Tokens == {t \in Proc \X (1 .. OpBlocks) :
             /\ t[1] \in Active
             /\ t[2] > Cardinality(opw[t[1]])}

\* A number of blocks that the reservation allows in the log.
Room(n) == \/ n <= OpBlocks
           \/ n + 2 * (MAXOPBLOCKS - OpBlocks) <= LOGSIZE

\* The size of the on-disk log that makes the reservation of begin_op enough.
\* The kernel has MAXOPBLOCKS = 10 and LOGSIZE = NLOG = 30, so this says that
\* an operation writes at most 9 blocks.
ReservationCovers ==
  /\ OpBlocks < MAXOPBLOCKS
  /\ OpBlocks + 1 < NLOG
  /\ LOGSIZE + 1 < NLOG + 2 * (MAXOPBLOCKS - OpBlocks)

-----------------------------------------------------------------------------
(* The inductive invariant.                                                *)

\* Nothing runs before recovery is over.
Booting ==
  mode \in {"boot", "replay"} =>
    /\ \A p \in Proc : pc[p] = "idle"
    /\ outstanding = 0
    /\ committing = 0

\* log.outstanding counts the operations, and log.committing tells the one
\* process in commit(), which runs alone.
Counted ==
  /\ outstanding = Cardinality(Active)
  /\ committing = 1 <=> Committer # {}
  /\ committing = 1 => outstanding = 0
  /\ \A p, q \in Committer : p = q

\* What an operation has written is in the log, within its bound.
OpsLogged ==
  \A p \in Active :
    /\ opw[p] \subseteq Logged
    /\ IsFiniteSet(opw[p])
    /\ Cardinality(opw[p]) <= OpBlocks
    /\ pc[p] = "append" =>
         /\ wbuf[p] \in Block
         /\ wbuf[p] \in opw[p] \/ Cardinality(opw[p]) < OpBlocks

Reserved ==
  /\ Room(Len(lh) + Cardinality(Tokens))
  /\ Room(Len(dhead))
  /\ mode \in {"run", "panic"} /\ outstanding = 0 /\ committing = 0 => lh = <<>>

\* The committer that is done has emptied the log.
Emptied == \A p \in Committer : pc[p] = "done" => lh = <<>>

IInv == TypeOK /\ Booting /\ Counted /\ OpsLogged /\ Reserved /\ Emptied

-----------------------------------------------------------------------------
(* Lemmas.                                                                 *)

\* An operation inside its reservation leaves the rest of it to the others.
LEMMA Surplus ==
  ASSUME NEW a \in Nat, NEW o \in Nat, NEW m \in Nat, o <= m, a >= 2
  PROVE  a * o + 2 * (m - o) <= a * m
<1> DEFINE d == m - o
<1>1. d \in Nat /\ m = o + d
  OBVIOUS
<1>2. a * m = a * o + a * d
  BY <1>1
<1>3. a * d >= 2 * d
  BY <1>1
<1> QED
  BY <1>1, <1>2, <1>3

\* Room bounds the log by its header.
LEMMA RoomBound ==
  ASSUME NEW n \in Nat, Room(n)
  PROVE  n <= LOGSIZE
  BY SizeAssumption DEF Room

\* Room is closed downwards.
LEMMA RoomMono ==
  ASSUME NEW n \in Nat, NEW k \in Nat, Room(n), k <= n
  PROVE  Room(k)
  BY SizeAssumption DEF Room

\* Active and the tokens are finite; the tokens are at most OpBlocks each.
LEMMA TokensFinite ==
  TypeOK => /\ IsFiniteSet(Active) /\ Cardinality(Active) \in Nat
            /\ IsFiniteSet(Tokens) /\ Cardinality(Tokens) \in Nat
            /\ Cardinality(Tokens) <= Cardinality(Active) * OpBlocks
<1> SUFFICES ASSUME TypeOK
             PROVE  /\ IsFiniteSet(Active) /\ Cardinality(Active) \in Nat
                    /\ IsFiniteSet(Tokens) /\ Cardinality(Tokens) \in Nat
                    /\ Cardinality(Tokens) <= Cardinality(Active) * OpBlocks
  BY Zenon
<1>1. IsFiniteSet(Active)
  BY Zenon, FiniteAssumption, FS_Subset DEF Active
<1>2. IsFiniteSet(1 .. OpBlocks) /\ Cardinality(1 .. OpBlocks) = OpBlocks
  BY FS_Interval, SizeAssumption
<1>3. /\ IsFiniteSet(Active \X (1 .. OpBlocks))
      /\ Cardinality(Active \X (1 .. OpBlocks)) = Cardinality(Active) * OpBlocks
  BY Zenon, <1>1, <1>2, FS_Product
<1>4. Tokens \in SUBSET (Active \X (1 .. OpBlocks))
  BY Zenon DEF Tokens
<1> QED
  BY Zenon, <1>1, <1>3, <1>4, FS_Subset, FS_CardinalityType

\* The invariant holds at power on.
LEMMA InitIInv == Init => IInv
<1> SUFFICES ASSUME Init PROVE IInv
  BY Zenon
<1>1. TypeOK
  <2>1. dlog \in [1 .. LOGSIZE -> Val \cup {Torn}]
    BY Zenon DEF Init
  <2>2. pc \in [Proc -> PC]
    BY Zenon DEF Init, PC
  <2>3. lh \in Seq(Block) /\ dhead \in Seq(Block)
    BY DEF Init
  <2>4. disk \in [Block -> Val \cup {Torn}]
    BY Zenon DEF Init
  <2>5. committing \in {0, 1}
    BY Zenon DEF Init
  <2>6. /\ buf \in [Block -> Val \cup {Torn, NoBuf}]
        /\ wbuf \in [Proc -> Block \cup {NoBuf}]
        /\ opw \in [Proc -> SUBSET Block]
        /\ dirty \in SUBSET Block
    BY Zenon DEF Init
  <2>7. outstanding \in Nat /\ tail \in Nat \ {0}
    BY DEF Init
  <2>8. mode \in {"boot", "replay", "run", "panic"}
    BY Zenon DEF Init
  <2> QED
    BY Zenon, <2>1, <2>2, <2>3, <2>4, <2>5, <2>6, <2>7, <2>8 DEF TypeOK
<1>2. Active = {} /\ Committer = {}
  BY Zenon DEF Init, Active, Committer
<1>3. Booting
  BY Zenon DEF Init, Booting
<1>4. Counted
  BY <1>2, FS_EmptySet DEF Init, Counted
<1>5. OpsLogged
  BY Zenon, <1>2 DEF OpsLogged
<1>6. Tokens = {} /\ Cardinality(Tokens) = 0
  BY Zenon, <1>2, FS_EmptySet DEF Tokens
<1>7. Reserved
  BY <1>6, SizeAssumption DEF Init, Reserved, Room
<1> QED
  BY Zenon, <1>1, <1>2, <1>3, <1>4, <1>5, <1>7 DEF IInv, Emptied

\* Steps that leave the operations and the in-memory log alone.
LEMMA SameOps ==
  ASSUME IInv, TypeOK', Active' = Active,
         \A p \in Active : pc'[p] = pc[p],
         UNCHANGED <<lh, opw, wbuf>>
  PROVE  OpsLogged' /\ Tokens' = Tokens /\ Logged' = Logged
<1>1. Logged' = Logged
  BY Zenon DEF Logged
<1>2. OpsLogged'
  BY Zenon, <1>1 DEF IInv, OpsLogged
<1>3. Tokens' = Tokens
  BY ZenonT(30) DEF Tokens
<1> QED
  BY Zenon, <1>1, <1>2, <1>3

\* Types are preserved.  InstallTrans reads dlog[tail], which needs the bound
\* on the length of the log, and end_op decrements outstanding, which needs the
\* count of the operations.
LEMMA TypeStep == IInv /\ [Next]_vars => TypeOK'
<1> SUFFICES ASSUME IInv, [Next]_vars PROVE TypeOK'
  BY Zenon
<1> USE DEF TypeOK
<1>a. TypeOK
  BY Zenon DEF IInv
<1>b. Len(lh) \in Nat /\ Len(lh) <= LOGSIZE
  <2>1. Len(lh) \in Nat /\ Cardinality(Tokens) \in Nat
    BY <1>a, TokensFinite
  <2>2. Room(Len(lh) + Cardinality(Tokens))
    BY Zenon DEF IInv, Reserved
  <2> QED
    BY <2>1, <2>2, RoomBound, RoomMono
<1>c. InstallTrans => /\ buf' \in [Block -> Val \cup {Torn, NoBuf}]
                      /\ disk' \in [Block -> Val \cup {Torn}]
                      /\ dirty' \in SUBSET Block
                      /\ tail' \in Nat \ {0}
  <2> SUFFICES ASSUME InstallTrans
               PROVE  /\ buf' \in [Block -> Val \cup {Torn, NoBuf}]
                      /\ disk' \in [Block -> Val \cup {Torn}]
                      /\ dirty' \in SUBSET Block
                      /\ tail' \in Nat \ {0}
    BY Zenon
  <2>1. tail \in 1 .. LOGSIZE
    BY <1>a, <1>b, SizeAssumption DEF InstallTrans
  <2>2. dlog[tail] \in Val \cup {Torn}
    BY Zenon, <1>a, <2>1
  <2> QED
    BY <1>a, <2>1, <2>2 DEF InstallTrans
<1>d. \A f \in [Proc -> PC] : Wakeup(f) \in [Proc -> PC]
  BY Zenon DEF Wakeup, PC
<1>1. CASE ReadHead
  BY <1>a, <1>1 DEF ReadHead
<1>2. CASE Replay
  BY Zenon, <1>a, <1>c, <1>2 DEF Replay
<1>3. CASE Recovered
  BY <1>a, <1>3 DEF Recovered
<1>4. ASSUME NEW p \in Proc, BeginOp(p) PROVE TypeOK'
  BY <1>a, <1>4 DEF BeginOp, PC, diskVars
<1>5. ASSUME NEW p \in Proc, LogAppend(p) PROVE TypeOK'
  <2>1. wbuf[p] \in Block
    BY Zenon, <1>5 DEF LogAppend, IInv, OpsLogged, Active
  <2>2. lh' \in Seq(Block) /\ dirty' \in SUBSET Block
    BY <1>a, <1>5, <2>1 DEF LogAppend
  <2>3. opw' \in [Proc -> SUBSET Block]
    BY Zenon, <1>a, <1>5, <2>1 DEF LogAppend
  <2> QED
    BY Zenon, <1>a, <1>5, <2>2, <2>3 DEF LogAppend, PC, diskVars
<1>6. ASSUME NEW p \in Proc, EndOp(p) PROVE TypeOK'
  <2>1. outstanding - 1 \in Nat
    <3>1. p \in Active
      BY Zenon, <1>6 DEF EndOp, Active
    <3>2. IsFiniteSet(Active) /\ Active # {}
      BY Zenon, <1>a, <3>1, TokensFinite
    <3> QED
      BY <1>a, <3>2, FS_EmptySet DEF IInv, Counted
  <2>2. pc' \in [Proc -> PC]
    <3>1. \A x \in PC : [pc EXCEPT ![p] = x] \in [Proc -> PC]
      BY Zenon, <1>a
    <3>2. "idle" \in PC /\ "done" \in PC /\ "write_log" \in PC
      BY Zenon DEF PC
    <3>3. Wakeup([pc EXCEPT ![p] = "idle"]) \in [Proc -> PC]
      BY Zenon, <3>1, <3>2, <1>d
    <3> QED
      BY Zenon, <1>6, <3>1, <3>2, <3>3 DEF EndOp
  <2>3. committing' \in {0, 1} /\ tail' \in Nat \ {0}
    BY <1>a, <1>6 DEF EndOp
  <2> QED
    BY Zenon, <1>a, <1>6, <2>1, <2>2, <2>3 DEF EndOp, diskVars
<1>7. ASSUME NEW p \in Proc, WriteLog(p) PROVE TypeOK'
  <2>1. lh[tail] \in Block
    BY <1>a, <1>7 DEF WriteLog
  <2>2. Bread(lh[tail]) \in Val \cup {Torn}
    BY Zenon, <1>a, <2>1 DEF Bread
  <2> QED
    <3>1. dlog' \in [1 .. LOGSIZE -> Val \cup {Torn}]
      BY Zenon, <1>a, <1>7, <2>2 DEF WriteLog
    <3>2. tail' \in Nat \ {0}
      BY <1>a, <1>7 DEF WriteLog
    <3> QED
      BY Zenon, <1>a, <1>7, <3>1, <3>2 DEF WriteLog, logVars
<1>8. ASSUME NEW p \in Proc, WriteHead(p) PROVE TypeOK'
  BY <1>a, <1>8 DEF WriteHead, PC, logVars
<1>9. ASSUME NEW p \in Proc, Install(p) PROVE TypeOK'
  BY Zenon, <1>a, <1>c, <1>9 DEF Install, logVars
<1>10. ASSUME NEW p \in Proc, EraseHead(p) PROVE TypeOK'
  BY <1>a, <1>10 DEF EraseHead, PC
<1>11. ASSUME NEW p \in Proc, EndCommit(p) PROVE TypeOK'
  BY Zenon, <1>a, <1>d, <1>11 DEF EndCommit, PC, diskVars
<1>12. ASSUME NEW p \in Proc, NEW b \in Block, NEW v \in Val, LogWrite(p, b, v)
       PROVE TypeOK'
  BY Zenon, <1>a, <1>12 DEF LogWrite, PC, diskVars, logVars
<1>13. ASSUME NEW b \in Block, Recycle(b) PROVE TypeOK'
  BY Zenon, <1>a, <1>13 DEF Recycle, diskVars, logVars
<1>14. CASE Crash
  <2>1. /\ disk' \in [Block -> Val \cup {Torn}]
        /\ dlog' \in [1 .. LOGSIZE -> Val \cup {Torn}]
    BY Zenon, <1>a, <1>14 DEF Crash, CleanCut, TornLog, TornHome
  <2>2. committing' \in {0, 1} /\ lh' \in Seq(Block)
    BY <1>14 DEF Crash
  <2> QED
    BY <1>a, <1>14, <2>1, <2>2 DEF Crash, PC
<1>15. CASE UNCHANGED vars
  BY Zenon, <1>a, <1>15 DEF vars
<1> QED
  BY <1>1, <1>2, <1>3, <1>4, <1>5, <1>6, <1>7, <1>8, <1>9, <1>10, <1>11,
     <1>12, <1>13, <1>14, <1>15 DEF Next, Recover, Commit

\* A step that changes neither who is active nor who commits, nor the log.
LEMMA QuietStep ==
  ASSUME IInv, TypeOK', UNCHANGED <<outstanding, committing, lh, opw, wbuf>>,
         \A p \in Proc : pc'[p] # pc[p] =>
            /\ pc[p] \in {"idle", "begin", "sleep"}
            /\ pc'[p] \in {"idle", "begin", "sleep"},
         dhead' = dhead,
         mode' = mode \/ (mode' \in {"run", "panic"} /\ mode = "run"),
         mode \in {"boot", "replay"} => pc' = pc
  PROVE  IInv'
<1> USE DEF IInv
<1>1. Active' = Active /\ Committer' = Committer
  BY Zenon DEF Active, Committer
<1>2. Counted'
  BY Zenon, <1>1 DEF Counted
<1>3. OpsLogged' /\ Tokens' = Tokens
  <2>1. \A p \in Active : pc'[p] = pc[p]
    BY Zenon DEF Active
  <2> QED
    BY Zenon, <1>1, <2>1, SameOps
<1>4. Booting'
  BY Zenon DEF Booting
<1>5. Reserved'
  BY Zenon, <1>3 DEF Reserved
<1>6. Emptied'
  BY Zenon, <1>1 DEF Emptied, Committer
<1> QED
  BY Zenon, <1>2, <1>3, <1>4, <1>5, <1>6

\* A step of the committing process.
LEMMA CommitStep ==
  ASSUME IInv, TypeOK', UNCHANGED <<outstanding, committing, opw, wbuf, mode>>,
         NEW p \in Committer, 
         mode = "run",
         pc' = [pc EXCEPT ![p] = pc'[p]],
         pc'[p] \in {"write_log", "install", "done"},
         pc'[p] = "done" => lh' = <<>>,
         \/ lh' = lh /\ dhead' \in {lh, dhead}
         \/ lh' = <<>> /\ dhead' = <<>>
  PROVE  IInv'
<1> USE DEF IInv
<1>1. Committer' = Committer /\ Active' = Active
  BY Zenon DEF Active, Committer, TypeOK
<1>2. committing = 1 /\ outstanding = 0 /\ Active = {}
  BY Zenon, TokensFinite, FS_EmptySet DEF Counted, TypeOK
<1>3. Counted'
  BY Zenon, <1>1 DEF Counted
<1>4. OpsLogged'
  BY Zenon, <1>1, <1>2 DEF OpsLogged
<1>5. Tokens = {} /\ Tokens' = {} /\ Cardinality({}) = 0
  BY Zenon, <1>1, <1>2, FS_EmptySet DEF Tokens
<1>6. Room(Len(lh)) /\ Room(Len(dhead)) /\ Room(0)
  BY <1>5, SizeAssumption DEF Reserved, Room, TypeOK
<1>7. Reserved'
  BY <1>2, <1>5, <1>6 DEF Reserved, TypeOK
<1>8. Booting'
  BY Zenon DEF Booting
<1>9. Emptied'
  BY Zenon, <1>1 DEF Counted, Emptied
<1> QED
  BY Zenon, <1>3, <1>4, <1>7, <1>8, <1>9

\* begin_op: the tokens of the new operation fit in what the test leaves.
LEMMA BeginOpStep ==
  ASSUME IInv, TypeOK', NEW p \in Proc, BeginOp(p)
  PROVE  IInv'
<1> USE DEF IInv
<1>1. CASE committing = 1 \/ NoLogSpace
  <2>1. pc' = [pc EXCEPT ![p] = "sleep"] /\ pc[p] \in {"idle", "begin"}
    BY Zenon, <1>1 DEF BeginOp
  <2> QED
    BY Zenon, <1>1, <2>1, QuietStep DEF BeginOp, diskVars, TypeOK
<1>2. CASE committing = 0 /\ ~NoLogSpace
  <2>1. /\ pc' = [pc EXCEPT ![p] = "op"] /\ pc[p] \in {"idle", "begin"}
        /\ outstanding' = outstanding + 1
        /\ opw' = [opw EXCEPT ![p] = {}]
        /\ UNCHANGED <<lh, dhead, committing, wbuf, mode>>
        /\ mode = "run"
    BY <1>2 DEF BeginOp, diskVars
  <2>2. Active' = Active \cup {p} /\ p \notin Active
    BY <2>1 DEF Active, TypeOK
  <2>3. Committer' = Committer
    BY Zenon, <2>1 DEF Committer, TypeOK
  <2>4. /\ IsFiniteSet(Active) /\ Cardinality(Active') = Cardinality(Active) + 1
    BY Zenon, <2>2, FS_AddElement, TokensFinite
  <2>5. Counted'
    BY <1>2, <2>1, <2>3, <2>4 DEF Counted
  <2>6. OpsLogged'
    <3>1. Logged' = Logged
      BY Zenon, <2>1 DEF Logged
    <3>2. opw'[p] = {} /\ pc'[p] = "op"
      BY Zenon, <2>1 DEF TypeOK
    <3>3. \A q \in Active : opw'[q] = opw[q] /\ pc'[q] = pc[q] /\ wbuf'[q] = wbuf[q]
      BY <2>1, <2>2 DEF TypeOK
    <3>4. IsFiniteSet({}) /\ Cardinality({}) <= OpBlocks
      BY FS_EmptySet, SizeAssumption
    <3> QED
      BY Zenon, <2>2, <3>1, <3>2, <3>3, <3>4 DEF OpsLogged
  <2>7. Room(Len(lh') + Cardinality(Tokens'))
    <3>1. /\ Cardinality(Tokens') \in Nat
          /\ Cardinality(Tokens') <= (outstanding + 1) * OpBlocks
      <4>1. (TypeOK => /\ Cardinality(Tokens) \in Nat
                       /\ Cardinality(Tokens) <= Cardinality(Active) * OpBlocks)'
        BY TokensFinite, PTL
      <4> QED
        BY Zenon, <4>1, <2>4 DEF Counted
    <3>2. Len(lh) + (outstanding + 1) * MAXOPBLOCKS <= LOGSIZE
      BY <1>2, SizeAssumption DEF NoLogSpace, TypeOK
    <3>3. CASE outstanding = 0
      <4>1. Len(lh) = 0
        BY <1>2, <2>1, <3>3 DEF Reserved
      <4> QED
        BY <2>1, <3>1, <3>3, <4>1, SizeAssumption DEF Room, TypeOK
    <3>4. CASE outstanding > 0
      <4>1. (outstanding + 1) * OpBlocks + 2 * (MAXOPBLOCKS - OpBlocks)
              <= (outstanding + 1) * MAXOPBLOCKS
        <5>1. outstanding + 1 \in Nat /\ outstanding + 1 >= 2
          BY <3>4 DEF TypeOK
        <5>2. OpBlocks \in Nat /\ MAXOPBLOCKS \in Nat /\ OpBlocks <= MAXOPBLOCKS
          BY Zenon, SizeAssumption
        <5> HIDE DEF IInv
        <5> QED
          BY Zenon, <5>1, <5>2, Surplus
      <4> DEFINE x == (outstanding + 1) * OpBlocks
                 y == (outstanding + 1) * MAXOPBLOCKS
      <4>2. x \in Nat /\ y \in Nat /\ Len(lh) \in Nat
        BY SizeAssumption DEF TypeOK
      <4> HIDE DEF x, y
      <4>3. x + 2 * (MAXOPBLOCKS - OpBlocks) <= y
        BY Zenon, <4>1 DEF x, y
      <4>4. Len(lh) + y <= LOGSIZE /\ Cardinality(Tokens') <= x
        BY Zenon, <3>1, <3>2 DEF x, y
      <4> QED
        BY <2>1, <3>1, <4>2, <4>3, <4>4, SizeAssumption DEF Room
    <3> QED
      BY <3>3, <3>4 DEF TypeOK
  <2>8. Reserved'
    BY <2>1, <2>7 DEF Reserved, TypeOK
  <2>9. Booting'
    BY Zenon, <2>1 DEF Booting
  <2>10. Emptied'
    BY <1>2, <2>3 DEF Counted, Emptied, TypeOK
  <2> QED
    BY Zenon, <2>5, <2>6, <2>8, <2>9, <2>10
<1> QED
  BY Zenon, <1>1, <1>2 DEF TypeOK

\* log_write up to the lock: the bound of the operation holds the new block.
LEMMA LogWriteStep ==
  ASSUME IInv, TypeOK', NEW p \in Proc, NEW b \in Block, NEW v \in Val,
         LogWrite(p, b, v)
  PROVE  IInv'
<1> USE DEF IInv
<1>1. /\ pc' = [pc EXCEPT ![p] = "append"] /\ pc[p] = "op"
      /\ wbuf' = [wbuf EXCEPT ![p] = b]
      /\ b \in opw[p] \/ Cardinality(opw[p]) < OpBlocks
      /\ UNCHANGED <<lh, dhead, outstanding, committing, opw>>
      /\ mode = "run" /\ mode' \in {"run", "panic"}
  BY Zenon DEF LogWrite, diskVars, logVars
<1>2. Active' = Active /\ Committer' = Committer
  BY <1>1 DEF Active, Committer, TypeOK
<1>3. Logged' = Logged /\ Tokens' = Tokens
  BY Zenon, <1>1, <1>2 DEF Logged, Tokens
<1>4. Counted'
  BY Zenon, <1>1, <1>2 DEF Counted
<1>5. OpsLogged'
  <2> SUFFICES ASSUME NEW q \in Active
               PROVE  /\ opw[q] \subseteq Logged
                      /\ IsFiniteSet(opw[q])
                      /\ Cardinality(opw[q]) <= OpBlocks
                      /\ pc'[q] = "append" =>
                           /\ wbuf'[q] \in Block
                           /\ wbuf'[q] \in opw[q] \/ Cardinality(opw[q]) < OpBlocks
    BY Zenon, <1>1, <1>2, <1>3 DEF OpsLogged
  <2>1. CASE q = p
    BY Zenon, <1>1, <2>1 DEF OpsLogged, TypeOK
  <2>2. CASE q # p
    <3>1. pc'[q] = pc[q] /\ wbuf'[q] = wbuf[q]
      BY Zenon, <1>1, <2>2 DEF TypeOK, Active
    <3> QED
      BY Zenon, <3>1 DEF OpsLogged
  <2> QED
    BY Zenon, <2>1, <2>2
<1>6. Booting'
  BY Zenon, <1>1 DEF Booting
<1>7. Reserved'
  BY Zenon, <1>1, <1>3 DEF Reserved
<1>8. Emptied'
  BY Zenon, <1>1, <1>2 DEF Emptied, Committer, TypeOK
<1> QED
  BY Zenon, <1>4, <1>5, <1>6, <1>7, <1>8

\* log_write under the lock adds the block to the log unless it is there.
LEMMA Appended ==
  ASSUME IInv, NEW p \in Proc, LogAppend(p)
  PROVE  /\ wbuf[p] \in Block /\ Logged' = Logged \cup {wbuf[p]}
         /\ \/ wbuf[p] \in Logged /\ lh' = lh
            \/ wbuf[p] \notin Logged /\ lh' = Append(lh, wbuf[p])
<1> DEFINE b == wbuf[p]
<1>1. lh \in Seq(Block) /\ b \in Block
  BY Zenon DEF IInv, TypeOK, OpsLogged, Active, LogAppend
<1>2. \/ b \in Logged /\ lh' = lh
      \/ b \notin Logged /\ lh' = Append(lh, b)
  BY Zenon DEF LogAppend, Logged
<1> HIDE DEF b
<1>3. CASE b \in Logged /\ lh' = lh
  BY Zenon, <1>1, <1>3 DEF Logged, b
<1>4. CASE b \notin Logged /\ lh' = Append(lh, b)
  <2>1. /\ Len(lh') = Len(lh) + 1 /\ Len(lh) \in Nat
        /\ lh'[Len(lh) + 1] = b
        /\ \A i \in 1 .. Len(lh) : lh'[i] = lh[i]
    BY <1>1, <1>4
  <2>2. 1 .. Len(lh') = (1 .. Len(lh)) \cup {Len(lh) + 1}
    BY <2>1
  <2>3. Logged' = Logged \cup {b}
    BY <2>1, <2>2 DEF Logged
  <2> QED BY Zenon, <1>1, <1>4, <2>3 DEF b
<1> QED BY Zenon, <1>2, <1>3, <1>4

\* log_write under the lock: a block new to the log costs its writer a token.
LEMMA LogAppendStep ==
  ASSUME IInv, TypeOK', NEW p \in Proc, LogAppend(p)
  PROVE  IInv'
<1> DEFINE b == wbuf[p]
<1>t. TypeOK /\ Booting /\ Counted /\ OpsLogged /\ Reserved /\ Emptied
  BY Zenon DEF IInv
<1>1. /\ pc' = [pc EXCEPT ![p] = "op"] /\ pc[p] = "append"
      /\ opw' = [opw EXCEPT ![p] = @ \cup {b}]
      /\ wbuf' = [wbuf EXCEPT ![p] = NoBuf]
      /\ UNCHANGED <<dhead, outstanding, committing>>
      /\ mode = "run" /\ mode' = "run"
  BY Zenon DEF LogAppend, diskVars
<1>2. p \in Active /\ b \in Block
  BY Zenon, <1>1, <1>t DEF Active, OpsLogged
<1>3. Active' = Active /\ Committer' = Committer
  BY Zenon, <1>1, <1>t DEF Active, Committer, TypeOK
<1>4. Counted'
  BY Zenon, <1>1, <1>3, <1>t DEF Counted
<1>5. \/ b \in Logged /\ lh' = lh
      \/ b \notin Logged /\ lh' = Append(lh, b)
  BY Zenon DEF LogAppend, Logged
<1>6. Logged' = Logged \cup {b}
  BY Zenon, Appended
<1>7. /\ IsFiniteSet(opw[p]) /\ opw'[p] = opw[p] \cup {b} /\ IsFiniteSet(opw'[p])
      /\ Cardinality(opw[p]) \in Nat
      /\ Cardinality(opw'[p]) =
           IF b \in opw[p] THEN Cardinality(opw[p]) ELSE Cardinality(opw[p]) + 1
      /\ Cardinality(opw'[p]) <= OpBlocks
  <2>1. /\ IsFiniteSet(opw[p]) /\ Cardinality(opw[p]) <= OpBlocks
        /\ b \in opw[p] \/ Cardinality(opw[p]) < OpBlocks
    BY Zenon, <1>1, <1>2, <1>t DEF OpsLogged
  <2>2. opw'[p] = opw[p] \cup {b}
    BY Zenon, <1>1, <1>t DEF TypeOK
  <2>3. Cardinality(opw[p]) \in Nat
    BY Zenon, <2>1, FS_CardinalityType
  <2>4. /\ IsFiniteSet(opw[p] \cup {b})
        /\ Cardinality(opw[p] \cup {b}) =
             IF b \in opw[p] THEN Cardinality(opw[p]) ELSE Cardinality(opw[p]) + 1
    BY Zenon, <2>1, FS_AddElement
  <2> QED
    BY <2>1, <2>2, <2>3, <2>4, SizeAssumption
<1>8. \A q \in Active : q # p =>
         opw'[q] = opw[q] /\ pc'[q] = pc[q] /\ wbuf'[q] = wbuf[q]
  BY Zenon, <1>1, <1>t DEF TypeOK, Active
<1>9. OpsLogged'
  <2> SUFFICES ASSUME NEW q \in Active
               PROVE  /\ opw'[q] \subseteq Logged'
                      /\ IsFiniteSet(opw'[q])
                      /\ Cardinality(opw'[q]) <= OpBlocks
                      /\ pc'[q] = "append" =>
                          /\ wbuf'[q] \in Block
                          /\ wbuf'[q] \in opw'[q] \/ Cardinality(opw'[q]) < OpBlocks
    BY Zenon, <1>3 DEF OpsLogged
  <2>1. CASE q = p
    <3>1. pc'[p] = "op"
      BY Zenon, <1>1, <1>t DEF TypeOK
    <3>2. opw[p] \subseteq Logged
      BY Zenon, <1>2, <1>t DEF OpsLogged
    <3> QED
      BY Zenon, <2>1, <3>1, <3>2, <1>6, <1>7
  <2>2. CASE q # p
    BY Zenon, <2>2, <1>6, <1>8, <1>t DEF OpsLogged
  <2> QED
    BY Zenon, <2>1, <2>2
<1>10. Room(Len(lh') + Cardinality(Tokens'))
  <2>0. /\ IsFiniteSet(Tokens) /\ Cardinality(Tokens) \in Nat /\ Len(lh) \in Nat
        /\ Room(Len(lh) + Cardinality(Tokens))
    BY <1>t, TokensFinite DEF Reserved, TypeOK
  <2>1. Tokens' \subseteq Tokens
    <3> SUFFICES ASSUME NEW t \in Tokens' PROVE t \in Tokens
      BY Zenon
    <3>1. /\ t \in Proc \X (1 .. OpBlocks) /\ t[1] \in Active
          /\ t[2] > Cardinality(opw'[t[1]])
      BY Zenon, <1>3 DEF Tokens
    <3>2. t[2] > Cardinality(opw[t[1]])
      <4>1. CASE t[1] = p
        BY <3>1, <4>1, <1>7
      <4>2. CASE t[1] # p
        BY Zenon, <3>1, <4>2, <1>8
      <4> QED
        BY Zenon, <4>1, <4>2
    <3> QED
      BY Zenon, <3>1, <3>2 DEF Tokens
  <2>2. CASE b \in Logged /\ lh' = lh
    <3>1. Cardinality(Tokens') \in Nat /\ Cardinality(Tokens') <= Cardinality(Tokens)
      BY Zenon, <2>0, <2>1, FS_Subset, FS_CardinalityType
    <3> QED
      BY <2>0, <2>2, <3>1, RoomMono
  <2>3. CASE b \notin Logged /\ lh' = Append(lh, b)
    <3> DEFINE t0 == <<p, Cardinality(opw[p]) + 1>>
    <3>1. b \notin opw[p]
      BY Zenon, <2>3, <1>2, <1>t DEF OpsLogged
    <3>2. Cardinality(opw'[p]) = Cardinality(opw[p]) + 1
      BY Zenon, <3>1, <1>7
    <3>3. t0 \in Tokens
      BY <1>2, <1>7, <3>2, SizeAssumption DEF Tokens
    <3>4. t0 \notin Tokens'
      <4> SUFFICES ASSUME t0 \in Tokens' PROVE FALSE
        BY Zenon
      <4>1. t0[2] > Cardinality(opw'[t0[1]])
        BY Zenon DEF Tokens
      <4>2. t0[1] = p /\ t0[2] = Cardinality(opw[p]) + 1
        BY Zenon
      <4> HIDE DEF t0
      <4> QED
        BY <4>1, <4>2, <1>7, <3>2
    <3>5. Tokens' \in SUBSET (Tokens \ {t0})
      BY Zenon, <2>1, <3>4
    <3>6. /\ IsFiniteSet(Tokens \ {t0})
          /\ Cardinality(Tokens \ {t0}) = Cardinality(Tokens) - 1
      BY <2>0, <3>3, FS_RemoveElement
    <3>7. /\ Cardinality(Tokens') \in Nat
          /\ Cardinality(Tokens') <= Cardinality(Tokens) - 1
      BY <3>5, <3>6, FS_Subset, FS_CardinalityType
    <3>8. Len(lh') = Len(lh) + 1
      BY <2>3, <1>2, <1>t DEF TypeOK
    <3> QED
      BY <2>0, <3>7, <3>8, RoomMono
  <2> QED
    BY Zenon, <2>2, <2>3, <1>5
<1>11. Reserved'
  <2>1. outstanding' # 0
    <3>1. IsFiniteSet(Active) /\ Active # {}
      BY Zenon, <1>2, <1>t, TokensFinite
    <3> QED
      BY Zenon, <1>1, <1>t, <3>1, FS_EmptySet DEF Counted
  <2> QED
    BY Zenon, <1>1, <1>10, <1>t, <2>1 DEF Reserved
<1>12. Booting'
  BY Zenon, <1>1 DEF Booting
<1>13. Emptied'
  <2>1. IsFiniteSet(Active) /\ Active # {}
    BY <1>2, <1>t, TokensFinite
  <2>2. Committer = {}
    BY Zenon, <2>1, <1>t, FS_EmptySet DEF Counted
  <2> QED
    BY Zenon, <2>2, <1>3 DEF Emptied
<1> QED
  BY <1>4, <1>9, <1>11, <1>12, <1>13 DEF IInv

\* end_op: the last operation becomes the committer, any other wakes sleepers.
LEMMA EndOpStep ==
  ASSUME IInv, TypeOK', NEW p \in Proc, EndOp(p)
  PROVE  IInv'
<1>t. TypeOK /\ Booting /\ Counted /\ OpsLogged /\ Reserved /\ Emptied
  BY DEF IInv
<1>1. /\ pc[p] = "op" /\ mode = "run" /\ mode' \in {"run", "panic"}
      /\ outstanding' = outstanding - 1
      /\ UNCHANGED <<dhead, lh, wbuf, opw>>
  BY Zenon DEF EndOp, diskVars
<1>2. p \in Active /\ p \notin Committer
  BY Zenon, <1>1 DEF Active, Committer
<1>3. /\ IsFiniteSet(Active) /\ IsFiniteSet(Tokens)
      /\ Cardinality(Active) \in Nat \ {0} /\ Cardinality(Tokens) \in Nat
  BY Zenon, <1>2, <1>t, TokensFinite, FS_EmptySet
<1>4. committing = 0 /\ Committer = {}
  BY Zenon, <1>3, <1>t DEF Counted, TypeOK
<1>5. Active' = Active \ {p}
  BY <1>1, <1>t DEF EndOp, Active, Wakeup, TypeOK
<1>6. \A q \in Active' : pc'[q] = pc[q]
  BY Zenon, <1>1, <1>5, <1>t DEF EndOp, Active, Wakeup, TypeOK
<1>7. Cardinality(Active') = Cardinality(Active) - 1
  BY Zenon, <1>2, <1>3, <1>5, FS_RemoveElement
<1>8. OpsLogged'
  <2>1. Logged' = Logged
    BY Zenon, <1>1 DEF Logged
  <2> QED
    BY Zenon, <1>1, <1>5, <1>6, <1>t, <2>1 DEF OpsLogged
<1>9. Room(Len(lh') + Cardinality(Tokens'))
  <2>1. Tokens' \subseteq Tokens
    BY Zenon, <1>1, <1>5 DEF Tokens
  <2>2. Cardinality(Tokens') \in Nat /\ Cardinality(Tokens') <= Cardinality(Tokens)
    BY Zenon, <1>3, <2>1, FS_Subset, FS_CardinalityType
  <2>3. Room(Len(lh) + Cardinality(Tokens)) /\ Len(lh) \in Nat
    BY <1>t DEF Reserved, TypeOK
  <2> QED
    BY <1>1, <1>3, <2>2, <2>3, RoomMono
<1>10. Counted' /\ (outstanding' = 0 => committing' = 1)
  <2>1. CASE outstanding' = 0
    <3>1. committing' = 1
      BY Zenon, <2>1 DEF EndOp
    <3>2. \/ pc' = [pc EXCEPT ![p] = "done"]
          \/ pc' = [pc EXCEPT ![p] = "write_log"]
      BY Zenon, <2>1 DEF EndOp
    <3>3. Committer' = {p}
      BY <1>4, <3>2, <1>t DEF Committer, TypeOK
    <3> QED
      BY Zenon, <1>1, <1>7, <1>t, <2>1, <3>1, <3>3 DEF Counted
  <2>2. CASE outstanding' # 0
    <3>1. committing' = 0 /\ pc' = Wakeup([pc EXCEPT ![p] = "idle"])
      BY Zenon, <1>4, <2>2 DEF EndOp
    <3>2. Committer' = {}
      BY Zenon, <1>4, <3>1, <1>t DEF Committer, TypeOK, Wakeup
    <3> QED
      BY <1>1, <1>7, <1>t, <2>2, <3>1, <3>2 DEF Counted
  <2> QED
    BY Zenon, <2>1, <2>2
<1>11. Reserved'
  BY <1>1, <1>9, <1>10, <1>t DEF Reserved
<1>12. Booting'
  BY Zenon, <1>1 DEF Booting
<1>13. Emptied'
  <2>1. CASE outstanding' = 0 /\ lh # <<>>
    <3>1. pc' = [pc EXCEPT ![p] = "write_log"]
      BY Zenon, <2>1 DEF EndOp
    <3> QED
      BY Zenon, <1>4, <3>1, <1>t DEF Emptied, Committer, TypeOK
  <2>2. CASE outstanding' # 0
    BY <1>10, <1>4, <2>2, <1>t DEF EndOp, Emptied, Committer, TypeOK, Wakeup
  <2> QED
    BY Zenon, <1>1, <2>1, <2>2 DEF Emptied
<1> QED
  BY Zenon, <1>8, <1>10, <1>11, <1>12, <1>13 DEF IInv

\* end_op after commit: the log is empty again.
LEMMA EndCommitStep ==
  ASSUME IInv, TypeOK', NEW p \in Proc, EndCommit(p)
  PROVE  IInv'
<1>t. TypeOK /\ Booting /\ Counted /\ OpsLogged /\ Reserved /\ Emptied
  BY DEF IInv
<1>1. /\ pc[p] = "done" /\ mode = "run" /\ mode' = "run" /\ committing' = 0
      /\ pc' = Wakeup([pc EXCEPT ![p] = "idle"])
      /\ UNCHANGED <<dhead, lh, outstanding, wbuf, opw>>
  BY Zenon DEF EndCommit, diskVars
<1>2. p \in Committer
  BY Zenon, <1>1 DEF Committer
<1>3. outstanding = 0 /\ Active = {} /\ Committer = {p}
  BY Zenon, <1>2, <1>t, TokensFinite, FS_EmptySet DEF Counted
<1>4. Active' = {} /\ Committer' = {}
  BY <1>1, <1>3, <1>t DEF Active, Committer, TypeOK, Wakeup
<1>5. Counted'
  BY <1>1, <1>3, <1>4, FS_EmptySet DEF Counted
<1>6. OpsLogged'
  BY Zenon, <1>4 DEF OpsLogged
<1>7. Tokens' = {} /\ Tokens = {}
  BY Zenon, <1>3, <1>4 DEF Tokens
<1>8. Reserved'
  BY Zenon, <1>1, <1>2, <1>7, <1>t DEF Reserved, Emptied
<1>9. Booting'
  BY Zenon, <1>1 DEF Booting
<1>10. Emptied'
  BY Zenon, <1>4 DEF Emptied
<1> QED
  BY <1>5, <1>6, <1>8, <1>9, <1>10 DEF IInv

\* A reboot, and the steps of recovery, with nobody running.
LEMMA BootStep ==
  ASSUME IInv, TypeOK', \A p \in Proc : pc'[p] = "idle",
         outstanding' = 0, committing' = 0, 
         \/ mode' \in {"boot", "replay"} /\ lh' \in {<<>>, lh, dhead} /\ dhead' = dhead
         \/ lh' = <<>> /\ dhead' = <<>>
  PROVE  IInv'
<1>t. TypeOK /\ Reserved
  BY Zenon DEF IInv
<1>1. Active' = {} /\ Committer' = {} /\ Tokens' = {}
  BY Zenon DEF Active, Committer, Tokens
<1>2. Cardinality({}) = 0
  BY Zenon, FS_EmptySet
<1>3. Room(Len(lh)) /\ Room(Len(dhead)) /\ Room(0)
  <2>1. Len(lh) \in Nat /\ Cardinality(Tokens) \in Nat
    BY <1>t, TokensFinite DEF TypeOK
  <2> QED
    BY <1>t, <2>1, RoomMono, SizeAssumption DEF Reserved, Room
<1>4. Len(<<>>) = 0 /\ Len(lh) \in Nat /\ Len(dhead) \in Nat
  BY <1>t DEF TypeOK
<1>5. Reserved'
  BY <1>1, <1>2, <1>3, <1>4 DEF Reserved
<1>6. Counted' /\ OpsLogged' /\ Booting' /\ Emptied'
  BY <1>1, <1>2 DEF Counted, OpsLogged, Booting, Emptied
<1> QED
  BY Zenon, <1>5, <1>6 DEF IInv

\* The invariant is inductive.
LEMMA NextIInv == IInv /\ [Next]_vars => IInv'
<1> SUFFICES ASSUME IInv, [Next]_vars PROVE IInv'
  BY Zenon
<1>a. TypeOK' /\ TypeOK /\ Booting
  BY Zenon, TypeStep DEF IInv
<1>1. CASE ReadHead
  BY Zenon, <1>1, <1>a, BootStep DEF ReadHead, Booting
<1>2. CASE Replay
  BY Zenon, <1>2, <1>a, BootStep DEF Replay, Booting
<1>3. CASE Recovered
  BY Zenon, <1>3, <1>a, BootStep DEF Recovered, Booting
<1>4. ASSUME NEW p \in Proc, BeginOp(p) PROVE IInv'
  BY Zenon, <1>4, <1>a, BeginOpStep
<1>5. ASSUME NEW p \in Proc, LogAppend(p) PROVE IInv'
  BY Zenon, <1>5, <1>a, LogAppendStep
<1>6. ASSUME NEW p \in Proc, EndOp(p) PROVE IInv'
  BY <1>6, <1>a, EndOpStep
<1>7. ASSUME NEW p \in Proc, WriteLog(p) PROVE IInv'
  BY Zenon, <1>7, <1>a, CommitStep DEF WriteLog, logVars, Committer, TypeOK
<1>8. ASSUME NEW p \in Proc, WriteHead(p) PROVE IInv'
  BY Zenon, <1>8, <1>a, CommitStep DEF WriteHead, logVars, Committer, TypeOK
<1>9. ASSUME NEW p \in Proc, Install(p) PROVE IInv'
  BY Zenon, <1>9, <1>a, CommitStep DEF Install, logVars, Committer, TypeOK
<1>10. ASSUME NEW p \in Proc, EraseHead(p) PROVE IInv'
  BY Zenon, <1>10, <1>a, CommitStep DEF EraseHead, logVars, Committer, TypeOK
<1>11. ASSUME NEW p \in Proc, EndCommit(p) PROVE IInv'
  BY <1>11, <1>a, EndCommitStep
<1>12. ASSUME NEW p \in Proc, NEW b \in Block, NEW v \in Val, LogWrite(p, b, v)
       PROVE IInv'
  BY Zenon, <1>12, <1>a, LogWriteStep
<1>13. ASSUME NEW b \in Block, Recycle(b) PROVE IInv'
  BY Zenon, <1>13, <1>a, QuietStep DEF Recycle, diskVars, logVars
<1>14. CASE Crash
  BY Zenon, <1>14, <1>a, BootStep DEF Crash
<1>15. CASE UNCHANGED vars
  BY Zenon, <1>15, <1>a, QuietStep DEF vars
<1>16. CASE Recover
  BY Zenon, <1>1, <1>2, <1>3, <1>16 DEF Recover
<1>17. ASSUME NEW p \in Proc, BeginOp(p) \/ LogAppend(p) \/ EndOp(p) \/ Commit(p)
       PROVE  IInv'
  BY Zenon, <1>4, <1>5, <1>6, <1>7, <1>8, <1>9, <1>10, <1>11, <1>17 DEF Commit
<1>18. CASE \E p \in Proc : BeginOp(p) \/ LogAppend(p) \/ EndOp(p) \/ Commit(p)
  BY Zenon, <1>17, <1>18
<1>19. CASE \E p \in Proc, b \in Block, v \in Val : LogWrite(p, b, v)
  BY Zenon, <1>12, <1>19
<1>20. CASE \E b \in Block : Recycle(b)
  BY Zenon, <1>13, <1>20
<1> QED BY Zenon, <1>14, <1>15, <1>16, <1>18, <1>19, <1>20 DEF Next

LEMMA InvariantIInv == Spec => []IInv
  BY InitIInv, NextIInv, PTL DEF Spec

-----------------------------------------------------------------------------
(* The theorems.                                                           *)

\* Every variable of the log, the cache and the processes keeps its type; in
\* particular log.outstanding never becomes negative.
THEOREM TypeCorrect == Spec => []TypeOK
<1>1. IInv => TypeOK
  BY Zenon DEF IInv
<1> QED
  BY <1>1, InvariantIInv, PTL

\* The blocks logged always fit in the on-disk log, whatever the interleaving of
\* the tests that log_write makes without the lock.
THEOREM LogAlwaysFits == ASSUME ReservationCovers PROVE Spec => []LogFits
<1>1. IInv => LogFits
  <2> SUFFICES ASSUME IInv PROVE LogFits
    BY Zenon
  <2>1. Len(lh) \in Nat /\ Cardinality(Tokens) \in Nat
    BY TokensFinite DEF IInv, TypeOK
  <2>2. Room(Len(lh))
    BY <2>1, RoomMono DEF IInv, Reserved
  <2> QED
    BY <2>1, <2>2, SizeAssumption, ReservationCovers
    DEF Room, ReservationCovers, LogFits
<1> QED
  BY <1>1, InvariantIInv, PTL

\* log_write finds room for the block, and end_op nobody committing: the log
\* never panics.
THEOREM NeverPanics == ASSUME ReservationCovers PROVE Spec => []NoPanic
<1>1. Init => NoPanic
  BY Zenon DEF Init, NoPanic
<1>2. IInv /\ NoPanic /\ [Next]_vars => NoPanic'
  <2> SUFFICES ASSUME IInv, NoPanic, [Next]_vars PROVE NoPanic'
    BY Zenon
  <2>1. ASSUME NEW p \in Proc, NEW b \in Block, NEW v \in Val, LogWrite(p, b, v)
        PROVE  NoPanic'
    <3>1. p \in Active
      BY Zenon, <2>1 DEF LogWrite, Active
    <3>2. ~OutsideOfTrans
      BY <3>1, TokensFinite, FS_EmptySet DEF OutsideOfTrans, IInv, Counted, TypeOK
    <3>3. Len(lh) \in Nat /\ Cardinality(Tokens) \in Nat
      BY TokensFinite DEF IInv, TypeOK
    <3>4. Room(Len(lh))
      BY <3>3, RoomMono DEF IInv, Reserved
    <3>5. ~TooBig
      BY <3>3, <3>4, SizeAssumption, ReservationCovers
      DEF TooBig, Room, ReservationCovers
    <3> QED
      BY Zenon, <2>1, <3>2, <3>5 DEF LogWrite, NoPanic
  <2>2. ASSUME NEW p \in Proc, EndOp(p) PROVE NoPanic'
    <3>1. p \in Active
      BY Zenon, <2>2 DEF EndOp, Active
    <3>2. committing # 1
      BY Zenon, <3>1, TokensFinite, FS_EmptySet DEF IInv, Counted
    <3> QED
      BY Zenon, <2>2, <3>2 DEF EndOp, NoPanic
  <2>3. CASE Recover \/ Crash
    BY Zenon, <2>3 DEF Recover, ReadHead, Replay, Recovered, Crash, NoPanic
  <2>4. ASSUME NEW p \in Proc, BeginOp(p) \/ LogAppend(p) \/ Commit(p)
        PROVE  NoPanic'
    BY Zenon, <2>4 DEF BeginOp, LogAppend, Commit, WriteLog, WriteHead, Install,
                EraseHead, EndCommit, NoPanic
  <2>5. ASSUME NEW b \in Block, Recycle(b) PROVE NoPanic'
    BY Zenon, <2>5 DEF Recycle, NoPanic
  <2>6. CASE UNCHANGED vars
    BY Zenon, <2>6 DEF vars, NoPanic
  <2> QED
    BY Zenon, <2>1, <2>2, <2>3, <2>4, <2>5, <2>6 DEF Next
<1> QED
  BY <1>1, <1>2, InvariantIInv, PTL DEF Spec

\* No wakeup on &log is lost: whoever sleeps in begin_op has an operation or a
\* commit to wait for.
THEOREM NoLostWakeup == Spec => []SleepersHaveAWaker
<1>1. Init => SleepersHaveAWaker
  BY Zenon DEF Init, SleepersHaveAWaker
<1>2. IInv /\ SleepersHaveAWaker /\ [Next]_vars => SleepersHaveAWaker'
  <2> SUFFICES ASSUME IInv, SleepersHaveAWaker, [Next]_vars
               PROVE  SleepersHaveAWaker'
    BY Zenon
  <2> USE DEF SleepersHaveAWaker
  <2>t. TypeOK /\ Counted /\ Reserved
    BY Zenon DEF IInv
  <2>1. ASSUME NEW p \in Proc, BeginOp(p) PROVE SleepersHaveAWaker'
    <3>1. CASE outstanding = 0 /\ committing = 0
      <4>1. Len(lh) = 0
        BY <2>1, <3>1, <2>t DEF BeginOp, Reserved
      <4>2. ~NoLogSpace
        BY <3>1, <4>1, SizeAssumption DEF NoLogSpace
      <4> QED
        BY <2>1, <3>1, <4>2 DEF BeginOp
    <3>2. CASE outstanding > 0 \/ committing = 1
      BY <2>1, <3>2, <2>t DEF BeginOp, TypeOK
    <3> QED
      BY <3>1, <3>2, <2>t DEF TypeOK
  <2>2. ASSUME NEW p \in Proc, EndOp(p) PROVE SleepersHaveAWaker'
    BY <2>2, <2>t DEF EndOp, Wakeup, TypeOK
  <2>3. ASSUME NEW p \in Proc, EndCommit(p) PROVE SleepersHaveAWaker'
    BY Zenon, <2>3, <2>t DEF EndCommit, Wakeup, TypeOK
  <2>4. ASSUME NEW p \in Proc,
               LogAppend(p) \/ WriteLog(p) \/ WriteHead(p) \/ Install(p)
                 \/ EraseHead(p)
        PROVE  SleepersHaveAWaker'
    BY Zenon, <2>4, <2>t DEF LogAppend, WriteLog, WriteHead, Install, EraseHead,
                      TypeOK, logVars
  <2>5. ASSUME NEW p \in Proc, NEW b \in Block, NEW v \in Val, LogWrite(p, b, v)
        PROVE  SleepersHaveAWaker'
    BY Zenon, <2>5, <2>t DEF LogWrite, TypeOK, logVars
  <2>6. ASSUME NEW b \in Block, Recycle(b) PROVE SleepersHaveAWaker'
    BY Zenon, <2>6 DEF Recycle, logVars
  <2>7. CASE Recover
    BY Zenon, <2>7 DEF Recover, ReadHead, Replay, Recovered
  <2>8. CASE Crash
    BY Zenon, <2>8 DEF Crash
  <2>9. CASE UNCHANGED vars
    BY Zenon, <2>9 DEF vars
  <2> QED
    BY <2>1, <2>2, <2>3, <2>4, <2>5, <2>6, <2>7, <2>8, <2>9 DEF Next, Commit
<1> QED
  BY <1>1, <1>2, InvariantIInv, PTL DEF Spec

-----------------------------------------------------------------------------
(* Log implements TxDisk.  The invariant of the refinement.                 *)

\* s lists no block twice.
Distinct(s) == \A i, j \in 1 .. Len(s) : s[i] = s[j] => i = j

\* Somebody has changed the buffer of b and not yet logged it.
Held(b) == \E p \in Proc : pc[p] = "append" /\ wbuf[p] = b

\* The header on disk is the one being installed, and otherwise empty.
Headers ==
  /\ Distinct(lh) /\ Distinct(dhead)
  /\ mode = "replay" => lh = dhead
  /\ \A p \in Proc : pc[p] = "install" => lh = dhead
  /\ mode \in {"run", "panic"} /\ (\A p \in Proc : pc[p] # "install") => dhead = <<>>

\* A buffer that nothing pins is a copy of its block, and what is pinned is in the log.
Clean ==
  /\ \A b \in Block : b \notin dirty /\ ~Held(b) => buf[b] \in {NoBuf, disk[b]}
  /\ dirty \subseteq Logged
  /\ mode \in {"boot", "replay"} => dirty = {}

\* The blocks before tail have been installed.
Installed ==
  mode = "replay" \/ (\E p \in Proc : pc[p] = "install") =>
    \A i \in 1 .. Len(lh) : i < tail => lh[i] \notin dirty /\ disk[lh[i]] = dlog[i]

\* The log area has what the buffers have: of the blocks before tail while it is being
\* written, of all blocks while they are installed.
Copied ==
  \A p \in Proc : \A i \in 1 .. Len(lh) :
    pc[p] = "install" \/ (pc[p] = "write_log" /\ i < tail) => dlog[i] = Bread(lh[i])

TxInv == Headers /\ Clean /\ Installed /\ Copied

-----------------------------------------------------------------------------
(* What recovery makes of a header h, a log area l and a disk d, and what   *)
(* readers see through buffers f.                                          *)

Rec(h, l, d) ==
  [b \in Block |-> IF \E i \in 1 .. Len(h) : h[i] = b
                   THEN l[CHOOSE i \in 1 .. Len(h) : h[i] = b]
                   ELSE d[b]]

Seen(f, d) == [b \in Block |-> IF f[b] = NoBuf THEN d[b] ELSE f[b]]

\* The two state functions that TxDisk speaks of, before and after a step.
LEMMA Mapping ==
  /\ AfterRecovery = Rec(dhead, dlog, disk)
  /\ AfterRecovery' = Rec(dhead', dlog', disk')
  /\ mode \in {"boot", "replay"} => Visible = AfterRecovery
  /\ mode' \in {"boot", "replay"} => Visible' = AfterRecovery'
  /\ mode \notin {"boot", "replay"} => Visible = Seen(buf, disk)
  /\ mode' \notin {"boot", "replay"} => Visible' = Seen(buf', disk')
  BY Zenon DEF AfterRecovery, Visible, Bread, Rec, Seen

\* Recovery takes a listed block from the log.
LEMMA RecAt ==
  ASSUME NEW h \in Seq(Block), Distinct(h), NEW l, NEW d, NEW i \in 1 .. Len(h)
  PROVE  Rec(h, l, d)[h[i]] = l[i]
<1>1. h[i] \in Block
  OBVIOUS
<1>2. (CHOOSE j \in 1 .. Len(h) : h[j] = h[i]) = i
  BY Zenon DEF Distinct
<1> QED BY Zenon, <1>1, <1>2 DEF Rec

\* The log l has what V has in the blocks of h, and the disk d in the others.
InLog(h, l, V) == \A i \in 1 .. Len(h) : l[i] = V[h[i]]
Beside(h, d, V) == \A b \in Block : (\A i \in 1 .. Len(h) : h[i] # b) => d[b] = V[b]

\* Recovery gives V, if the log has what V has in the listed blocks, and the disk in the
\* others.
LEMMA RecIs ==
  ASSUME NEW h \in Seq(Block), Distinct(h), NEW l, NEW d, NEW V, V = [b \in Block |-> V[b]],
         InLog(h, l, V), Beside(h, d, V)
  PROVE  Rec(h, l, d) = V
<1>1. ASSUME NEW b \in Block PROVE Rec(h, l, d)[b] = V[b]
  <2>1. CASE \A i \in 1 .. Len(h) : h[i] # b
    BY Zenon, <2>1 DEF Rec, Beside
  <2>2. ASSUME NEW i \in 1 .. Len(h), h[i] = b PROVE Rec(h, l, d)[b] = V[b]
    <3>1. Rec(h, l, d)[h[i]] = l[i]
      BY RecAt
    <3> QED BY Zenon, <2>2, <3>1 DEF InLog
  <2> QED BY Zenon, <2>1, <2>2
<1>2. Rec(h, l, d) = [b \in Block |-> Rec(h, l, d)[b]]
  BY Zenon DEF Rec
<1> QED BY Zenon, <1>1, <1>2

\* With an empty header it gives the disk.
LEMMA RecEmpty ==
  ASSUME NEW l, NEW d, NEW S, d \in [Block -> S]
  PROVE  Rec(<<>>, l, d) = d
<1>1. Len(<<>>) = 0 /\ \A i : i \notin 1 .. 0
  OBVIOUS
<1> QED BY Zenon, <1>1 DEF Rec

\* The disks d and e differ in one block, which h lists.
Differ(h, d, e) == \E k \in 1 .. Len(h) : \A b \in Block : b # h[k] => e[b] = d[b]

\* What a listed block has on disk does not matter.
LEMMA RecOver ==
  ASSUME NEW h, NEW l, NEW d, NEW e, Differ(h, d, e)
  PROVE  Rec(h, l, e) = Rec(h, l, d)
<1>1. \A b \in Block : (\E i \in 1 .. Len(h) : h[i] = b) \/ e[b] = d[b]
  BY Zenon DEF Differ
<1> QED BY Zenon, <1>1 DEF Rec

-----------------------------------------------------------------------------
(* Who is where.                                                           *)

\* The committer is alone.
LEMMA Alone ==
  ASSUME IInv, NEW p \in Proc, pc[p] \in {"write_log", "install", "done"}
  PROVE  /\ Active = {} /\ mode \in {"run", "panic"}
         /\ \A q \in Proc : pc[q] \notin {"op", "append"}
         /\ \A q \in Proc : pc[q] \in {"write_log", "install", "done"} => q = p
         /\ \A b : ~Held(b)
<1>1. p \in Committer /\ TypeOK /\ Counted /\ Booting
  BY Zenon DEF Committer, IInv
<1>2. Active = {}
  BY Zenon, <1>1, TokensFinite, FS_EmptySet DEF Counted
<1>3. mode \in {"run", "panic"}
  BY Zenon, <1>1 DEF TypeOK, Booting
<1> QED BY Zenon, <1>1, <1>2, <1>3 DEF Active, Counted, Committer, Held

\* While an operation runs nobody commits, so that the header on disk is empty.
LEMMA Busy ==
  ASSUME IInv, Headers, NEW p \in Proc, pc[p] \in {"op", "append"}
  PROVE  /\ \A q \in Proc : pc[q] \notin {"write_log", "install", "done"}
         /\ mode \in {"run", "panic"} /\ dhead = <<>>
<1>1. \A q \in Proc : pc[q] \notin {"write_log", "install", "done"}
  BY Zenon, Alone
<1>2. mode \in {"run", "panic"}
  BY Zenon DEF IInv, TypeOK, Booting
<1> QED BY Zenon, <1>1, <1>2 DEF Headers

\* Nobody runs before recovery is over.
LEMMA Asleep ==
  ASSUME IInv, mode \in {"boot", "replay"}
  PROVE  (\A p \in Proc : pc[p] = "idle") /\ Active = {} /\ \A b : ~Held(b)
  BY Zenon DEF IInv, Booting, Active, Held

\* The log is no longer than its area.
LEMMA Short == ASSUME IInv PROVE lh \in Seq(Block) /\ Len(lh) \in Nat /\ Len(lh) <= LOGSIZE
<1>1. TypeOK /\ Reserved
  BY Zenon DEF IInv
<1>2. Len(lh) \in Nat /\ Cardinality(Tokens) \in Nat /\ lh \in Seq(Block)
  BY <1>1, TokensFinite DEF TypeOK
<1> QED BY <1>1, <1>2, RoomBound, RoomMono DEF Reserved

-----------------------------------------------------------------------------
(* The steps.                                                              *)

\* The header on disk changes only when a commit starts and ends, and in recovery.
LEMMA SameHeaders ==
  ASSUME Headers, lh' = lh, dhead' = dhead, mode' = mode \/ {mode, mode'} \subseteq {"run", "panic"},
         \A p \in Proc : pc'[p] = "install" <=> pc[p] = "install"
  PROVE  Headers'
<1>1. Distinct(lh)' /\ Distinct(dhead)'
  BY Zenon DEF Headers
<1>2. mode' = "replay" => mode = "replay"
  BY Zenon
<1>3. mode' \in {"run", "panic"} => mode \in {"run", "panic"}
  BY Zenon
<1> QED BY Zenon, <1>1, <1>2, <1>3 DEF Headers

\* Steps that move processes only.
LEMMA MoveTx ==
  ASSUME IInv, TxInv, UNCHANGED <<disk, dlog, dhead, buf, dirty, lh, wbuf>>,
         mode' = mode,
         \A p \in Proc : pc'[p] = "append" <=> pc[p] = "append",
         \A p \in Proc : pc'[p] = "install" <=> pc[p] = "install",
         \/ tail' = tail /\ \A p \in Proc : pc'[p] = "write_log" => pc[p] = "write_log"
         \/ tail' = 1
  PROVE  TxInv' /\ UNCHANGED <<AfterRecovery, Visible>>
<1>1. \A i \in 1 .. Len(lh) : ~(i < 1)
  BY Short
<1>2. \A i \in 1 .. Len(lh) : i < tail' => i < tail
  BY Zenon, <1>1
<1>3. Headers'
  BY Zenon, SameHeaders DEF TxInv
<1>4. Clean'
  <2>1. Logged' = Logged /\ \A b : Held(b)' <=> Held(b)
    BY Zenon DEF Logged, Held
  <2> QED BY Zenon, <2>1 DEF TxInv, Clean
<1>5. Installed'
  BY Zenon, <1>2 DEF TxInv, Installed
<1>6. Copied'
  BY Zenon, <1>1, <1>2 DEF TxInv, Copied, Bread
<1>7. UNCHANGED <<AfterRecovery, Visible>>
  BY Zenon DEF AfterRecovery, Visible, Bread
<1> QED BY Zenon, <1>3, <1>4, <1>5, <1>6, <1>7 DEF TxInv

\* begin_op: the process enters the transaction, or waits.
LEMMA BeginTx ==
  ASSUME IInv, TxInv, NEW p \in Proc, BeginOp(p)
  PROVE  TxInv' /\ [TD!Next]_(TD!vars)
<1>1. /\ pc[p] \in {"idle", "begin"}
      /\ pc' = [pc EXCEPT ![p] = "sleep"] \/ pc' = [pc EXCEPT ![p] = "op"]
      /\ UNCHANGED <<disk, dlog, dhead, buf, dirty, lh, wbuf, tail, mode>>
  BY Zenon DEF BeginOp, diskVars
<1>2. pc'[p] \in {"sleep", "op"} /\ \A q \in Proc : q # p => pc'[q] = pc[q]
  BY Zenon, <1>1 DEF IInv, TypeOK
<1>3. TxInv' /\ UNCHANGED <<AfterRecovery, Visible>>
  BY Zenon, <1>1, <1>2, MoveTx
<1>4. p \notin Active
  BY Zenon, <1>1 DEF Active
<1>5. CASE pc'[p] = "sleep"
  <2>1. Active' = Active
    BY Zenon, <1>1, <1>2, <1>5 DEF Active
  <2> QED BY Zenon, <1>3, <2>1 DEF TD!vars
<1>6. CASE pc'[p] = "op"
  <2>1. Active' = Active \cup {p}
    BY Zenon, <1>2, <1>6 DEF Active
  <2> QED BY Zenon, <1>3, <1>4, <2>1 DEF TD!Next, TD!Begin
<1> QED BY Zenon, <1>2, <1>5, <1>6

\* end_op: the process leaves the transaction.
LEMMA EndTx ==
  ASSUME IInv, TxInv, NEW p \in Proc, EndOp(p)
  PROVE  TxInv' /\ [TD!Next]_(TD!vars)
<1>1. /\ pc[p] = "op" /\ mode = "run"
      /\ UNCHANGED <<disk, dlog, dhead, buf, dirty, lh, wbuf>>
  BY Zenon DEF EndOp, diskVars
<1>2. p \in Active
  BY Zenon, <1>1 DEF Active
<1>3. committing # 1
  BY Zenon, <1>2, TokensFinite, FS_EmptySet DEF IInv, Counted
<1>4. mode' = mode
  BY Zenon, <1>3 DEF EndOp
<1>5. /\ pc'[p] \in {"idle", "done", "write_log"}
      /\ (tail' = tail /\ pc'[p] = "idle") \/ tail' = 1
      /\ \A q \in Proc : q # p => pc'[q] = pc[q] \/ (pc[q] = "sleep" /\ pc'[q] = "begin")
  BY Zenon DEF EndOp, Wakeup, IInv, TypeOK
<1>6. TxInv' /\ UNCHANGED <<AfterRecovery, Visible>>
  <2>1. \A q \in Proc : /\ pc'[q] = "append" <=> pc[q] = "append"
                        /\ pc'[q] = "install" <=> pc[q] = "install"
    BY Zenon, <1>1, <1>5
  <2>2. \/ tail' = tail /\ \A q \in Proc : pc'[q] = "write_log" => pc[q] = "write_log"
        \/ tail' = 1
    BY Zenon, <1>5
  <2> QED BY Zenon, <1>1, <1>4, <2>1, <2>2, MoveTx
<1>7. Active' = Active \ {p}
  BY Zenon, <1>5 DEF Active
<1> QED BY Zenon, <1>2, <1>6, <1>7 DEF TD!Next, TD!End

\* commit is over.
LEMMA EndCommitTx ==
  ASSUME IInv, TxInv, NEW p \in Proc, EndCommit(p)
  PROVE  TxInv' /\ [TD!Next]_(TD!vars)
<1>1. /\ pc[p] = "done" /\ pc'[p] = "idle"
      /\ UNCHANGED <<disk, dlog, dhead, buf, dirty, lh, wbuf, tail, mode>>
      /\ \A q \in Proc : q # p => pc'[q] = pc[q] \/ (pc[q] = "sleep" /\ pc'[q] = "begin")
  BY Zenon DEF EndCommit, Wakeup, IInv, TypeOK, diskVars
<1>2. TxInv' /\ UNCHANGED <<AfterRecovery, Visible>>
  <2>1. \A q \in Proc : /\ pc'[q] = "append" <=> pc[q] = "append"
                        /\ pc'[q] = "install" <=> pc[q] = "install"
                        /\ pc'[q] = "write_log" => pc[q] = "write_log"
    BY Zenon, <1>1
  <2> QED BY Zenon, <1>1, <2>1, MoveTx
<1>3. Active' = Active
  BY Zenon, <1>1 DEF Active
<1> QED BY Zenon, <1>2, <1>3 DEF TD!vars

\* A process changes a buffer and enters log_write.
LEMMA WriteTx ==
  ASSUME IInv, TxInv, NEW p \in Proc, NEW b \in Block, NEW v \in Val, LogWrite(p, b, v)
  PROVE  TxInv' /\ [TD!Next]_(TD!vars)
<1>1. /\ pc[p] = "op" /\ mode = "run" /\ mode' \in {"run", "panic"}
      /\ pc' = [pc EXCEPT ![p] = "append"] /\ wbuf' = [wbuf EXCEPT ![p] = b]
      /\ buf' = [buf EXCEPT ![b] = v]
      /\ UNCHANGED <<disk, dlog, dhead, dirty, lh, tail>>
  BY Zenon DEF LogWrite, diskVars, logVars
<1>2. /\ pc'[p] = "append" /\ wbuf'[p] = b /\ buf'[b] = v
      /\ \A q \in Proc : q # p => pc'[q] = pc[q] /\ wbuf'[q] = wbuf[q]
      /\ \A c \in Block : c # b => buf'[c] = buf[c]
  BY Zenon, <1>1 DEF IInv, TypeOK
<1>3. \A q \in Proc : pc[q] \notin {"write_log", "install", "done"}
                      /\ pc'[q] \notin {"write_log", "install", "done"}
  BY Zenon, <1>1, <1>2, Busy DEF TxInv
<1>4. Headers'
  BY Zenon, <1>1, <1>3, SameHeaders DEF TxInv
<1>5. Clean'
  <2>1. Held(b)' /\ \A c : Held(c) => Held(c)'
    BY Zenon, <1>1, <1>2 DEF Held
  <2>2. Logged' = Logged
    BY Zenon, <1>1 DEF Logged
  <2> QED BY Zenon, <1>1, <1>2, <2>1, <2>2 DEF TxInv, Clean
<1>6. Installed' /\ Copied'
  BY Zenon, <1>1, <1>3 DEF Installed, Copied
<1>7. AfterRecovery' = AfterRecovery
  BY Zenon, <1>1 DEF AfterRecovery
<1>8. Visible' = [Visible EXCEPT ![b] = v]
  <2>1. v # NoBuf
    BY Zenon, SentinelAssumption
  <2>2. Visible = Seen(buf, disk) /\ Visible' = Seen(buf', disk)
    BY Zenon, <1>1, Mapping
  <2>3. \A c \in Block : Seen(buf', disk)[c] = IF c = b THEN v ELSE Seen(buf, disk)[c]
    BY Zenon, <1>2, <2>1 DEF Seen
  <2>4. /\ Seen(buf, disk) = [c \in Block |-> Seen(buf, disk)[c]]
        /\ Seen(buf', disk) = [c \in Block |-> Seen(buf', disk)[c]]
    BY Zenon DEF Seen
  <2> QED BY Zenon, <2>2, <2>3, <2>4
<1>9. Active' = Active /\ p \in Active
  BY Zenon, <1>1, <1>2 DEF Active
<1> QED BY Zenon, <1>4, <1>5, <1>6, <1>7, <1>8, <1>9 DEF TxInv, TD!Next, TD!Write

\* log_write adds the block to the header in memory and pins it.
LEMMA AppendTx ==
  ASSUME IInv, TxInv, NEW p \in Proc, LogAppend(p)
  PROVE  TxInv' /\ [TD!Next]_(TD!vars)
<1> DEFINE b == wbuf[p]
<1>1. /\ pc[p] = "append" /\ mode = "run" /\ mode' = "run"
      /\ pc' = [pc EXCEPT ![p] = "op"] /\ wbuf' = [wbuf EXCEPT ![p] = NoBuf]
      /\ dirty' = dirty \cup {b}
      /\ UNCHANGED <<disk, dlog, dhead, buf, tail>>
  BY Zenon DEF LogAppend, diskVars
<1>2. /\ pc'[p] = "op"
      /\ \A q \in Proc : q # p => pc'[q] = pc[q] /\ wbuf'[q] = wbuf[q]
  BY Zenon, <1>1 DEF IInv, TypeOK
<1>3. /\ b \in Block /\ Logged' = Logged \cup {b}
      /\ lh' = lh \/ (lh' = Append(lh, b) /\ b \notin Logged)
  BY Zenon, Appended
<1>4. \A q \in Proc : pc[q] \notin {"write_log", "install", "done"}
                      /\ pc'[q] \notin {"write_log", "install", "done"}
  BY Zenon, <1>1, <1>2, Busy DEF TxInv
<1>5. Distinct(lh)'
  <2>1. CASE lh' = Append(lh, b) /\ b \notin Logged
    <3>1. /\ Len(lh') = Len(lh) + 1 /\ lh'[Len(lh) + 1] = b /\ Len(lh) \in Nat
          /\ \A i \in 1 .. Len(lh) : lh'[i] = lh[i]
      BY <1>3, <2>1, Short
    <3>2. \A i \in 1 .. Len(lh) : lh[i] # b
      BY Zenon, <2>1 DEF Logged
    <3>3. \A i \in 1 .. Len(lh') : i \in 1 .. Len(lh) \/ i = Len(lh) + 1
      BY <3>1
    <3> QED BY ZenonT(30), <3>1, <3>2, <3>3 DEF TxInv, Headers, Distinct
  <2> QED BY Zenon, <1>3, <2>1 DEF TxInv, Headers, Distinct
<1>6. Headers'
  <2>1. dhead = <<>> /\ Distinct(dhead)'
    BY Zenon, <1>1, <1>4 DEF TxInv, Headers
  <2> QED BY Zenon, <1>1, <1>4, <1>5, <2>1 DEF Headers
<1>7. Clean'
  <2>1. \A c : Held(c) => Held(c)' \/ c = b
    BY Zenon, <1>2 DEF Held
  <2> QED BY Zenon, <1>1, <1>3, <2>1 DEF TxInv, Clean
<1>8. Installed' /\ Copied'
  BY Zenon, <1>1, <1>4 DEF Installed, Copied
<1>9. UNCHANGED <<AfterRecovery, Visible>>
  BY Zenon, <1>1 DEF AfterRecovery, Visible, Bread
<1>10. Active' = Active
  BY Zenon, <1>1, <1>2 DEF Active
<1> QED BY Zenon, <1>6, <1>7, <1>8, <1>9, <1>10 DEF TxInv, TD!vars

\* write_log copies a block to the log area, which recovery does not read yet.
LEMMA WriteLogTx ==
  ASSUME IInv, TxInv, NEW p \in Proc, WriteLog(p)
  PROVE  TxInv' /\ [TD!Next]_(TD!vars)
<1>1. /\ pc[p] = "write_log" /\ mode = "run" /\ tail <= Len(lh) /\ tail' = tail + 1
      /\ dlog' = [dlog EXCEPT ![tail] = Bread(lh[tail])]
      /\ UNCHANGED <<disk, dhead, buf, dirty, lh, pc, wbuf, mode>>
  BY Zenon DEF WriteLog, logVars
<1>2. \A q \in Proc : pc[q] # "install"
  BY Zenon, <1>1, Alone
<1>3. dhead = <<>> /\ disk \in [Block -> Val \cup {Torn}]
  BY Zenon, <1>1, <1>2 DEF TxInv, Headers, IInv, TypeOK
<1>4. Len(lh) \in Nat /\ Len(lh) <= LOGSIZE /\ LOGSIZE \in Nat /\ tail \in Nat /\ tail >= 1
  <2>1. tail \in Nat \ {0}
    BY Zenon DEF IInv, TypeOK
  <2> QED BY <2>1, Short, SizeAssumption
<1>5. dlog'[tail] = Bread(lh[tail]) /\ \A i \in 1 .. LOGSIZE : i # tail => dlog'[i] = dlog[i]
  <2>1. tail \in 1 .. LOGSIZE
    BY <1>1, <1>4
  <2>2. dlog \in [1 .. LOGSIZE -> Val \cup {Torn}]
    BY Zenon DEF IInv, TypeOK
  <2> QED BY Zenon, <1>1, <2>1, <2>2
<1>6. \A i \in 1 .. Len(lh) : i \in 1 .. LOGSIZE /\ (i < tail' => i < tail \/ i = tail)
  BY <1>1, <1>4
<1>7. Headers'
  BY Zenon, <1>1, SameHeaders DEF TxInv
<1>8. Clean'
  <2>1. Logged' = Logged /\ \A b : Held(b)' <=> Held(b)
    BY Zenon, <1>1 DEF Logged, Held
  <2> QED BY Zenon, <1>1, <2>1 DEF TxInv, Clean
<1>9. Installed'
  BY Zenon, <1>1, <1>2 DEF Installed
<1>10. Copied'
  <2> SUFFICES ASSUME NEW i \in 1 .. Len(lh), i < tail' PROVE dlog'[i] = Bread(lh[i])'
    BY Zenon, <1>1, <1>2 DEF Copied
  <2>1. Bread(lh[i])' = Bread(lh[i])
    BY Zenon, <1>1 DEF Bread
  <2>2. CASE i = tail
    BY Zenon, <1>5, <2>1, <2>2
  <2>3. CASE i # tail
    BY Zenon, <1>1, <1>5, <1>6, <2>1, <2>3 DEF TxInv, Copied
  <2> QED BY Zenon, <2>2, <2>3
<1>11. AfterRecovery = disk /\ AfterRecovery' = disk
  BY Zenon, <1>1, <1>3, Mapping, RecEmpty
<1>12. Visible' = Visible /\ Active' = Active
  BY Zenon, <1>1, Mapping DEF Active
<1> QED BY Zenon, <1>1, <1>7, <1>8, <1>9, <1>10, <1>11, <1>12 DEF TxInv, TD!vars

\* The header is written: everything that readers see becomes durable at once.
LEMMA WriteHeadTx ==
  ASSUME IInv, TxInv, NEW p \in Proc, WriteHead(p)
  PROVE  TxInv' /\ [TD!Next]_(TD!vars)
<1>1. /\ pc[p] = "write_log" /\ mode = "run" /\ tail > Len(lh) /\ tail' = 1
      /\ dhead' = lh /\ pc' = [pc EXCEPT ![p] = "install"]
      /\ UNCHANGED <<disk, dlog, buf, dirty, lh, wbuf, mode>>
  BY Zenon DEF WriteHead, logVars
<1>2. pc'[p] = "install" /\ \A q \in Proc : q # p => pc'[q] = pc[q]
  BY Zenon, <1>1 DEF IInv, TypeOK
<1>3. /\ Active = {} /\ \A b : ~Held(b)
      /\ \A q \in Proc : pc[q] # "install" /\ (pc[q] = "write_log" => q = p)
      /\ \A q \in Proc : pc[q] \notin {"op", "append"}
  BY Zenon, <1>1, Alone
<1>4. \A i \in 1 .. Len(lh) : i < tail /\ ~(i < 1)
  BY <1>1, Short DEF IInv, TypeOK
<1>5. \A i \in 1 .. Len(lh) : dlog[i] = Bread(lh[i])
  BY Zenon, <1>1, <1>4 DEF TxInv, Copied
<1>6. Headers'
  BY Zenon, <1>1, <1>2 DEF TxInv, Headers, Distinct
<1>7. Clean'
  <2>1. Logged' = Logged
    BY Zenon, <1>1 DEF Logged
  <2> QED BY Zenon, <1>1, <1>3, <2>1 DEF TxInv, Clean
<1>8. Installed'
  BY Zenon, <1>1, <1>4 DEF Installed
<1>9. Copied'
  BY Zenon, <1>1, <1>5 DEF Copied, Bread
<1>10. Visible = Seen(buf, disk) /\ Visible' = Visible
  BY Zenon, <1>1, Mapping
<1>11. Active' = {}
  BY Zenon, <1>2, <1>3 DEF Active
<1>12. AfterRecovery' = Visible
  <2> DEFINE V == Seen(buf, disk)
  <2>1. V = [b \in Block |-> V[b]] /\ \A b \in Block : V[b] = Bread(b)
    BY Zenon DEF Seen, Bread
  <2>2. lh \in Seq(Block) /\ Distinct(lh) /\ \A i \in 1 .. Len(lh) : lh[i] \in Block
    BY Short DEF TxInv, Headers
  <2>3. Beside(lh, disk, V)
    <3>1. \A b \in Block : (\A i \in 1 .. Len(lh) : lh[i] # b) => b \notin dirty
      BY Zenon DEF TxInv, Clean, Logged
    <3> QED BY Zenon, <1>3, <2>1, <3>1 DEF TxInv, Clean, Bread, Beside
  <2> HIDE DEF V
  <2>4. InLog(lh, dlog, V)
    BY Zenon, <1>5, <2>1, <2>2 DEF InLog
  <2>5. Rec(lh, dlog, disk) = V
    BY Zenon, <2>1, <2>2, <2>3, <2>4, RecIs
  <2> QED BY Zenon, <1>1, <1>10, <2>5, Mapping DEF V
<1>13. TD!Commit
  BY Zenon, <1>3, <1>10, <1>11, <1>12 DEF TD!Commit
<1> QED BY Zenon, <1>6, <1>7, <1>8, <1>9, <1>13 DEF TxInv, TD!Next

\* install_trans copies a block from the log area to its home.
LEMMA InstallTx ==
  ASSUME IInv, TxInv, InstallTrans, UNCHANGED <<dlog, dhead, lh, pc, wbuf, mode>>,
         mode = "replay" \/ \E p \in Proc : pc[p] = "install"
  PROVE  TxInv' /\ [TD!Next]_(TD!vars)
<1> DEFINE b == lh[tail]
<1>1. /\ tail <= Len(lh) /\ tail' = tail + 1 /\ dirty' = dirty \ {b}
      /\ buf' = [buf EXCEPT ![b] = dlog[tail]] /\ disk' = [disk EXCEPT ![b] = dlog[tail]]
  BY Zenon DEF InstallTrans
<1>2. lh = dhead /\ Distinct(lh) /\ Distinct(dhead)
  BY Zenon DEF TxInv, Headers
<1>3. /\ \A q \in Proc : pc[q] # "write_log"
      /\ mode = "replay" \/ (\E p \in Proc : pc[p] = "install" /\ mode \in {"run", "panic"})
  BY Zenon, Alone, Asleep
<1>4. tail \in 1 .. Len(lh) /\ b \in Block
  BY <1>1, Short DEF IInv, TypeOK
<1>5. /\ buf \in [Block -> Val \cup {Torn, NoBuf}] /\ disk \in [Block -> Val \cup {Torn}]
  BY Zenon DEF IInv, TypeOK
<1>6. /\ buf'[b] = dlog[tail] /\ disk'[b] = dlog[tail]
      /\ \A c \in Block : c # b => buf'[c] = buf[c] /\ disk'[c] = disk[c]
  BY Zenon, <1>1, <1>4, <1>5
<1>7. \A i \in 1 .. Len(lh) : /\ lh[i] \in Block
                              /\ i # tail => lh[i] # b
                              /\ i < tail' => i < tail \/ i = tail
  <2>1. \A i \in 1 .. Len(lh) : i # tail => lh[i] # b
    BY Zenon, <1>2, <1>4 DEF Distinct
  <2> QED BY <1>1, <1>4, <2>1, Short
<1>8. Headers'
  BY Zenon, SameHeaders DEF TxInv
<1>9. Clean'
  <2>1. Logged' = Logged /\ \A c : Held(c)' <=> Held(c)
    BY Zenon DEF Logged, Held
  <2> QED BY Zenon, <1>1, <1>6, <2>1 DEF TxInv, Clean
<1>10. Installed'
  <2> SUFFICES ASSUME NEW i \in 1 .. Len(lh), i < tail'
               PROVE  lh[i] \notin dirty' /\ disk'[lh[i]] = dlog[i]
    BY Zenon DEF Installed
  <2>1. CASE i = tail
    BY Zenon, <1>1, <1>6, <2>1
  <2>2. CASE i # tail
    BY Zenon, <1>1, <1>6, <1>7, <2>2 DEF TxInv, Installed
  <2> QED BY Zenon, <2>1, <2>2
<1>11. Copied'
  <2> SUFFICES ASSUME NEW p \in Proc, pc[p] = "install", NEW i \in 1 .. Len(lh)
               PROVE  dlog[i] = Bread(lh[i])'
    BY Zenon, <1>3 DEF Copied
  <2>1. dlog[i] = Bread(lh[i])
    BY Zenon DEF TxInv, Copied
  <2>2. CASE i = tail
    BY Zenon, <1>6, <2>2 DEF Bread
  <2>3. CASE i # tail
    BY Zenon, <1>6, <1>7, <2>1, <2>3 DEF Bread
  <2> QED BY Zenon, <2>2, <2>3
<1>12. AfterRecovery' = AfterRecovery
  <2>1. Differ(dhead, disk, disk')
    BY Zenon, <1>2, <1>4, <1>6 DEF Differ
  <2> QED BY Zenon, <2>1, Mapping, RecOver
<1>13. Visible' = Visible
  <2>1. CASE mode = "replay"
    BY Zenon, <1>12, <2>1, Mapping
  <2>2. ASSUME NEW p \in Proc, pc[p] = "install", mode \in {"run", "panic"}
        PROVE  Visible' = Visible
    <3>1. dlog[tail] = Bread(b)
      BY Zenon, <1>4, <2>2 DEF TxInv, Copied
    <3>2. \A c \in Block : Bread(c)' = Bread(c)
      BY Zenon, <1>6, <3>1 DEF Bread
    <3> QED BY Zenon, <2>2, <3>2 DEF Visible
  <2> QED BY Zenon, <1>3, <2>1, <2>2
<1>14. Active' = Active
  BY Zenon DEF Active
<1> QED BY Zenon, <1>8, <1>9, <1>10, <1>11, <1>12, <1>13, <1>14 DEF TxInv, TD!vars

\* Once every block is installed, nothing is pinned and the disk is what recovery gives.
LEMMA AllInstalled ==
  ASSUME IInv, TxInv, tail > Len(lh), mode = "replay" \/ \E p \in Proc : pc[p] = "install"
  PROVE  /\ dirty = {} /\ AfterRecovery = disk /\ Seen(buf, disk) = disk
         /\ \A b : ~Held(b)
<1>1. \A i \in 1 .. Len(lh) : i < tail
  BY Short DEF IInv, TypeOK
<1>2. \A i \in 1 .. Len(lh) : lh[i] \notin dirty /\ disk[lh[i]] = dlog[i]
  BY Zenon, <1>1 DEF TxInv, Installed
<1>3. dirty = {}
  <2> SUFFICES ASSUME NEW b \in dirty PROVE FALSE
    BY Zenon
  <2>1. PICK i \in 1 .. Len(lh) : lh[i] = b
    BY Zenon DEF TxInv, Clean, Logged
  <2> QED BY Zenon, <1>2, <2>1
<1>4. \A b : ~Held(b)
  BY Zenon, Alone, Asleep
<1>5. disk = [b \in Block |-> disk[b]]
  BY Zenon DEF IInv, TypeOK
<1>6. lh = dhead /\ Distinct(lh) /\ lh \in Seq(Block)
  BY Zenon, Short DEF TxInv, Headers
<1>7. AfterRecovery = disk
  <2>1. InLog(lh, dlog, disk) /\ Beside(lh, disk, disk)
    BY Zenon, <1>2 DEF InLog, Beside
  <2>2. Rec(lh, dlog, disk) = disk
    BY Zenon, <1>5, <1>6, <2>1, RecIs
  <2> QED BY Zenon, <1>6, <2>2, Mapping
<1>8. \A b \in Block : buf[b] \in {NoBuf, disk[b]}
  BY Zenon, <1>3, <1>4 DEF TxInv, Clean
<1> QED BY Zenon, <1>3, <1>4, <1>5, <1>7, <1>8 DEF Seen

\* The header on disk is erased, at the end of recovery or of a commit.
LEMMA EraseTx ==
  ASSUME IInv, TxInv, tail > Len(lh), mode = "replay" \/ \E p \in Proc : pc[p] = "install",
         lh' = <<>>, dhead' = <<>>, mode' = "run", Active' = Active,
         \A p \in Proc : pc'[p] \notin {"append", "install", "write_log"},
         UNCHANGED <<disk, dlog, buf, dirty>>
  PROVE  TxInv' /\ [TD!Next]_(TD!vars)
<1>1. dirty = {} /\ AfterRecovery = disk /\ Seen(buf, disk) = disk /\ \A b : ~Held(b)
  BY Zenon, AllInstalled
<1>2. AfterRecovery' = disk
  BY Zenon, Mapping, RecEmpty DEF IInv, TypeOK
<1>3. Visible' = disk /\ Visible = disk
  BY Zenon, <1>1, Mapping
<1>4. Headers'
  <2>1. Len(<<>>) = 0 /\ \A i : i \notin 1 .. 0
    OBVIOUS
  <2> QED BY Zenon, <2>1 DEF Headers, Distinct
<1>5. Clean'
  BY Zenon, <1>1 DEF TxInv, Clean
<1>6. Installed' /\ Copied'
  BY Zenon DEF Installed, Copied
<1> QED BY Zenon, <1>1, <1>2, <1>3, <1>4, <1>5, <1>6 DEF TxInv, TD!vars

\* Recovery reads the header.
LEMMA ReadHeadTx ==
  ASSUME IInv, TxInv, ReadHead
  PROVE  TxInv' /\ [TD!Next]_(TD!vars)
<1>1. /\ mode = "boot" /\ mode' = "replay" /\ lh' = dhead /\ tail' = 1
      /\ UNCHANGED <<disk, dlog, dhead, buf, dirty, pc, wbuf>>
  BY Zenon DEF ReadHead
<1>2. \A p \in Proc : pc[p] = "idle"
  BY Zenon, <1>1, Asleep
<1>3. \A i \in 1 .. Len(dhead) : ~(i < 1)
  BY DEF IInv, TypeOK
<1>4. Headers'
  <2>1. Distinct(lh)' /\ Distinct(dhead)'
    BY Zenon, <1>1 DEF TxInv, Headers
  <2> QED BY Zenon, <1>1, <1>2, <2>1 DEF Headers
<1>5. Clean'
  <2>1. \A b : ~Held(b)
    BY Zenon, <1>2 DEF Held
  <2> QED BY Zenon, <1>1, <2>1 DEF TxInv, Clean
<1>6. Installed' /\ Copied'
  BY Zenon, <1>1, <1>2, <1>3 DEF Installed, Copied
<1>7. UNCHANGED <<AfterRecovery, Visible, Active>>
  <2>1. AfterRecovery' = AfterRecovery
    BY Zenon, <1>1 DEF AfterRecovery
  <2> QED BY Zenon, <1>1, <2>1, Mapping DEF Active
<1> QED BY Zenon, <1>4, <1>5, <1>6, <1>7 DEF TxInv, TD!vars

\* bget recycles a buffer: readers will find the same on disk.
LEMMA RecycleTx ==
  ASSUME IInv, TxInv, NEW b \in Block, Recycle(b)
  PROVE  TxInv' /\ [TD!Next]_(TD!vars)
<1>1. /\ mode = "run" /\ b \notin dirty /\ (\A p \in Proc : wbuf[p] # b) /\ buf[b] # NoBuf
      /\ buf' = [buf EXCEPT ![b] = NoBuf]
      /\ UNCHANGED <<disk, dlog, dhead, dirty, lh, pc, wbuf, tail, mode>>
  BY Zenon DEF Recycle, diskVars, logVars
<1>2. buf'[b] = NoBuf /\ \A c \in Block : c # b => buf'[c] = buf[c]
  BY Zenon, <1>1 DEF IInv, TypeOK
<1>3. buf[b] = disk[b]
  BY Zenon, <1>1 DEF TxInv, Clean, Held
<1>4. \A c \in Block : Bread(c)' = Bread(c)
  BY Zenon, <1>1, <1>2, <1>3 DEF Bread
<1>5. Headers' /\ Installed'
  BY Zenon, <1>1, SameHeaders DEF TxInv, Installed
<1>6. Clean'
  <2>1. Logged' = Logged /\ \A c : Held(c)' <=> Held(c)
    BY Zenon, <1>1 DEF Logged, Held
  <2> QED BY Zenon, <1>1, <1>2, <2>1 DEF TxInv, Clean
<1>7. Copied'
  <2>1. \A i \in 1 .. Len(lh) : lh[i] \in Block
    BY Short
  <2>2. \A i \in 1 .. Len(lh) : Bread(lh[i])' = Bread(lh[i])
    BY Zenon, <1>1, <1>4, <2>1 DEF Bread
  <2> QED BY Zenon, <1>1, <2>2 DEF TxInv, Copied
<1>8. UNCHANGED <<AfterRecovery, Visible, Active>>
  BY Zenon, <1>1, <1>4 DEF AfterRecovery, Visible, Active
<1> QED BY Zenon, <1>5, <1>6, <1>7, <1>8 DEF TxInv, TD!vars

\* A crash loses what is not committed and nothing else, even if it tears the block that
\* is being written.
LEMMA CrashTx ==
  ASSUME IInv, TxInv, Crash
  PROVE  TxInv' /\ [TD!Next]_(TD!vars)
<1>1. /\ mode' = "boot" /\ dirty' = {} /\ lh' = <<>> /\ dhead' = dhead
      /\ buf' = [c \in Block |-> NoBuf] /\ pc' = [q \in Proc |-> "idle"]
      /\ CleanCut \/ TornLog \/ TornHome
  BY Zenon DEF Crash
<1>2. disk \in [Block -> Val \cup {Torn}] /\ lh \in Seq(Block)
  BY Zenon DEF IInv, TypeOK
<1>3. AfterRecovery' = AfterRecovery
  <2>1. CASE CleanCut
    BY Zenon, <1>1, <2>1 DEF CleanCut, AfterRecovery
  <2>2. CASE TornLog
    <3>1. PICK p \in Proc : pc[p] = "write_log"
      BY Zenon, <2>2 DEF TornLog
    <3>2. dhead = <<>>
      BY Zenon, <3>1, Alone DEF TxInv, Headers
    <3>3. disk' = disk
      BY Zenon, <2>2 DEF TornLog
    <3> QED BY Zenon, <1>1, <1>2, <3>2, <3>3, Mapping, RecEmpty
  <2>3. CASE TornHome
    <3>1. lh = dhead /\ tail \in 1 .. Len(lh)
      <4>1. tail <= Len(lh) /\ lh = dhead
        BY Zenon, <2>3 DEF TornHome, TxInv, Headers
      <4> QED BY <4>1, Short DEF IInv, TypeOK
    <3>2. disk' = [disk EXCEPT ![lh[tail]] = Torn] /\ dlog' = dlog
      BY Zenon, <2>3 DEF TornHome
    <3>3. Differ(dhead, disk, disk')
      <4>1. \A c \in Block : c # lh[tail] => disk'[c] = disk[c]
        BY Zenon, <1>2, <3>2
      <4> QED BY Zenon, <3>1, <4>1 DEF Differ
    <3>4. Rec(dhead, dlog, disk') = Rec(dhead, dlog, disk)
      BY Zenon, <3>3, RecOver
    <3> QED BY Zenon, <1>1, <3>2, <3>4, Mapping
  <2> QED BY Zenon, <1>1, <2>1, <2>2, <2>3
<1>4. Visible' = AfterRecovery /\ Active' = {}
  BY Zenon, <1>1, <1>3, Mapping DEF Active
<1>5. TxInv'
  <2>1. Len(<<>>) = 0 /\ \A i : i \notin 1 .. 0
    OBVIOUS
  <2>2. Headers'
    BY Zenon, <1>1, <2>1 DEF TxInv, Headers, Distinct
  <2>3. Clean'
    BY Zenon, <1>1 DEF Clean
  <2>4. Installed' /\ Copied'
    BY Zenon, <1>1 DEF Installed, Copied
  <2> QED BY Zenon, <2>2, <2>3, <2>4 DEF TxInv
<1> QED BY Zenon, <1>3, <1>4, <1>5 DEF TD!Next, TD!Crash

\* Every step of the log is a step of TxDisk, or changes nothing that TxDisk speaks of.
LEMMA StepTx == IInv /\ TxInv /\ [Next]_vars => TxInv' /\ [TD!Next]_(TD!vars)
<1> SUFFICES ASSUME IInv, TxInv, [Next]_vars PROVE TxInv' /\ [TD!Next]_(TD!vars)
  BY Zenon
<1> DEFINE Goal == TxInv' /\ [TD!Next]_(TD!vars)
<1> SUFFICES Goal
  OBVIOUS
<1> HIDE DEF Goal
<1>1. CASE ReadHead
  BY Zenon, <1>1, ReadHeadTx DEF Goal
<1>2. CASE Replay
  BY Zenon, <1>2, InstallTx DEF Goal, Replay
<1>3. CASE Recovered
  <2>1. /\ mode = "replay" /\ tail > Len(lh) /\ lh' = <<>> /\ dhead' = <<>> /\ mode' = "run"
        /\ UNCHANGED <<disk, dlog, buf, dirty, pc>>
    BY Zenon, <1>3 DEF Recovered
  <2>2. Active' = Active /\ \A p \in Proc : pc'[p] = "idle"
    BY Zenon, <2>1, Asleep DEF Active
  <2> QED BY Zenon, <2>1, <2>2, EraseTx DEF Goal
<1>4. ASSUME NEW p \in Proc, BeginOp(p) PROVE Goal
  BY Zenon, <1>4, BeginTx DEF Goal
<1>5. ASSUME NEW p \in Proc, LogAppend(p) PROVE Goal
  BY Zenon, <1>5, AppendTx DEF Goal
<1>6. ASSUME NEW p \in Proc, EndOp(p) PROVE Goal
  BY Zenon, <1>6, EndTx DEF Goal
<1>7. ASSUME NEW p \in Proc, WriteLog(p) PROVE Goal
  BY Zenon, <1>7, WriteLogTx DEF Goal
<1>8. ASSUME NEW p \in Proc, WriteHead(p) PROVE Goal
  BY Zenon, <1>8, WriteHeadTx DEF Goal
<1>9. ASSUME NEW p \in Proc, Install(p) PROVE Goal
  BY Zenon, <1>9, InstallTx DEF Goal, Install, logVars
<1>10. ASSUME NEW p \in Proc, EraseHead(p) PROVE Goal
  <2>1. /\ mode = "run" /\ pc[p] = "install" /\ tail > Len(lh) /\ lh' = <<>> /\ dhead' = <<>>
        /\ pc' = [pc EXCEPT ![p] = "done"] /\ mode' = "run"
        /\ UNCHANGED <<disk, dlog, buf, dirty>>
    BY Zenon, <1>10 DEF EraseHead
  <2>2. pc'[p] = "done" /\ \A q \in Proc : q # p => pc'[q] = pc[q]
    BY Zenon, <2>1 DEF IInv, TypeOK
  <2>3. \A q \in Proc : pc'[q] \notin {"append", "install", "write_log"}
    BY Zenon, <2>1, <2>2, Alone
  <2>4. Active' = Active
    BY Zenon, <2>1, <2>2 DEF Active
  <2> QED BY Zenon, <2>1, <2>3, <2>4, EraseTx DEF Goal
<1>11. ASSUME NEW p \in Proc, EndCommit(p) PROVE Goal
  BY Zenon, <1>11, EndCommitTx DEF Goal
<1>12. ASSUME NEW p \in Proc, NEW b \in Block, NEW v \in Val, LogWrite(p, b, v) PROVE Goal
  BY Zenon, <1>12, WriteTx DEF Goal
<1>13. ASSUME NEW b \in Block, Recycle(b) PROVE Goal
  BY Zenon, <1>13, RecycleTx DEF Goal
<1>14. CASE Crash
  BY Zenon, <1>14, CrashTx DEF Goal
<1>15. CASE UNCHANGED vars
  <2>1. TxInv' /\ UNCHANGED <<AfterRecovery, Visible>>
    BY Zenon, <1>15, MoveTx DEF vars
  <2>2. Active' = Active
    BY Zenon, <1>15 DEF vars, Active
  <2> QED BY Zenon, <2>1, <2>2 DEF Goal, TD!vars
<1>16. CASE Recover
  BY Zenon, <1>1, <1>2, <1>3, <1>16 DEF Recover
<1>17. ASSUME NEW p \in Proc, Commit(p) PROVE Goal
  BY <1>7, <1>8, <1>9, <1>10, <1>11, <1>17 DEF Commit
<1>18. ASSUME NEW p \in Proc, BeginOp(p) \/ LogAppend(p) \/ EndOp(p) \/ Commit(p)
       PROVE  Goal
  BY Zenon, <1>4, <1>5, <1>6, <1>17, <1>18
<1>19. CASE \E p \in Proc : BeginOp(p) \/ LogAppend(p) \/ EndOp(p) \/ Commit(p)
  BY Zenon, <1>18, <1>19
<1>20. CASE \E p \in Proc, b \in Block, v \in Val : LogWrite(p, b, v)
  BY Zenon, <1>12, <1>20
<1>21. CASE \E b \in Block : Recycle(b)
  BY Zenon, <1>13, <1>21
<1> QED BY Zenon, <1>14, <1>15, <1>16, <1>19, <1>20, <1>21 DEF Next

\* A file system as mkfs makes it.
LEMMA InitTx == Init => TxInv /\ TD!Init
<1> SUFFICES ASSUME Init PROVE TxInv /\ TD!Init
  BY Zenon
<1>1. Len(<<>>) = 0 /\ \A i : i \notin 1 .. 0
  OBVIOUS
<1>2. Headers
  BY Zenon, <1>1 DEF Init, Headers, Distinct
<1>3. Clean
  BY Zenon DEF Init, Clean
<1>4. Installed /\ Copied
  BY Zenon DEF Init, Installed, Copied
<1>5. AfterRecovery = disk /\ Visible = disk /\ Active = {}
  BY Zenon, Mapping, RecEmpty DEF Init, Active
<1>6. TD!Init
  BY Zenon, <1>5 DEF Init, TD!Init
<1> QED BY Zenon, <1>2, <1>3, <1>4, <1>6 DEF TxInv

\* Crash atomicity.  The log implements a disk with transactions: a crash at any point,
\* during a commit or during recovery too, even one that tears the block being written,
\* leaves exactly the writes of whole groups of operations.
THEOREM CrashAtomic == Spec => ImplementsTxDisk
  BY InitTx, StepTx, InvariantIInv, PTL DEF Spec, ImplementsTxDisk, TD!Spec

\* Durability.  Once the last operation has returned from end_op, what readers see is what
\* a crash would leave.
THEOREM DurableWhenQuiet == Spec => []QuiescentDurable
<1>1. IInv /\ TxInv => QuiescentDurable
  <2> SUFFICES ASSUME IInv, TxInv, mode = "run", outstanding = 0, committing = 0
               PROVE  AfterRecovery = Visible
    BY Zenon DEF QuiescentDurable
  <2>1. TypeOK /\ Counted /\ lh = <<>>
    BY Zenon DEF IInv, Reserved
  <2>2. Active = {}
    BY Zenon, <2>1, TokensFinite, FS_EmptySet DEF Counted
  <2>3. committing # 1
    OBVIOUS
  <2>4. Committer = {}
    BY Zenon, <2>1, <2>3 DEF Counted
  <2>5. dhead = <<>> /\ \A b : ~Held(b)
    BY Zenon, <2>2, <2>4 DEF TxInv, Headers, Committer, Active, Held
  <2>6. Logged = {}
    BY <2>1 DEF Logged
  <2>7. \A b \in Block : buf[b] \in {NoBuf, disk[b]}
    BY Zenon, <2>5, <2>6 DEF TxInv, Clean
  <2>8. disk \in [Block -> Val \cup {Torn}]
    BY Zenon, <2>1 DEF TypeOK
  <2>9. AfterRecovery = disk
    BY Zenon, <2>5, <2>8, Mapping, RecEmpty
  <2>10. Visible = disk
    BY Zenon, <2>7, <2>8, Mapping DEF Seen
  <2> QED BY Zenon, <2>9, <2>10
<1> QED BY <1>1, InitTx, StepTx, InvariantIInv, PTL DEF Spec
=============================================================================

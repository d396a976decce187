---------------------------- MODULE ThreadProofs ----------------------------
(***************************************************************************)
(* Three places where threads share something under a mutex, with any      *)
(* number of threads.                                                      *)
(*                                                                         *)
(* MdbEnv: the open transactions are counted, the map is resized while     *)
(* there are none, and it is always large enough.  WorkPool: whoever waits *)
(* for work has its root in exactly one place.  Election, with any number  *)
(* of candidates, voters and votes: the winner leads whenever no vote is   *)
(* being counted, and is confirmed once.                                   *)
(***************************************************************************)
EXTENDS MdbEnv, WorkPool, Election, FiniteSetTheorems, TLAPS

(* The threads whose open transactions may still add to the file.          *)
Growing ==
    {t \in Thread : \/ At(t) \in {"counted", "inside"} /\ thread[t].write
                    \/ thread[t].outer = "open"}

(* How many transactions are counted before the next look at the size.     *)
Remaining == IF transaction_iteration = 0 THEN 0 ELSE CheckInterval - transaction_iteration

(* What MapSuffices supposes of the sizes.                                 *)
Reserve == (CheckInterval + Cardinality(Thread) - 1) * MaxGrowth <= SizeIncrement \div 4

(* There is room for all that is added before the next look.               *)
Room == load + MaxGrowth * (Cardinality(Growing) + Remaining) <= mapsize

(* A transaction around another one waits for it and is a write            *)
(* transaction; the one inside only reads.                                 *)
Nested ==
    \A t \in Thread :
        /\ At(t) = "out" => thread[t].outer # "open"
        /\ thread[t].outer = "open" => ~thread[t].write

(* The thread that resizes knows the size, which is a whole number of      *)
(* increments.                                                             *)
SizeKnown ==
    /\ \A t \in Thread : At(t) = "draining" => lastsize = mapsize
    /\ \E k \in Nat : mapsize = k * SizeIncrement

(* One thread resizes exactly while resizing is set.                       *)
OneResizes ==
    /\ resizing => \E t \in Thread : At(t) = "draining"
    /\ \A t \in Thread : At(t) = "draining" => resizing
    /\ \A t, u \in Thread : At(t) = "draining" /\ At(u) = "draining" => t = u

OpenCounted == open_transactions = Cardinality(Open) + Cardinality(Outer)

ThreadType == thread \in [Thread -> [at : Places, write : BOOLEAN, outer : {"none", "open", "had"}]]
SizeType == load \in Nat /\ mapsize \in Nat /\ lastsize \in Nat /\ transaction_iteration \in 0..(CheckInterval - 1)

EnvInv ==
    /\ ThreadType /\ SizeType /\ resizing \in BOOLEAN
    /\ OpenCounted /\ OneResizes /\ Nested /\ SizeKnown
    /\ Reserve => Room

-----------------------------------------------------------------------------
(* Counting and arithmetic.                                                *)

(* Sets of threads have a size, which changes by one with a thread.        *)
LEMMA CountFacts ==
    /\ \A S \in SUBSET Thread : Cardinality(S) \in Nat /\ Cardinality(S) <= Cardinality(Thread)
    /\ \A S \in SUBSET Thread, t \in Thread : t \notin S => Cardinality(S \cup {t}) = Cardinality(S) + 1
    /\ \A S \in SUBSET Thread, t \in Thread : t \in S => Cardinality(S \ {t}) = Cardinality(S) - 1
    /\ \A T \in SUBSET Thread : \A S \in SUBSET T : Cardinality(S) <= Cardinality(T)
    /\ \A S \in SUBSET Thread : Cardinality(S) = 0 => S = {}
    /\ Cardinality({}) = 0
<1>1. \A S \in SUBSET Thread : IsFiniteSet(S)
  BY MdbAssumption, FS_Subset
<1>2. \A S \in SUBSET Thread : Cardinality(S) \in Nat
  BY <1>1, FS_CardinalityType
<1>3. \A T \in SUBSET Thread : \A S \in SUBSET T : Cardinality(S) <= Cardinality(T)
  BY <1>1, FS_Subset
<1>4. \A S \in SUBSET Thread, t \in Thread : t \notin S => Cardinality(S \cup {t}) = Cardinality(S) + 1
  BY <1>1, FS_AddElement
<1>5. \A S \in SUBSET Thread, t \in Thread : t \in S => Cardinality(S \ {t}) = Cardinality(S) - 1
  BY <1>1, FS_RemoveElement
<1>6. Cardinality({}) = 0 /\ \A S \in SUBSET Thread : Cardinality(S) = 0 => S = {}
  BY <1>1, FS_EmptySet
<1> QED
  BY <1>2, <1>3, <1>4, <1>5, <1>6

(* Room for m transactions is room for fewer, and one that adds something  *)
(* takes its own.                                                          *)
LEMMA RoomShrinks ==
    ASSUME NEW size \in Nat, NEW full \in Nat, NEW g \in Nat, NEW m \in Nat, NEW n \in Nat,
           NEW growth \in 0..g, full + g * m <= size, (n <= m /\ growth = 0) \/ n + 1 <= m
    PROVE  full + growth + g * n <= size
<1>1. CASE n <= m /\ growth = 0
  <2>1. g * m = g * n + g * (m - n) /\ g * (m - n) \in Nat /\ g * n \in Nat /\ g * m \in Nat
    BY <1>1
  <2> QED
    BY <1>1, <2>1
<1>2. CASE n + 1 <= m
  <2>1. /\ g * m = g * n + g + g * (m - n - 1) /\ g * (m - n - 1) \in Nat
        /\ g * n \in Nat /\ g * m \in Nat
    BY <1>2
  <2> QED
    BY <2>1
<1> QED
  BY <1>1, <1>2

(* The map holds a whole number of increments, and one more after it grew. *)
LEMMA WholeIncrements ==
    ASSUME NEW k \in Nat, NEW d \in Nat \ {0}
    PROVE  (((k * d) \div d) + 1) * d = k * d + d
<1>1. (k * d) \div d = k
  OBVIOUS
<1> QED
  BY <1>1

-----------------------------------------------------------------------------
(* One thread goes on.                                                     *)

Record == [at : Places, write : BOOLEAN, outer : {"none", "open", "had"}]
OpenAt == {"counted", "inside", "committed"}
Grows(r) == (r.at \in {"counted", "inside"} /\ r.write) \/ r.outer = "open"

Becomes(t, r) == thread' = [thread EXCEPT ![t] = r]

(* The sets of threads change by the one that goes on.                     *)
LEMMA BecomesFacts ==
    ASSUME ThreadType, NEW t \in Thread, NEW r \in Record, Becomes(t, r)
    PROVE  /\ ThreadType' /\ thread'[t] = r /\ \A u \in Thread \ {t} : thread'[u] = thread[u]
           /\ Open' = IF r.at \in OpenAt THEN Open \cup {t} ELSE Open \ {t}
           /\ Outer' = IF r.outer = "open" THEN Outer \cup {t} ELSE Outer \ {t}
           /\ Growing' = IF Grows(r) THEN Growing \cup {t} ELSE Growing \ {t}
<1>1. ThreadType' /\ thread'[t] = r /\ \A u \in Thread \ {t} : thread'[u] = thread[u]
  BY DEF ThreadType, Becomes, Record
<1>2. Open' = IF r.at \in OpenAt THEN Open \cup {t} ELSE Open \ {t}
  BY <1>1 DEF Open, At, OpenAt
<1>3. Outer' = IF r.outer = "open" THEN Outer \cup {t} ELSE Outer \ {t}
  BY <1>1 DEF Outer
<1>4. Growing' = IF Grows(r) THEN Growing \cup {t} ELSE Growing \ {t}
  BY <1>1 DEF Growing, Grows, At
<1> QED
  BY <1>1, <1>2, <1>3, <1>4

(* The threads' own part of the invariant, when it does not resize.        *)
LEMMA BecomesKeeps ==
    ASSUME ThreadType, OneResizes, Nested, SizeKnown, NEW t \in Thread, NEW r \in Record, Becomes(t, r),
           UNCHANGED <<resizing, mapsize, lastsize>>, At(t) # "draining", r.at # "draining",
           r.at = "out" => r.outer # "open", r.outer = "open" => ~r.write
    PROVE  OneResizes' /\ Nested' /\ SizeKnown'
<1>1. thread'[t] = r /\ \A u \in Thread \ {t} : thread'[u] = thread[u]
  BY BecomesFacts
<1>2. Nested'
  BY <1>1 DEF Nested, At
<1>3. SizeKnown'
  BY <1>1 DEF SizeKnown, At
<1>4. OneResizes'
  BY <1>1 DEF OneResizes, At
<1> QED
  BY <1>2, <1>3, <1>4

(* The record of a thread that only changes its place.                     *)
LEMMA MovesFacts ==
    ASSUME ThreadType, NEW t \in Thread, NEW place \in Places, Moves(t, place)
    PROVE  \E r \in Record : /\ Becomes(t, r) /\ r.at = place
                             /\ r.write = thread[t].write /\ r.outer = thread[t].outer
<1> DEFINE r == [at |-> place, write |-> thread[t].write, outer |-> thread[t].outer]
<1>1. r \in Record
  BY DEF ThreadType, Record
<1>2. Becomes(t, r)
  <2>1. thread[t] = [at |-> thread[t].at, write |-> thread[t].write, outer |-> thread[t].outer]
    BY DEF ThreadType
  <2>2. [thread[t] EXCEPT !.at = place] = r
    BY <2>1
  <2> QED
    BY <2>2, Zenon DEF Becomes, Moves
<1>3. r.at = place /\ r.write = thread[t].write /\ r.outer = thread[t].outer
  OBVIOUS
<1> QED
  BY <1>1, <1>2, <1>3

(* The room is kept by a step that counts nothing new.                     *)
LEMMA RoomKept ==
    ASSUME SizeType, Reserve => Room, UNCHANGED <<load, mapsize, transaction_iteration>>,
           Growing' \subseteq Growing
    PROVE  Reserve => Room'
<1> SUFFICES ASSUME Reserve PROVE Room'
  OBVIOUS
<1>1. Growing \in SUBSET Thread /\ Growing' \in SUBSET Growing
  BY DEF Growing
<1>2. /\ Cardinality(Growing) \in Nat /\ Cardinality(Growing') \in Nat
      /\ Cardinality(Growing') <= Cardinality(Growing)
  BY <1>1, CountFacts
<1>3. Remaining \in Nat /\ Remaining' = Remaining
  BY MdbAssumption DEF Remaining, SizeType
<1>4. /\ Cardinality(Growing) + Remaining \in Nat /\ Cardinality(Growing') + Remaining \in Nat
      /\ Cardinality(Growing') + Remaining <= Cardinality(Growing) + Remaining
  BY <1>2, <1>3
<1>5. load \in Nat /\ mapsize \in Nat /\ MaxGrowth \in Nat
  BY MdbAssumption DEF SizeType
<1>6. load + 0 + MaxGrowth * (Cardinality(Growing') + Remaining) <= mapsize
  <2> DEFINE m == Cardinality(Growing) + Remaining
             n == Cardinality(Growing') + Remaining
  <2>1. m \in Nat /\ n \in Nat /\ n <= m /\ load + MaxGrowth * m <= mapsize /\ 0 \in 0..MaxGrowth
    BY <1>4, <1>5 DEF Room
  <2> HIDE DEF m, n
  <2>2. load + 0 + MaxGrowth * n <= mapsize
    BY <1>5, <2>1, RoomShrinks
  <2> QED
    BY <2>2 DEF n
<1>7. MaxGrowth * (Cardinality(Growing') + Remaining) \in Nat
  BY <1>4, <1>5
<1> QED
  BY <1>3, <1>5, <1>6, <1>7 DEF Room

(* After a look at the size there is room for all that may come before the *)
(* next one.                                                               *)
LEMMA RoomAnew ==
    ASSUME SizeType, NEW size \in Nat, load + (SizeIncrement \div 4) <= size, Counts,
           load' = load, mapsize' = size, Growing' \subseteq Thread
    PROVE  Reserve => Room'
<1> SUFFICES ASSUME Reserve PROVE Room'
  OBVIOUS
<1> DEFINE total == CheckInterval + Cardinality(Thread) - 1
           n == Cardinality(Growing') + Remaining'
<1>1. /\ CheckInterval \in Nat /\ CheckInterval > 0 /\ MaxGrowth \in Nat /\ SizeIncrement \in Nat
      /\ load \in Nat /\ transaction_iteration \in 0..(CheckInterval - 1)
  BY MdbAssumption DEF SizeType
<1>2. Cardinality(Growing') \in Nat /\ Cardinality(Thread) \in Nat /\ Cardinality(Growing') <= Cardinality(Thread)
  BY CountFacts
<1>3. transaction_iteration' \in 0..(CheckInterval - 1)
  BY <1>1 DEF Counts
<1>4. Remaining' \in Nat /\ Remaining' <= CheckInterval - 1
  <2>1. \A c, i \in Nat : i <= c - 1 => IF i = 0 THEN 0 <= c - 1 ELSE c - i \in Nat /\ c - i <= c - 1
    OBVIOUS
  <2>2. transaction_iteration' \in Nat /\ transaction_iteration' <= CheckInterval - 1
    BY <1>1, <1>3
  <2>3. Remaining' = IF transaction_iteration' = 0 THEN 0 ELSE CheckInterval - transaction_iteration'
    BY DEF Remaining
  <2> QED
    BY <1>1, <2>1, <2>2, <2>3, Zenon
<1>5. total \in Nat /\ n \in Nat /\ n <= total
  BY <1>1, <1>2, <1>4
<1>6. 0 + MaxGrowth * total <= SizeIncrement \div 4 /\ (SizeIncrement \div 4) \in Nat
  BY <1>1, <1>5 DEF Reserve
<1> HIDE DEF total, n
<1>7. 0 + 0 + MaxGrowth * n <= SizeIncrement \div 4
  BY <1>1, <1>5, <1>6, RoomShrinks
<1>8. MaxGrowth * n \in Nat
  BY <1>1, <1>5
<1>9. load + MaxGrowth * n <= size
  BY <1>1, <1>6, <1>7, <1>8
<1> QED
  BY <1>9 DEF Room, n

-----------------------------------------------------------------------------
(* The actions.                                                            *)

(* A thread that goes on without opening or closing a transaction.         *)
LEMMA PassesBy ==
    ASSUME EnvInv, NEW t \in Thread, NEW r \in Record, Becomes(t, r),
           UNCHANGED <<open_transactions, transaction_iteration, resizing, load, mapsize, lastsize>>,
           At(t) # "draining", r.at # "draining",
           r.at = "out" => r.outer # "open", r.outer = "open" => ~r.write,
           r.at \in OpenAt <=> t \in Open, r.outer = "open" <=> t \in Outer,
           Grows(r) => t \in Growing
    PROVE  EnvInv'
<1>1. ThreadType /\ SizeType /\ resizing \in BOOLEAN /\ OneResizes /\ Nested /\ SizeKnown
  BY DEF EnvInv
<1>2. ThreadType' /\ Open' = Open /\ Outer' = Outer /\ Growing' \subseteq Growing
  <2>1. /\ ThreadType'
        /\ Open' = IF r.at \in OpenAt THEN Open \cup {t} ELSE Open \ {t}
        /\ Outer' = IF r.outer = "open" THEN Outer \cup {t} ELSE Outer \ {t}
        /\ Growing' = IF Grows(r) THEN Growing \cup {t} ELSE Growing \ {t}
    BY <1>1, BecomesFacts, Zenon
  <2> QED
    BY <2>1
<1>3. OneResizes' /\ Nested' /\ SizeKnown'
  BY <1>1, BecomesKeeps
<1>4. Reserve => Room'
  BY <1>1, <1>2, RoomKept DEF EnvInv
<1>5. SizeType' /\ resizing' \in BOOLEAN
  BY <1>1 DEF SizeType
<1>6. OpenCounted'
  BY <1>2 DEF EnvInv, OpenCounted
<1> QED
  BY <1>2, <1>3, <1>4, <1>5, <1>6 DEF EnvInv, Reserve

(* A thread constructs a transaction, waits for the resizing, or is let in *)
(* by the database.                                                        *)
LEMMA EnterStep ==
    ASSUME EnvInv, NEW t \in Thread,
           \/ \E write \in BOOLEAN : Construct(t, write)
           \/ WaitResize(t) \/ Begin(t)
    PROVE  EnvInv'
<1>1. ThreadType /\ Nested
  BY DEF EnvInv
<1>2. ASSUME NEW write \in BOOLEAN, Construct(t, write) PROVE EnvInv'
  <2> DEFINE r == Transaction("adding", write, "none")
  <2>1. r \in Record /\ r.at = "adding" /\ r.outer = "none"
    BY DEF Transaction, Record, Places
  <2>2. Becomes(t, r) /\ At(t) = "out"
        /\ UNCHANGED <<open_transactions, transaction_iteration, resizing, load, mapsize, lastsize>>
    BY <1>2 DEF Construct, Becomes
  <2> HIDE DEF r
  <2>3. t \notin Open /\ t \notin Outer /\ ~Grows(r) /\ r.at \notin OpenAt
    BY <1>1, <2>1, <2>2 DEF Open, Outer, Nested, Grows, OpenAt
  <2> QED
    BY <2>1, <2>2, <2>3, PassesBy
<1>3. CASE WaitResize(t)
  <2>1. PICK r \in Record : /\ Becomes(t, r) /\ r.at = "sleeping"
                            /\ r.write = thread[t].write /\ r.outer = thread[t].outer
    BY <1>1, <1>3, MovesFacts DEF WaitResize, Places
  <2>2. At(t) = "adding"
        /\ UNCHANGED <<open_transactions, transaction_iteration, resizing, load, mapsize, lastsize>>
    BY <1>3 DEF WaitResize
  <2>3. t \notin Open /\ (r.outer = "open" <=> t \in Outer) /\ (Grows(r) => t \in Growing) /\ r.at \notin OpenAt
    BY <2>1, <2>2 DEF Open, Outer, Grows, Growing, OpenAt
  <2>4. r.outer = "open" => ~r.write
    BY <1>1, <2>1, Zenon DEF Nested
  <2> QED
    BY <2>1, <2>2, <2>3, <2>4, PassesBy
<1>4. CASE Begin(t)
  <2>1. PICK r \in Record : /\ Becomes(t, r) /\ r.at = "inside"
                            /\ r.write = thread[t].write /\ r.outer = thread[t].outer
    BY <1>1, <1>4, MovesFacts DEF Begin, Places
  <2>2. At(t) = "counted"
        /\ UNCHANGED <<open_transactions, transaction_iteration, resizing, load, mapsize, lastsize>>
    BY <1>4 DEF Begin
  <2>3. t \in Open /\ (r.outer = "open" <=> t \in Outer) /\ (Grows(r) => t \in Growing) /\ r.at \in OpenAt
    BY <2>1, <2>2 DEF Open, Outer, Grows, Growing, OpenAt
  <2>4. r.outer = "open" => ~r.write
    BY <1>1, <2>1, Zenon DEF Nested
  <2> QED
    BY <2>1, <2>2, <2>3, <2>4, PassesBy
<1> QED
  BY <1>2, <1>3, <1>4

(* A transaction inside of another one: the outer one stays counted.       *)
LEMMA NestStep == ASSUME EnvInv, NEW t \in Thread, Nest(t) PROVE EnvInv'
<1> DEFINE r == Transaction("adding", FALSE, "open")
<1>1. ThreadType /\ SizeType /\ resizing \in BOOLEAN /\ OneResizes /\ Nested /\ SizeKnown /\ OpenCounted
  BY DEF EnvInv
<1>2. r \in Record /\ r.at = "adding" /\ r.outer = "open" /\ r.write = FALSE
  BY DEF Transaction, Record, Places
<1>3. /\ Becomes(t, r) /\ thread[t] = Transaction("inside", TRUE, "none")
      /\ UNCHANGED <<open_transactions, transaction_iteration, resizing, load, mapsize, lastsize>>
  BY DEF Nest, Becomes
<1> HIDE DEF r
<1>4. At(t) = "inside" /\ thread[t].write = TRUE /\ thread[t].outer = "none"
  BY <1>3 DEF Transaction, At
<1>5. t \in Open /\ t \notin Outer /\ t \in Growing /\ r.at \notin OpenAt
  BY <1>2, <1>4 DEF Open, Outer, Growing, OpenAt
<1>6. ThreadType' /\ Open' = Open \ {t} /\ Outer' = Outer \cup {t} /\ Growing' \subseteq Growing
  BY <1>1, <1>2, <1>3, <1>5, BecomesFacts
<1>7. OneResizes' /\ Nested' /\ SizeKnown'
  BY <1>1, <1>2, <1>3, <1>4, BecomesKeeps
<1>8. Reserve => Room'
  BY <1>1, <1>3, <1>6, RoomKept DEF EnvInv
<1>9. OpenCounted'
  <2>1. Open \in SUBSET Thread /\ Outer \in SUBSET Thread
    BY DEF Open, Outer
  <2>2. /\ Cardinality(Open) \in Nat /\ Cardinality(Outer) \in Nat
        /\ Cardinality(Open') = Cardinality(Open) - 1 /\ Cardinality(Outer') = Cardinality(Outer) + 1
    BY <1>5, <1>6, <2>1, CountFacts, Zenon
  <2> QED
    BY <1>1, <1>3, <2>2 DEF OpenCounted
<1>10. SizeType' /\ resizing' \in BOOLEAN
  BY <1>1, <1>3 DEF SizeType
<1> QED
  BY <1>6, <1>7, <1>8, <1>9, <1>10 DEF EnvInv, Reserve

(* A commit takes the room that was kept for its transaction.              *)
LEMMA CommitStep == ASSUME EnvInv, NEW t \in Thread, NEW growth \in 0..MaxGrowth, Commit(t, growth) PROVE EnvInv'
<1>1. ThreadType /\ SizeType /\ resizing \in BOOLEAN /\ OneResizes /\ Nested /\ SizeKnown /\ OpenCounted
  BY DEF EnvInv
<1>2. PICK r \in Record : /\ Becomes(t, r) /\ r.at = "committed"
                          /\ r.write = thread[t].write /\ r.outer = thread[t].outer
  BY <1>1, MovesFacts DEF Commit, Places
<1>3. /\ At(t) = "inside" /\ (growth > 0 => thread[t].write)
      /\ load' = load + growth
      /\ UNCHANGED <<open_transactions, transaction_iteration, resizing, mapsize, lastsize>>
  BY DEF Commit
<1>4. r.outer = "open" => ~r.write
  BY <1>1, <1>2, Zenon DEF Nested
<1>5. ThreadType' /\ Open' = Open /\ Outer' = Outer
  <2>1. t \in Open /\ (r.outer = "open" <=> t \in Outer) /\ r.at \in OpenAt
    BY <1>2, <1>3 DEF Open, Outer, OpenAt
  <2>2. /\ ThreadType'
        /\ Open' = IF r.at \in OpenAt THEN Open \cup {t} ELSE Open \ {t}
        /\ Outer' = IF r.outer = "open" THEN Outer \cup {t} ELSE Outer \ {t}
    BY <1>1, <1>2, BecomesFacts, Zenon
  <2> QED
    BY <2>1, <2>2
<1>6. OneResizes' /\ Nested' /\ SizeKnown'
  BY <1>1, <1>2, <1>3, <1>4, BecomesKeeps
<1>7. growth \in Nat /\ MaxGrowth \in Nat /\ load \in Nat /\ mapsize \in Nat
  BY <1>1, MdbAssumption DEF SizeType
<1>8. SizeType' /\ resizing' \in BOOLEAN
  BY <1>1, <1>3, <1>7 DEF SizeType
<1>9. Growing' \subseteq Growing /\ (growth > 0 => Growing' = Growing \ {t} /\ t \in Growing)
  <2>1. Growing' = IF Grows(r) THEN Growing \cup {t} ELSE Growing \ {t}
    BY <1>1, <1>2, BecomesFacts
  <2>2. Grows(r) => t \in Growing
    BY <1>2 DEF Grows, Growing
  <2>3. growth > 0 => ~Grows(r) /\ t \in Growing
    BY <1>2, <1>3, <1>4 DEF Grows, Growing
  <2> QED
    BY <2>1, <2>2, <2>3
<1>10. ASSUME Reserve PROVE Room'
  <2> DEFINE m == Cardinality(Growing) + Remaining
             n == Cardinality(Growing') + Remaining
  <2>1. Growing \in SUBSET Thread /\ Growing' \in SUBSET Growing
    BY <1>9 DEF Growing
  <2>2. /\ Cardinality(Growing) \in Nat /\ Cardinality(Growing') \in Nat
        /\ Cardinality(Growing') <= Cardinality(Growing)
        /\ growth > 0 => Cardinality(Growing') = Cardinality(Growing) - 1
    BY <1>9, <2>1, CountFacts
  <2>3. Remaining \in Nat /\ Remaining' = Remaining
    BY <1>1, <1>3, MdbAssumption DEF Remaining, SizeType
  <2>4. m \in Nat /\ n \in Nat /\ ((n <= m /\ growth = 0) \/ n + 1 <= m)
    BY <1>7, <2>2, <2>3
  <2>5. load + MaxGrowth * m <= mapsize
    BY <1>10 DEF EnvInv, Room
  <2> HIDE DEF m, n
  <2>6. load + growth + MaxGrowth * n <= mapsize
    BY <1>7, <2>4, <2>5, RoomShrinks
  <2> QED
    BY <1>3, <2>3, <2>6 DEF Room, n
<1>11. OpenCounted'
  BY <1>1, <1>3, <1>5 DEF OpenCounted
<1> QED
  BY <1>5, <1>6, <1>8, <1>10, <1>11 DEF EnvInv, Reserve

(* The end of a transaction, or of the one inside of another.              *)
LEMMA RemoveStep == ASSUME EnvInv, NEW t \in Thread, RemoveTransaction(t) PROVE EnvInv'
<1> DEFINE r == IF thread[t].outer = "open" THEN Transaction("inside", TRUE, "had")
                ELSE Transaction("out", FALSE, "none")
<1>1. ThreadType /\ SizeType /\ resizing \in BOOLEAN /\ OneResizes /\ Nested /\ SizeKnown /\ OpenCounted
  BY DEF EnvInv
<1>2. /\ r \in Record /\ r.at # "draining" /\ r.outer # "open"
      /\ thread[t].outer = "open" => r.at \in OpenAt
      /\ thread[t].outer # "open" => r.at \notin OpenAt /\ ~Grows(r)
  BY DEF Transaction, Record, Places, OpenAt, Grows
<1>3. /\ Becomes(t, r) /\ At(t) = "committed" /\ open_transactions' = open_transactions - 1
      /\ UNCHANGED <<transaction_iteration, resizing, load, mapsize, lastsize>>
  BY <1>1 DEF RemoveTransaction, Becomes, ThreadType
<1> HIDE DEF r
<1>4. t \in Open /\ (thread[t].outer = "open" <=> t \in Outer) /\ (t \in Outer => t \in Growing)
  BY <1>3 DEF Open, Outer, Growing
<1>5. /\ ThreadType' /\ Outer' = Outer \ {t}
      /\ Open' = IF t \in Outer THEN Open ELSE Open \ {t}
      /\ Growing' \subseteq Growing
  <2>1. /\ ThreadType'
        /\ Open' = IF r.at \in OpenAt THEN Open \cup {t} ELSE Open \ {t}
        /\ Outer' = IF r.outer = "open" THEN Outer \cup {t} ELSE Outer \ {t}
        /\ Growing' = IF Grows(r) THEN Growing \cup {t} ELSE Growing \ {t}
    BY <1>1, <1>2, <1>3, BecomesFacts
  <2>2. CASE t \in Outer
    BY <1>2, <1>4, <2>1, <2>2
  <2>3. CASE t \notin Outer
    BY <1>2, <1>4, <2>1, <2>3
  <2> QED
    BY <2>2, <2>3
<1>6. OneResizes' /\ Nested' /\ SizeKnown'
  BY <1>1, <1>2, <1>3, BecomesKeeps
<1>7. Reserve => Room'
  BY <1>1, <1>3, <1>5, RoomKept DEF EnvInv
<1>8. OpenCounted'
  <2>1. Open \in SUBSET Thread /\ Outer \in SUBSET Thread
    BY DEF Open, Outer
  <2>2. /\ Cardinality(Open) \in Nat /\ Cardinality(Outer) \in Nat
        /\ Cardinality(Open \ {t}) = Cardinality(Open) - 1
        /\ t \in Outer => Cardinality(Outer \ {t}) = Cardinality(Outer) - 1
    BY <1>4, <2>1, CountFacts
  <2>3. CASE t \in Outer
    BY <1>1, <1>3, <1>5, <2>2, <2>3 DEF OpenCounted
  <2>4. CASE t \notin Outer
    <3>1. Outer' = Outer /\ Open' = Open \ {t}
      BY <1>5, <2>4
    <3>2. /\ open_transactions = Cardinality(Open) + Cardinality(Outer)
          /\ open_transactions' = open_transactions - 1
      BY <1>1, <1>3 DEF OpenCounted
    <3>3. open_transactions' = Cardinality(Open \ {t}) + Cardinality(Outer)
      BY <2>2, <3>2
    <3> QED
      BY <3>1, <3>3 DEF OpenCounted
  <2> QED
    BY <2>3, <2>4
<1>9. SizeType' /\ resizing' \in BOOLEAN
  BY <1>1, <1>3 DEF SizeType
<1> QED
  BY <1>5, <1>6, <1>7, <1>8, <1>9 DEF EnvInv, Reserve

(* A transaction that is counted uses up one of those that remain until    *)
(* the next look, or has looked itself.                                    *)
LEMMA AddStep == ASSUME EnvInv, NEW t \in Thread, AddTransaction(t) PROVE EnvInv'
<1>1. ThreadType /\ SizeType /\ resizing \in BOOLEAN /\ OneResizes /\ Nested /\ SizeKnown /\ OpenCounted
  BY DEF EnvInv
<1>2. PICK r \in Record : /\ Becomes(t, r) /\ r.at = "counted"
                          /\ r.write = thread[t].write /\ r.outer = thread[t].outer
  BY <1>1, MovesFacts DEF AddTransaction, Places
<1>3. /\ At(t) = "adding" /\ ~MustResize /\ Counts
      /\ UNCHANGED <<resizing, load, mapsize, lastsize>>
  BY DEF AddTransaction
<1>4. r.outer = "open" => ~r.write
  BY <1>1, <1>2, Zenon DEF Nested
<1>5. ThreadType' /\ t \notin Open /\ Open' = Open \cup {t} /\ Outer' = Outer /\ Growing' \subseteq Growing \cup {t}
  <2>1. t \notin Open /\ (r.outer = "open" <=> t \in Outer) /\ r.at \in OpenAt
    BY <1>2, <1>3 DEF Open, Outer, OpenAt
  <2>2. /\ ThreadType'
        /\ Open' = IF r.at \in OpenAt THEN Open \cup {t} ELSE Open \ {t}
        /\ Outer' = IF r.outer = "open" THEN Outer \cup {t} ELSE Outer \ {t}
        /\ Growing' = IF Grows(r) THEN Growing \cup {t} ELSE Growing \ {t}
    BY <1>1, <1>2, BecomesFacts, Zenon
  <2> QED
    BY <2>1, <2>2
<1>6. OneResizes' /\ Nested' /\ SizeKnown'
  BY <1>1, <1>2, <1>3, <1>4, BecomesKeeps
<1>7. OpenCounted'
  <2>1. Open \in SUBSET Thread /\ Outer \in SUBSET Thread
    BY DEF Open, Outer
  <2>2. Cardinality(Open) \in Nat /\ Cardinality(Outer) \in Nat /\ Cardinality(Open') = Cardinality(Open) + 1
    BY <1>5, <2>1, CountFacts
  <2> QED
    BY <1>1, <1>3, <1>5, <2>2 DEF OpenCounted, Counts
<1>8. /\ load \in Nat /\ mapsize \in Nat /\ MaxGrowth \in Nat /\ CheckInterval \in Nat /\ CheckInterval > 0
      /\ transaction_iteration \in Nat /\ transaction_iteration < CheckInterval /\ SizeIncrement \in Nat
  BY <1>1, MdbAssumption DEF SizeType
<1>9. transaction_iteration' = IF transaction_iteration + 1 = CheckInterval THEN 0 ELSE transaction_iteration + 1
  <2>1. \A c, i \in Nat : i < c => (i + 1) % c = IF i + 1 = c THEN 0 ELSE i + 1
    OBVIOUS
  <2> QED
    BY <1>3, <1>8, <2>1 DEF Counts
<1>10. SizeType' /\ resizing' \in BOOLEAN
  BY <1>1, <1>3, <1>8, <1>9 DEF SizeType
<1>11. ASSUME Reserve PROVE Room'
  <2>1. CASE transaction_iteration = 0
    <3>1. ~(mapsize - load < SizeIncrement \div 4)
      BY <1>3, <2>1 DEF MustResize, Slack
    <3>2. load + (SizeIncrement \div 4) <= mapsize
      BY <1>8, <3>1
    <3>3. Growing' \subseteq Thread
      BY <1>5 DEF Growing
    <3> QED
      BY <1>1, <1>3, <1>8, <1>11, <3>2, <3>3, RoomAnew
  <2>2. CASE transaction_iteration # 0
    <3> DEFINE m == Cardinality(Growing) + Remaining
               n == Cardinality(Growing') + Remaining'
    <3>1. Growing \in SUBSET Thread /\ Growing \cup {t} \in SUBSET Thread /\ Growing' \in SUBSET (Growing \cup {t})
      BY <1>5 DEF Growing
    <3>2. Cardinality(Growing') \in Nat /\ Cardinality(Growing) \in Nat
          /\ Cardinality(Growing') <= Cardinality(Growing) + 1
      <4>1. /\ Cardinality(Growing) \in Nat /\ Cardinality(Growing \cup {t}) \in Nat
            /\ Growing' \in SUBSET Thread /\ Cardinality(Growing') \in Nat
            /\ Cardinality(Growing') <= Cardinality(Growing \cup {t})
        BY <3>1, CountFacts
      <4>2. t \in Growing => Growing \cup {t} = Growing
        OBVIOUS
      <4>3. t \notin Growing => Cardinality(Growing \cup {t}) = Cardinality(Growing) + 1
        BY <3>1, CountFacts
      <4> QED
        BY <4>1, <4>2, <4>3
    <3>3. Remaining = CheckInterval - transaction_iteration /\ Remaining' = Remaining - 1
          /\ Remaining \in Nat /\ Remaining' \in Nat
      <4>1. Remaining = CheckInterval - transaction_iteration
        BY <2>2 DEF Remaining
      <4>2. Remaining' = IF transaction_iteration' = 0 THEN 0 ELSE CheckInterval - transaction_iteration'
        BY DEF Remaining
      <4> QED
        BY <1>8, <1>9, <4>1, <4>2
    <3>4. m \in Nat /\ n \in Nat /\ n <= m
      BY <3>2, <3>3
    <3>5. load + MaxGrowth * m <= mapsize /\ 0 \in 0..MaxGrowth
      BY <1>8, <1>11 DEF EnvInv, Room
    <3> HIDE DEF m, n
    <3>6. load + 0 + MaxGrowth * n <= mapsize
      BY <1>8, <3>4, <3>5, RoomShrinks
    <3>7. load + MaxGrowth * n <= mapsize
      BY <1>8, <3>4, <3>6
    <3> QED
      BY <1>3, <3>7 DEF Room, n
  <2> QED
    BY <2>1, <2>2
<1> QED
  BY <1>5, <1>6, <1>7, <1>10, <1>11 DEF EnvInv, Reserve

(* The first thread that finds too little room resizes, and is alone.      *)
LEMMA StartResizeStep == ASSUME EnvInv, NEW t \in Thread, StartResize(t) PROVE EnvInv'
<1>1. ThreadType /\ SizeType /\ resizing \in BOOLEAN /\ OneResizes /\ Nested /\ SizeKnown /\ OpenCounted
  BY DEF EnvInv
<1>2. PICK r \in Record : /\ Becomes(t, r) /\ r.at = "draining"
                          /\ r.write = thread[t].write /\ r.outer = thread[t].outer
  BY <1>1, MovesFacts DEF StartResize, Places
<1>3. /\ At(t) = "adding" /\ ~resizing /\ resizing' = TRUE /\ lastsize' = mapsize
      /\ UNCHANGED <<open_transactions, transaction_iteration, load, mapsize>>
  BY DEF StartResize
<1>4. thread'[t] = r /\ \A u \in Thread \ {t} : thread'[u] = thread[u]
  BY <1>1, <1>2, BecomesFacts
<1>5. ThreadType' /\ Open' = Open /\ Outer' = Outer /\ Growing' \subseteq Growing
  <2>1. /\ t \notin Open /\ (r.outer = "open" <=> t \in Outer) /\ r.at \notin OpenAt
        /\ Grows(r) => t \in Growing
    BY <1>2, <1>3 DEF Open, Outer, OpenAt, Grows, Growing
  <2>2. /\ ThreadType' /\ Open' = IF r.at \in OpenAt THEN Open \cup {t} ELSE Open \ {t}
        /\ Outer' = IF r.outer = "open" THEN Outer \cup {t} ELSE Outer \ {t}
        /\ Growing' = IF Grows(r) THEN Growing \cup {t} ELSE Growing \ {t}
    BY <1>1, <1>2, BecomesFacts, Zenon
  <2>3. Open \ {t} = Open /\ (IF r.outer = "open" THEN Outer \cup {t} ELSE Outer \ {t}) = Outer
    BY <2>1
  <2>4. Growing' \subseteq Growing
    BY <2>1, <2>2
  <2> QED
    BY <2>1, <2>2, <2>3, <2>4, Zenon
<1>6. \A u \in Thread : At(u)' = "draining" <=> u = t
  BY <1>1, <1>2, <1>3, <1>4 DEF OneResizes, At
<1>7. OneResizes'
  BY <1>3, <1>6 DEF OneResizes
<1>8. Nested'
  BY <1>1, <1>2, <1>4 DEF Nested, At
<1>9. SizeKnown'
  BY <1>1, <1>3 DEF SizeKnown
<1>10. Reserve => Room'
  BY <1>1, <1>3, <1>5, RoomKept DEF EnvInv
<1>11. SizeType' /\ resizing' \in BOOLEAN
  BY <1>1, <1>3 DEF SizeType
<1>12. OpenCounted'
  BY <1>1, <1>3, <1>5 DEF OpenCounted
<1> QED
  BY <1>5, <1>7, <1>8, <1>9, <1>10, <1>11, <1>12 DEF EnvInv, Reserve

(* The thread that resizes does so when nothing is open, and the map then  *)
(* has an increment more.                                                  *)
LEMMA ResizeStep == ASSUME EnvInv, NEW t \in Thread, Resize(t) PROVE EnvInv' /\ Open \cup Outer = {}
<1>1. ThreadType /\ SizeType /\ resizing \in BOOLEAN /\ OneResizes /\ Nested /\ SizeKnown /\ OpenCounted
  BY DEF EnvInv
<1>2. /\ At(t) = "draining" /\ open_transactions = 0
      /\ mapsize' = ((lastsize \div SizeIncrement) + 1) * SizeIncrement
      /\ resizing' = FALSE /\ Counts /\ load' = load /\ lastsize' = lastsize
      /\ thread' = [u \in Thread |->
            IF u = t THEN [thread[u] EXCEPT !.at = "counted"]
            ELSE IF At(u) = "sleeping" THEN [thread[u] EXCEPT !.at = "adding"] ELSE thread[u]]
  BY DEF Resize
<1>3. Open = {} /\ Outer = {}
  <2>1. Open \in SUBSET Thread /\ Outer \in SUBSET Thread
    BY DEF Open, Outer
  <2>2. Cardinality(Open) \in Nat /\ Cardinality(Outer) \in Nat /\ Cardinality(Open) + Cardinality(Outer) = 0
    BY <1>1, <1>2, <2>1, CountFacts DEF OpenCounted
  <2>3. Cardinality(Open) = 0 /\ Cardinality(Outer) = 0
    BY <2>2
  <2> QED
    BY <2>1, <2>3, CountFacts
<1>4. ThreadType'
  <2>1. ASSUME NEW u \in Thread, NEW place \in Places PROVE [thread[u] EXCEPT !.at = place] \in Record
    BY <1>1 DEF ThreadType, Record
  <2>2. "counted" \in Places /\ "adding" \in Places
    BY DEF Places
  <2>3. \A u \in Thread : thread[u] \in Record
    BY <1>1 DEF ThreadType, Record
  <2>4. thread' \in [Thread -> Record]
    BY <1>2, <2>1, <2>2, <2>3
  <2> QED
    BY <2>4 DEF ThreadType, Record
<1>5. /\ thread'[t].at = "counted"
      /\ \A u \in Thread \ {t} : thread'[u].at = IF At(u) = "sleeping" THEN "adding" ELSE At(u)
      /\ \A u \in Thread : thread'[u].write = thread[u].write /\ thread'[u].outer = thread[u].outer
  <2>1. \A u \in Thread : thread[u] = [at |-> thread[u].at, write |-> thread[u].write, outer |-> thread[u].outer]
    BY <1>1 DEF ThreadType
  <2>2. ASSUME NEW u \in Thread, NEW place
        PROVE  [thread[u] EXCEPT !.at = place] = [at |-> place, write |-> thread[u].write, outer |-> thread[u].outer]
    <3>1. thread[u] = [at |-> thread[u].at, write |-> thread[u].write, outer |-> thread[u].outer]
      BY <2>1
    <3> QED
      BY <3>1
  <2>3. \A u \in Thread :
           thread'[u] = IF u = t THEN [at |-> "counted", write |-> thread[u].write, outer |-> thread[u].outer]
                        ELSE IF At(u) = "sleeping"
                             THEN [at |-> "adding", write |-> thread[u].write, outer |-> thread[u].outer]
                             ELSE thread[u]
    BY <1>2, <2>2
  <2>4. thread'[t] = [at |-> "counted", write |-> thread[t].write, outer |-> thread[t].outer]
    BY <2>3, Zenon
  <2>5. ASSUME NEW u \in Thread \ {t}
        PROVE  /\ thread'[u].at = IF At(u) = "sleeping" THEN "adding" ELSE At(u)
               /\ thread'[u].write = thread[u].write /\ thread'[u].outer = thread[u].outer
    <3>1. CASE At(u) = "sleeping"
      <4>1. thread'[u] = [at |-> "adding", write |-> thread[u].write, outer |-> thread[u].outer]
        BY <2>3, <3>1, Zenon
      <4> QED
        BY <3>1, <4>1
    <3>2. CASE At(u) # "sleeping"
      <4>1. thread'[u] = thread[u]
        BY <2>3, <3>2, Zenon
      <4> QED
        BY <3>2, <4>1 DEF At
    <3> QED
      BY <3>1, <3>2
  <2>6. thread'[t].at = "counted" /\ thread'[t].write = thread[t].write /\ thread'[t].outer = thread[t].outer
    BY <2>4
  <2> QED
    BY <2>5, <2>6
<1>6. Open' = {t} /\ Outer' = {}
  BY <1>3, <1>5 DEF Open, Outer, At
<1>7. OpenCounted'
  <2>1. Cardinality({t}) = 1 /\ Cardinality({}) = 0
    BY FS_Singleton, FS_EmptySet, Zenon
  <2>2. open_transactions' = 1
    BY <1>2 DEF Counts
  <2> QED
    BY <1>6, <2>1, <2>2 DEF OpenCounted
<1>8. \A u \in Thread : At(u)' # "draining"
  BY <1>1, <1>2, <1>5 DEF OneResizes, At
<1>9. OneResizes'
  BY <1>2, <1>8 DEF OneResizes
<1>10. Nested'
  BY <1>1, <1>2, <1>5 DEF Nested, At
<1>11. mapsize' = mapsize + SizeIncrement /\ \E k \in Nat : mapsize' = k * SizeIncrement
  <2>1. PICK k \in Nat : mapsize = k * SizeIncrement
    BY <1>1 DEF SizeKnown
  <2>2. lastsize = k * SizeIncrement
    BY <1>1, <1>2, <2>1 DEF SizeKnown
  <2>3. mapsize' = k * SizeIncrement + SizeIncrement
    BY <1>2, <2>2, WholeIncrements, MdbAssumption
  <2>4. k * SizeIncrement + SizeIncrement = (k + 1) * SizeIncrement /\ k + 1 \in Nat
    BY MdbAssumption
  <2> QED
    BY <2>1, <2>3, <2>4
<1>12. SizeKnown'
  BY <1>8, <1>11 DEF SizeKnown
<1>13. /\ load \in Nat /\ mapsize \in Nat /\ mapsize' \in Nat /\ SizeIncrement \in Nat /\ MaxGrowth \in Nat
       /\ CheckInterval \in Nat /\ CheckInterval > 0 /\ transaction_iteration \in Nat
  BY <1>1, <1>11, MdbAssumption DEF SizeType
<1>14. SizeType' /\ resizing' \in BOOLEAN
  <2>1. transaction_iteration' \in 0..(CheckInterval - 1)
    BY <1>2, <1>13 DEF Counts
  <2> QED
    BY <1>1, <1>2, <1>13, <2>1, Zenon DEF SizeType
<1>15. ASSUME Reserve PROVE Room'
  <2> DEFINE m == Cardinality(Growing) + Remaining
  <2>1. load + MaxGrowth * m <= mapsize
    BY <1>15 DEF EnvInv, Room
  <2>2. m \in Nat
    <3>1. Cardinality(Growing) \in Nat
      BY CountFacts DEF Growing
    <3>2. Remaining \in Nat
      BY <1>1, MdbAssumption DEF Remaining, SizeType
    <3> QED
      BY <3>1, <3>2
  <2> HIDE DEF m
  <2>3. MaxGrowth * m \in Nat
    BY <1>13, <2>2
  <2>4. load <= mapsize
    BY <1>13, <2>1, <2>3
  <2>5. load + (SizeIncrement \div 4) <= mapsize'
    BY <1>11, <1>13, <2>4
  <2>6. Growing' \subseteq Thread
    BY DEF Growing
  <2> QED
    BY <1>1, <1>2, <1>13, <1>15, <2>5, <2>6, RoomAnew
<1> QED
  BY <1>3, <1>4, <1>7, <1>9, <1>10, <1>12, <1>14, <1>15 DEF EnvInv, Reserve

-----------------------------------------------------------------------------
(* The theorems.                                                           *)

(* What the count and the sizes rest on holds at every step.               *)
THEOREM EnvInvariance == EnvSpec => []EnvInv
<1>1. EnvInit => EnvInv
  <2> SUFFICES ASSUME EnvInit PROVE EnvInv
    OBVIOUS
  <2>1. \A t \in Thread : At(t) = "out" /\ thread[t].write = FALSE /\ thread[t].outer = "none"
    BY DEF EnvInit, At, Transaction
  <2>2. Open = {} /\ Outer = {} /\ Growing = {}
    BY <2>1 DEF Open, Outer, Growing
  <2>3. ThreadType
    BY DEF EnvInit, ThreadType, Transaction, Places
  <2>4. SizeType /\ resizing \in BOOLEAN
    <3>1. SizeType
      BY MdbAssumption DEF EnvInit, SizeType
    <3>2. resizing \in BOOLEAN
      BY Zenon DEF EnvInit
    <3> QED
      BY <3>1, <3>2
  <2>5. OpenCounted
    BY <2>2, CountFacts DEF EnvInit, OpenCounted
  <2>6. OneResizes /\ Nested
    BY <2>1, Zenon DEF EnvInit, OneResizes, Nested
  <2>7. SizeKnown
    <3>1. mapsize = 1 * SizeIncrement
      BY MdbAssumption DEF EnvInit
    <3> QED
      BY <2>1, <3>1 DEF SizeKnown
  <2>8. Room
    <3>1. Cardinality(Growing) + Remaining = 0
      BY <2>2, CountFacts DEF EnvInit, Remaining
    <3>2. MaxGrowth * 0 = 0
      BY MdbAssumption
    <3> QED
      BY <3>1, <3>2, MdbAssumption DEF EnvInit, Room
  <2> QED
    BY <2>3, <2>4, <2>5, <2>6, <2>7, <2>8 DEF EnvInv
<1>2. EnvInv /\ [EnvNext]_envVars => EnvInv'
  <2> SUFFICES ASSUME EnvInv, [EnvNext]_envVars PROVE EnvInv'
    OBVIOUS
  <2>1. ASSUME NEW t \in Thread, Step(t) PROVE EnvInv'
    BY <2>1, EnterStep, AddStep, StartResizeStep, ResizeStep, CommitStep, RemoveStep DEF Step
  <2>2. ASSUME NEW t \in Thread, Nest(t) PROVE EnvInv'
    BY <2>2, NestStep
  <2>3. ASSUME NEW t \in Thread, NEW write \in BOOLEAN, Construct(t, write) PROVE EnvInv'
    BY <2>3, EnterStep
  <2>4. CASE UNCHANGED envVars
    BY <2>4 DEF envVars, EnvInv, ThreadType, SizeType, OpenCounted, OneResizes, Nested, SizeKnown, Reserve, Room,
                Open, Outer, Growing, Remaining, At
  <2> QED
    BY <2>1, <2>2, <2>3, <2>4 DEF EnvNext
<1> QED
  BY <1>1, <1>2, PTL DEF EnvSpec

(* open_transactions counts the open transactions, nested ones included,   *)
(* and at most one thread resizes (mdb_env::add_transaction).              *)
THEOREM TransactionsCounted == EnvSpec => []EnvTypeOK
<1>1. EnvInv => EnvTypeOK
  <2> SUFFICES ASSUME EnvInv PROVE EnvTypeOK
    OBVIOUS
  <2>1. resizing = (\E t \in Thread : At(t) = "draining")
    BY Zenon DEF EnvInv, OneResizes
  <2>2. resizing \in BOOLEAN
    BY DEF EnvInv
  <2>3. \A t, u \in Thread : At(t) = "draining" /\ At(u) = "draining" => t = u
    BY DEF EnvInv, OneResizes
  <2> QED
    BY <2>1, <2>2, <2>3 DEF EnvInv, EnvTypeOK, ThreadType, SizeType, OpenCounted
<1> QED
  BY <1>1, EnvInvariance, PTL

(* The file never outgrows the map, however many threads there are and     *)
(* however their transactions overlap a resize, if what they add between   *)
(* two looks is at most a quarter of an increment (mdb_env).               *)
THEOREM MapLargeEnough == EnvSpec => []MapSuffices
<1>1. EnvInv => MapSuffices
  <2> SUFFICES ASSUME EnvInv, Reserve PROVE load <= mapsize
    BY DEF MapSuffices, Reserve
  <2> DEFINE m == Cardinality(Growing) + Remaining
  <2>1. load + MaxGrowth * m <= mapsize /\ load \in Nat /\ mapsize \in Nat /\ MaxGrowth \in Nat
    BY MdbAssumption DEF EnvInv, Room, SizeType
  <2>2. m \in Nat
    <3>1. Cardinality(Growing) \in Nat
      BY CountFacts DEF Growing
    <3>2. Remaining \in Nat
      BY MdbAssumption DEF EnvInv, Remaining, SizeType
    <3> QED
      BY <3>1, <3>2
  <2> HIDE DEF m
  <2>3. MaxGrowth * m \in Nat
    BY <2>1, <2>2
  <2> QED
    BY <2>1, <2>3
<1> QED
  BY <1>1, EnvInvariance, PTL

(* mdb_env_set_mapsize is only called while no thread of the process has a *)
(* transaction open.                                                       *)
THEOREM ResizedAlone == EnvSpec => ResizesAlone
<1>1. EnvInv /\ [EnvNext]_envVars => [mapsize' # mapsize => Open \cup Outer = {}]_envVars
  <2> SUFFICES ASSUME EnvInv, EnvNext, mapsize' # mapsize PROVE Open \cup Outer = {}
    BY DEF envVars
  <2>1. PICK t \in Thread : Resize(t)
    BY Zenon DEF EnvNext, Step, Nest, Construct, WaitResize, AddTransaction, StartResize, Begin, Commit, RemoveTransaction
  <2> QED
    BY <2>1, ResizeStep
<1> QED
  BY <1>1, EnvInvariance, PTL DEF EnvSpec, ResizesAlone

-----------------------------------------------------------------------------
(* The pool: how often a root is in the queue.                             *)

Positions(queue, root) == {i \in DOMAIN queue : queue[i] = root}
Queued(queue, root) == Cardinality(Positions(queue, root))

(* A root is in a queue a finite number of times.                          *)
LEMMA QueuedType ==
    ASSUME NEW S, NEW queue \in Seq(S), NEW root
    PROVE  IsFiniteSet(Positions(queue, root)) /\ Queued(queue, root) \in Nat
<1>1. DOMAIN queue = 1..Len(queue) /\ Len(queue) \in Nat
  OBVIOUS
<1>2. IsFiniteSet(1..Len(queue))
  BY <1>1, FS_Interval
<1>3. Positions(queue, root) \subseteq 1..Len(queue)
  BY <1>1 DEF Positions
<1>4. IsFiniteSet(Positions(queue, root))
  BY <1>2, <1>3, FS_Subset
<1> QED
  BY <1>4, FS_CardinalityType DEF Queued

(* A sequence with an element put behind it.                               *)
LEMMA AppendInSeq ==
    ASSUME NEW S, NEW seq \in Seq(S), NEW e \in S
    PROVE  Append(seq, e) \in Seq(S)
OBVIOUS

(* Once more when it is put at the end.                                    *)
LEMMA QueuedAppend ==
    ASSUME NEW S, NEW queue \in Seq(S), NEW new \in S, NEW root
    PROVE  Queued(Append(queue, new), root) = Queued(queue, root) + (IF new = root THEN 1 ELSE 0)
<1> DEFINE n == Len(queue)
<1>1. /\ DOMAIN queue = 1..n /\ n \in Nat /\ DOMAIN Append(queue, new) = 1..(n + 1)
      /\ \A i \in 1..n : Append(queue, new)[i] = queue[i]
      /\ Append(queue, new)[n + 1] = new
  OBVIOUS
<1> HIDE DEF n
<1>2. IsFiniteSet(Positions(queue, root)) /\ Queued(queue, root) \in Nat
  BY QueuedType
<1>3. CASE new = root
  <2>1. Positions(Append(queue, new), root) = Positions(queue, root) \cup {n + 1} /\ n + 1 \notin Positions(queue, root)
    BY <1>1, <1>3 DEF Positions
  <2> QED
    BY <1>2, <1>3, <2>1, FS_AddElement, Zenon DEF Queued
<1>4. CASE new # root
  <2>1. Positions(Append(queue, new), root) = Positions(queue, root)
    BY <1>1, <1>4 DEF Positions
  <2> QED
    BY <1>2, <1>4, <2>1 DEF Queued
<1> QED
  BY <1>3, <1>4

(* Once less when it is taken from the front.                              *)
LEMMA QueuedTail ==
    ASSUME NEW S, NEW queue \in Seq(S), queue # <<>>, NEW root
    PROVE  Queued(queue, root) = Queued(Tail(queue), root) + (IF Head(queue) = root THEN 1 ELSE 0)
<1> DEFINE n == Len(queue)
           rest == Positions(queue, root) \ {1}
           shift == [i \in Positions(Tail(queue), root) |-> i + 1]
<1>1. /\ DOMAIN queue = 1..n /\ n \in Nat /\ n > 0 /\ DOMAIN Tail(queue) = 1..(n - 1)
      /\ \A i \in 1..(n - 1) : Tail(queue)[i] = queue[i + 1]
      /\ Head(queue) = queue[1] /\ Tail(queue) \in Seq(S)
  OBVIOUS
<1> HIDE DEF n
<1>2. /\ IsFiniteSet(Positions(queue, root)) /\ Queued(queue, root) \in Nat
      /\ IsFiniteSet(Positions(Tail(queue), root)) /\ Queued(Tail(queue), root) \in Nat
  BY <1>1, QueuedType, Zenon
<1>3. /\ Positions(Tail(queue), root) = {i \in 1..(n - 1) : queue[i + 1] = root}
      /\ rest = {i \in 2..n : queue[i] = root}
  BY <1>1 DEF Positions
<1>4. shift \in Bijection(Positions(Tail(queue), root), rest)
  <2>1. shift \in [Positions(Tail(queue), root) -> rest]
    BY <1>1, <1>3
  <2>2. \A i, j \in Positions(Tail(queue), root) : shift[i] = shift[j] => i = j
    BY <1>1, <1>3
  <2>3. \A j \in rest : \E i \in Positions(Tail(queue), root) : shift[i] = j
    <3> TAKE j \in rest
    <3>1. j - 1 \in Positions(Tail(queue), root) /\ (j - 1) + 1 = j
      BY <1>1, <1>3
    <3> QED
      BY <3>1
  <2> HIDE DEF rest, shift
  <2> QED
    BY <2>1, <2>2, <2>3 DEF Bijection, Injection, Surjection, IsInjective
<1>5. ExistsBijection(Positions(Tail(queue), root), rest)
  BY <1>4, Zenon DEF ExistsBijection
<1>6. Cardinality(rest) = Queued(Tail(queue), root)
  <2> HIDE DEF rest
  <2> QED
    BY <1>2, <1>5, FS_Bijection DEF Queued
<1>7. 1 \in Positions(queue, root) <=> Head(queue) = root
  BY <1>1 DEF Positions
<1>8. Cardinality(rest) = IF 1 \in Positions(queue, root) THEN Queued(queue, root) - 1 ELSE Queued(queue, root)
  BY <1>2, FS_RemoveElement, Zenon DEF Queued
<1> QED
  BY <1>2, <1>6, <1>7, <1>8

-----------------------------------------------------------------------------
(* The pool: whoever waits has its root in exactly one place.              *)

(* The callers ask for different roots, as wallet actions do.              *)
RootsDiffer == \A c, d \in Caller : c # d => Roots[c] \cap Roots[d] = {}

Occurrences(root) == Queued(pending, root) + (IF current = root THEN 1 ELSE 0) + (IF root \in completed THEN 1 ELSE 0)

(* A caller that waits asked for one of its own roots.                     *)
OwnRoots ==
    /\ caller = [c \in Caller |-> [at |-> caller[c].at, root |-> caller[c].root]]
    /\ \A c \in Caller : caller[c].at # "out" => caller[c].root \in Roots[c]

PoolInv ==
    /\ pending \in Seq(Root)
    /\ OwnRoots
    /\ \A root \in Root : Occurrences(root) = IF Awaited(root) THEN 1 ELSE 0

(* What a step that leaves the queue, the current root, the results and    *)
(* what is awaited alone keeps.                                            *)
LEMMA OccurrencesKept ==
    ASSUME PoolInv, UNCHANGED <<pending, current, completed>>, OwnRoots',
           \A root \in Root : Awaited(root)' <=> Awaited(root)
    PROVE  PoolInv'
<1>1. \A root \in Root : Occurrences(root)' = Occurrences(root)
  BY DEF Occurrences
<1> QED
  BY <1>1 DEF PoolInv

(* An awaited root is awaited by its own caller and by no other one.       *)
LEMMA OneAwaits ==
    ASSUME RootsDiffer, OwnRoots, NEW c \in Caller, NEW root \in Roots[c], Awaited(root)
    PROVE  caller[c].at # "out" /\ caller[c].root = root
<1>1. PICK d \in Caller : caller[d].at # "out" /\ caller[d].root = root
  BY DEF Awaited
<1>2. root \in Roots[d]
  BY <1>1 DEF OwnRoots
<1>3. d = c
  BY <1>2, WorkPoolAssumption DEF RootsDiffer
<1> QED
  BY <1>1, <1>3

(* loop takes the front of the queue as the current root.                  *)
LEMMA TakeRootStep ==
    ASSUME RootsDiffer, PoolInv, NEW w \in Worker, TakeRoot(w)
    PROVE  PoolInv'
<1>1. /\ pending \in Seq(Root) /\ pending # <<>> /\ pending' = Tail(pending)
      /\ current = NoRoot /\ current' = Head(pending) /\ completed' = completed /\ caller' = caller
  BY DEF TakeRoot, PoolInv
<1>2. pending' \in Seq(Root)
  BY <1>1
<1>3. OwnRoots' /\ \A root \in Root : Awaited(root)' <=> Awaited(root)
  BY <1>1, Zenon DEF PoolInv, OwnRoots, Awaited
<1>4. ASSUME NEW root \in Root PROVE Occurrences(root)' = Occurrences(root)
  <2>1. Queued(pending, root) = Queued(pending', root) + (IF current' = root THEN 1 ELSE 0)
    BY <1>1, QueuedTail
  <2>2. current # root
    BY <1>1, WorkPoolAssumption DEF RootsDiffer
  <2>3. Queued(pending, root) \in Nat /\ Queued(pending', root) \in Nat
    BY <1>1, <1>2, QueuedType, Zenon
  <2> QED
    BY <1>1, <2>1, <2>2, <2>3 DEF Occurrences
<1> QED
  BY <1>2, <1>3, <1>4 DEF PoolInv

(* loop moves the current root to the results and wakes the callers.       *)
LEMMA PublishStep ==
    ASSUME RootsDiffer, PoolInv, NEW w \in Worker, PublishWork(w)
    PROVE  PoolInv'
<1>1. /\ pending \in Seq(Root) /\ pending' = pending
      /\ current' = NoRoot /\ completed' = completed \cup {current} /\ caller' = WokenCallers
  BY DEF PublishWork, PoolInv
<1>2. \A c \in Caller : /\ caller'[c].root = caller[c].root
                        /\ caller'[c].at # "out" <=> caller[c].at # "out"
                        /\ caller'[c] = [at |-> caller'[c].at, root |-> caller'[c].root]
  <2> TAKE c \in Caller
  <2>1. caller[c] = [at |-> caller[c].at, root |-> caller[c].root]
    BY DEF PoolInv, OwnRoots
  <2>2. caller'[c] = IF caller[c].at = "wait" THEN [caller[c] EXCEPT !.at = "woken"] ELSE caller[c]
    BY <1>1 DEF WokenCallers
  <2> QED
    BY <2>1, <2>2
<1>3. OwnRoots'
  <2>1. caller' = [c \in Caller |-> caller'[c]]
    BY <1>1 DEF WokenCallers
  <2>2. caller' = [c \in Caller |-> [at |-> caller'[c].at, root |-> caller'[c].root]]
    BY <1>2, <2>1
  <2>3. \A c \in Caller : caller[c].at # "out" => caller[c].root \in Roots[c]
    BY Zenon DEF PoolInv, OwnRoots
  <2> QED
    BY <1>2, <2>2, <2>3 DEF OwnRoots
<1>4. \A root \in Root : Awaited(root)' <=> Awaited(root)
  BY <1>2, Zenon DEF Awaited
<1>5. ASSUME NEW root \in Root PROVE Occurrences(root)' = Occurrences(root)
  <2>1. Queued(pending, root) \in Nat
    BY <1>1, QueuedType
  <2>2. Occurrences(root) \in {0, 1}
    BY DEF PoolInv
  <2>3. ~(current = root /\ root \in completed)
    BY <2>1, <2>2 DEF Occurrences
  <2>4. NoRoot # root
    BY WorkPoolAssumption DEF RootsDiffer
  <2> QED
    BY <1>1, <2>1, <2>3, <2>4 DEF Occurrences
<1> QED
  BY <1>1, <1>3, <1>4, <1>5 DEF PoolInv

(* generate queues a root that nobody waits for yet.                       *)
LEMMA GenerateStep ==
    ASSUME RootsDiffer, PoolInv, NEW c \in Caller, NEW new \in Roots[c], Generate(c, new)
    PROVE  PoolInv'
<1>1. /\ pending \in Seq(Root) /\ pending' = Append(pending, new)
      /\ current' = current /\ completed' = completed
      /\ caller[c] = Outside
      /\ caller' = [caller EXCEPT ![c] = [at |-> "wait", root |-> new]]
  BY DEF Generate, PoolInv
<1>2. new \in Root /\ pending' \in Seq(Root)
  <2>1. new \in Root
    BY Zenon DEF Root
  <2>2. Append(pending, new) \in Seq(Root)
    BY <1>1, <2>1, AppendInSeq, Zenon
  <2> QED
    BY <1>1, <2>1, <2>2, Zenon
<1>3. caller[c].at = "out"
  BY <1>1 DEF Outside
<1>4. /\ caller = [d \in Caller |-> [at |-> caller[d].at, root |-> caller[d].root]]
      /\ \A d \in Caller : caller[d].at # "out" => caller[d].root \in Roots[d]
  BY DEF PoolInv, OwnRoots
<1>5. /\ caller'[c] = [at |-> "wait", root |-> new] /\ caller'[c].at = "wait" /\ caller'[c].root = new
      /\ \A d \in Caller : d # c => caller'[d] = caller[d]
      /\ caller' = [d \in Caller |-> caller'[d]]
  BY <1>1, <1>4
<1>6. OwnRoots'
  <2>1. \A d \in Caller : caller'[d] = [at |-> caller'[d].at, root |-> caller'[d].root]
    BY <1>4, <1>5
  <2>2. caller' = [d \in Caller |-> [at |-> caller'[d].at, root |-> caller'[d].root]]
    BY <1>5, <2>1
  <2>3. \A d \in Caller : caller'[d].at # "out" => caller'[d].root \in Roots[d]
    BY <1>4, <1>5
  <2> QED
    BY <2>2, <2>3 DEF OwnRoots
<1>7. ~Awaited(new) /\ Awaited(new)'
  <2>1. ~Awaited(new)
    BY <1>3, OneAwaits DEF PoolInv
  <2> QED
    BY <1>5, <2>1 DEF Awaited
<1>8. ASSUME NEW root \in Root, root # new PROVE Awaited(root)' <=> Awaited(root)
  BY <1>3, <1>5, <1>8 DEF Awaited
<1>9. ASSUME NEW root \in Root PROVE Occurrences(root)' = Occurrences(root) + (IF new = root THEN 1 ELSE 0)
  <2>1. Queued(pending', root) = Queued(pending, root) + (IF new = root THEN 1 ELSE 0)
    <3>1. pending \in Seq(Root) /\ new \in Root
      BY <1>1, <1>2, Zenon
    <3>2. Queued(Append(pending, new), root) = Queued(pending, root) + (IF new = root THEN 1 ELSE 0)
      BY <3>1, QueuedAppend
    <3> QED
      BY <1>1, <3>2, Zenon
  <2>2. Queued(pending, root) \in Nat
    BY <1>1, QueuedType
  <2> QED
    <3> DEFINE waiting == Queued(pending, root)
               here == IF new = root THEN 1 ELSE 0
               active == IF current = root THEN 1 ELSE 0
               finished == IF root \in completed THEN 1 ELSE 0
    <3>1. Occurrences(root) = waiting + active + finished
      BY Zenon DEF Occurrences
    <3>2. Occurrences(root)' = (waiting + here) + active + finished
      BY <1>1, <2>1, Zenon DEF Occurrences
    <3>3. waiting \in Nat /\ here \in Nat /\ active \in Nat /\ finished \in Nat
      BY <2>2
    <3> HIDE DEF waiting, here, active, finished
    <3>4. (waiting + here) + active + finished = (waiting + active + finished) + here
      BY <3>3
    <3>5. Occurrences(root)' = Occurrences(root) + here
      BY <3>1, <3>2, <3>4, Zenon
    <3> QED
      BY <3>5 DEF here
<1>10. ASSUME NEW root \in Root PROVE Occurrences(root)' = IF Awaited(root)' THEN 1 ELSE 0
  <2>1. Occurrences(root) = IF Awaited(root) THEN 1 ELSE 0
    BY DEF PoolInv
  <2>2. CASE root = new
    <3>1. Occurrences(root)' = 0 + 1
      BY <1>7, <1>9, <2>1, <2>2, Zenon
    <3>2. 0 + 1 = 1
      OBVIOUS
    <3> QED
      BY <1>7, <2>2, <3>1, <3>2, Zenon
  <2>3. CASE root # new
    <3>1. Occurrences(root)' = Occurrences(root) + 0
      BY <1>9, <2>3, Zenon
    <3>2. (IF Awaited(root) THEN 1 ELSE 0) + 0 = IF Awaited(root) THEN 1 ELSE 0
      OBVIOUS
    <3>3. Occurrences(root)' = IF Awaited(root) THEN 1 ELSE 0
      BY <2>1, <3>1, <3>2, Zenon
    <3> QED
      BY <1>8, <2>3, <3>3, Zenon
  <2> QED
    BY <2>2, <2>3, Zenon
<1> QED
  BY <1>2, <1>6, <1>10 DEF PoolInv

(* generate erases the result it returns, or waits on.                     *)
LEMMA CollectStep ==
    ASSUME RootsDiffer, PoolInv, NEW c \in Caller, Collect(c)
    PROVE  PoolInv'
<1>0. PICK mine : mine = caller[c].root
  OBVIOUS
<1>1. /\ pending \in Seq(Root) /\ pending' = pending /\ current' = current
      /\ caller[c].at = "woken"
  BY DEF Collect, PoolInv
<1>2. /\ caller = [d \in Caller |-> [at |-> caller[d].at, root |-> caller[d].root]]
      /\ \A d \in Caller : caller[d].at # "out" => caller[d].root \in Roots[d]
  BY DEF PoolInv, OwnRoots
<1>3. mine \in Roots[c] /\ mine \in Root /\ Awaited(mine)
  BY <1>0, <1>1, <1>2 DEF Root, Awaited
<1>4. /\ \A d \in Caller : d # c => caller'[d] = caller[d]
      /\ caller' = [d \in Caller |-> caller'[d]]
  BY <1>2 DEF Collect
<1>5. CASE mine \in completed
  <2>1. completed' = completed \ {mine} /\ caller'[c] = Outside
    BY <1>0, <1>2, <1>5 DEF Collect
  <2>2. caller'[c] = [at |-> caller'[c].at, root |-> caller'[c].root] /\ caller'[c].at = "out"
    BY <2>1 DEF Outside
  <2>3. OwnRoots'
    <3>1. \A d \in Caller : caller'[d] = [at |-> caller'[d].at, root |-> caller'[d].root]
      BY <1>2, <1>4, <2>2
    <3>2. caller' = [d \in Caller |-> [at |-> caller'[d].at, root |-> caller'[d].root]]
      BY <1>4, <3>1
    <3>3. \A d \in Caller : caller'[d].at # "out" => caller'[d].root \in Roots[d]
      BY <1>2, <1>4, <2>2
    <3> QED
      BY <3>2, <3>3 DEF OwnRoots
  <2>4. ~Awaited(mine)'
    <3> SUFFICES ASSUME Awaited(mine)' PROVE FALSE
      OBVIOUS
    <3>1. PICK d \in Caller : caller'[d].at # "out" /\ caller'[d].root = mine
      BY DEF Awaited
    <3>2. d # c
      BY <2>2, <3>1
    <3>3. mine \in Roots[d]
      BY <1>2, <1>4, <3>1, <3>2
    <3> QED
      BY <1>3, <3>2, <3>3, WorkPoolAssumption DEF RootsDiffer
  <2>5. ASSUME NEW root \in Root, root # mine PROVE Awaited(root)' <=> Awaited(root)
    BY <1>0, <1>4, <2>2, <2>5 DEF Awaited
  <2>6. ASSUME NEW root \in Root PROVE Occurrences(root)' = IF Awaited(root)' THEN 1 ELSE 0
    <3>1. Occurrences(root) = IF Awaited(root) THEN 1 ELSE 0
      BY DEF PoolInv
    <3>2. Queued(pending, root) \in Nat
      BY <1>1, QueuedType
    <3>3. CASE root = mine
      <4>1. Occurrences(root) = 1 /\ root \in completed
        BY <1>3, <1>5, <3>1, <3>3
      <4>2. Queued(pending, root) = 0 /\ current # root
        BY <3>2, <4>1 DEF Occurrences
      <4>3. Occurrences(root)' = 0
        BY <1>1, <2>1, <3>3, <4>2 DEF Occurrences
      <4> QED
        BY <2>4, <3>3, <4>3
    <3>4. CASE root # mine
      <4>1. root \in completed' <=> root \in completed
        BY <2>1, <3>4
      <4>2. Occurrences(root)' = Occurrences(root)
        BY <1>1, <4>1 DEF Occurrences
      <4> QED
        BY <2>5, <3>1, <3>4, <4>2
    <3> QED
      BY <3>3, <3>4
  <2> QED
    BY <1>1, <2>3, <2>6 DEF PoolInv
<1>6. CASE mine \notin completed
  <2>1. completed' = completed /\ caller' = [caller EXCEPT ![c].at = "wait"]
    BY <1>0, <1>6 DEF Collect
  <2>2. /\ caller'[c] = [at |-> "wait", root |-> caller[c].root]
        /\ caller'[c].at = "wait" /\ caller'[c].root = caller[c].root
    BY <1>2, <2>1
  <2>3. OwnRoots'
    <3>1. \A d \in Caller : caller'[d] = [at |-> caller'[d].at, root |-> caller'[d].root]
      BY <1>2, <1>4, <2>2
    <3>2. caller' = [d \in Caller |-> [at |-> caller'[d].at, root |-> caller'[d].root]]
      BY <1>4, <3>1
    <3>3. \A d \in Caller : caller'[d].at # "out" => caller'[d].root \in Roots[d]
      BY <1>1, <1>2, <1>4, <2>2, Zenon
    <3> QED
      BY <3>2, <3>3 DEF OwnRoots
  <2>4. \A root \in Root : Awaited(root)' <=> Awaited(root)
    BY <1>1, <1>4, <2>2 DEF Awaited
  <2> QED
    BY <1>1, <2>1, <2>3, <2>4, OccurrencesKept
<1> QED
  BY <1>5, <1>6

(* A caller that wakes up still waits for its root.                        *)
LEMMA WakeCallerStep ==
    ASSUME PoolInv, NEW c \in Caller, WakeCaller(c)
    PROVE  PoolInv'
<1>1. /\ UNCHANGED <<pending, current, completed>> /\ caller[c].at = "wait"
      /\ caller' = [caller EXCEPT ![c].at = "woken"]
  BY DEF WakeCaller
<1>2. /\ caller = [d \in Caller |-> [at |-> caller[d].at, root |-> caller[d].root]]
      /\ \A d \in Caller : caller[d].at # "out" => caller[d].root \in Roots[d]
  BY DEF PoolInv, OwnRoots
<1>3. /\ \A d \in Caller : d # c => caller'[d] = caller[d]
      /\ caller' = [d \in Caller |-> caller'[d]]
      /\ caller'[c] = [at |-> "woken", root |-> caller[c].root]
      /\ caller'[c].at = "woken" /\ caller'[c].root = caller[c].root
  BY <1>1, <1>2
<1>4. OwnRoots'
  <2>1. \A d \in Caller : caller'[d] = [at |-> caller'[d].at, root |-> caller'[d].root]
    BY <1>2, <1>3
  <2>2. caller' = [d \in Caller |-> [at |-> caller'[d].at, root |-> caller'[d].root]]
    BY <1>3, <2>1
  <2>3. \A d \in Caller : caller'[d].at # "out" => caller'[d].root \in Roots[d]
    BY <1>1, <1>2, <1>3, Zenon
  <2> QED
    BY <2>2, <2>3 DEF OwnRoots
<1>5. \A root \in Root : Awaited(root)' <=> Awaited(root)
  BY <1>1, <1>3 DEF Awaited
<1> QED
  BY <1>1, <1>4, <1>5, OccurrencesKept

(* PoolInv holds at first.                                                 *)
LEMMA PoolStarts ==
    ASSUME RootsDiffer, PoolInit
    PROVE  PoolInv
<1>1. /\ pending = <<>> /\ current = NoRoot /\ completed = {}
      /\ caller = [c \in Caller |-> Outside]
  BY DEF PoolInit
<1>2. pending \in Seq(Root)
  BY <1>1
<1>3. \A c \in Caller : caller[c] = [at |-> "out", root |-> NoRoot] /\ caller[c].at = "out"
  BY <1>1 DEF Outside
<1>4. OwnRoots
  <2>1. caller = [c \in Caller |-> [at |-> caller[c].at, root |-> caller[c].root]]
    BY <1>1, <1>3
  <2> QED
    BY <1>3, <2>1 DEF OwnRoots
<1>5. ASSUME NEW root \in Root PROVE Occurrences(root) = 0 /\ ~Awaited(root)
  <2>1. Positions(pending, root) = {}
    BY <1>1 DEF Positions
  <2>2. Queued(pending, root) = 0
    BY <2>1, FS_EmptySet DEF Queued
  <2>3. current # root
    BY <1>1, WorkPoolAssumption DEF RootsDiffer
  <2> QED
    BY <1>1, <1>3, <2>2, <2>3 DEF Occurrences, Awaited
<1> QED
  BY <1>2, <1>4, <1>5 DEF PoolInv

(* With any number of workers and of callers, whoever waits in generate    *)
(* has its root in exactly one place (the queue, current or completed) and *)
(* nothing is searched for or kept that nobody waits for, provided no two  *)
(* callers ask for the same root.                                          *)
THEOREM OneResultEach ==
    ASSUME RootsDiffer
    PROVE  PoolSpec => []ResultsAwaited
<1>1. PoolInit => PoolInv
  BY PoolStarts
<1>2. PoolInv /\ [PoolNext]_poolVars => PoolInv'
  <2> SUFFICES ASSUME PoolInv, [PoolNext]_poolVars PROVE PoolInv'
    OBVIOUS
  <2>1. ASSUME UNCHANGED <<pending, current, completed, caller>> PROVE PoolInv'
    BY <2>1, OccurrencesKept, Zenon DEF PoolInv, OwnRoots, Awaited
  <2>2. CASE UNCHANGED poolVars
    BY <2>1, <2>2 DEF poolVars
  <2>3. ASSUME NEW w \in Worker, WorkerStep(w) \/ Find(w) \/ WakeWorker(w) PROVE PoolInv'
    <3>1. CASE TakeRoot(w)
      BY <3>1, TakeRootStep
    <3>2. CASE PublishWork(w)
      BY <3>2, PublishStep
    <3>3. CASE ~TakeRoot(w) /\ ~PublishWork(w)
      <4>1. UNCHANGED <<pending, current, completed, caller>>
        BY <2>3, <3>3, Zenon DEF WorkerStep, Leaves, StartSearch, Sleep, Find,
              GiveUp, PublishAsserts, Discard, WakeWorker
      <4> QED
        BY <2>1, <4>1
    <3> QED
      BY <3>1, <3>2, <3>3
  <2>4. ASSUME NEW c \in Caller, NEW root \in Roots[c], Generate(c, root) PROVE PoolInv'
    BY <2>4, GenerateStep
  <2>5. ASSUME NEW c \in Caller, Collect(c) PROVE PoolInv'
    BY <2>5, CollectStep
  <2>6. ASSUME NEW c \in Caller, WakeCaller(c) PROVE PoolInv'
    BY <2>6, WakeCallerStep
  <2>7. CASE Stop
    BY <2>1, <2>7 DEF Stop
  <2> QED
    BY <2>2, <2>3, <2>4, <2>5, <2>6, <2>7 DEF PoolNext
<1>3. PoolInv => ResultsAwaited
  BY DEF PoolInv, Occurrences, Queued, Positions, ResultsAwaited
<1> QED
  BY <1>1, <1>2, <1>3, PTL DEF PoolSpec

-----------------------------------------------------------------------------
(* Election: the winner leads whenever no vote is being counted, and is    *)
(* confirmed once.                                                         *)


(* Blocks are candidates, and a call of election::vote is a record.        *)
Shape ==
    /\ stored \in Candidate \cup {NoBlock} /\ rival \in Candidate \cup {NoBlock}
    /\ calls = [t \in VoteThread |-> calls[t]]
    /\ \A t \in VoteThread : calls[t] = [changed |-> calls[t].changed, was_confirmed |-> calls[t].was_confirmed,
                                     winner |-> calls[t].winner]

(* Before the constructor of the election nobody votes.                    *)
NotBegun ==
    last_winner = NoBlock =>
        /\ ~roots /\ ballots = [v \in Voter |-> NoVote] /\ queued = {}
        /\ \A t \in VoteThread : calls[t] = NoCall

(* election::start is the service's first call.                            *)
StartsOnce == "start" \in queued => calls["service"] = NoCall

(* The winner leads, or somebody has yet to count.                         *)
LeadsOrCounts ==
    last_winner # NoBlock /\ ~confirmed => Leads(ballots, last_winner) \/ \E t \in VoteThread : Counting(t)

IndInv == Shape /\ NotBegun /\ StartsOnce /\ LeadsOrCounts

-----------------------------------------------------------------------------
(* Votes.                                                                  *)

(* The vote of the constructor is the only one: its block leads.           *)
LEMMA OnlyVoteLeads ==
    ASSUME NEW c \in Candidate
    PROVE  Leads([[v \in Voter |-> NoVote] EXCEPT ![Anonymous] = [sequence |-> 0, block |-> c]], c)
<1> DEFINE votes == [[v \in Voter |-> NoVote] EXCEPT ![Anonymous] = [sequence |-> 0, block |-> c]]
<1>1. Anonymous \in Voter /\ Weight[Anonymous] = 0 /\ NoBlock \notin Candidate
  BY ElectionAssumption, VotesAssumption
<1>2. votes[Anonymous].block = c /\ \A v \in Voter \ {Anonymous} : votes[v].block = NoBlock
  BY <1>1 DEF NoVote
<1> HIDE DEF votes
<1>3. \A b \in Candidate, v \in Voter : VotesFor(votes, v, b) <=> v = Anonymous /\ b = c
  BY <1>1, <1>2 DEF VotesFor
<1>4. VotedFor(votes) = {c}
  BY <1>1, <1>3 DEF VotedFor
<1>5. TallyOf(votes, c) = 0
  <2> DEFINE f == [v \in {v \in Voter : VotesFor(votes, v, c)} |-> Weight[v]]
  <2>1. DOMAIN f = {Anonymous} /\ f[Anonymous] = 0
    BY <1>1, <1>3
  <2> HIDE DEF f
  <2>2. Units(f) = {}
    <3>1. 1..f[Anonymous] = {}
      BY <2>1
    <3> QED
      BY <2>1, <3>1 DEF Units
  <2>3. Cardinality({}) = 0
    BY FS_EmptySet
  <2> QED
    BY <2>2, <2>3 DEF TallyOf, Total, f
<1>6. TallyTotals(votes) = {TallyOf(votes, c)}
  BY <1>4 DEF TallyTotals
<1>7. Leads(votes, c)
  BY <1>4, <1>5, <1>6 DEF Leads
<1> QED
  BY <1>7 DEF votes

(* A call of election::vote that changes the ballots will count them, and  *)
(* one that does not leaves them.                                          *)
LEMMA BeginVoteFacts ==
    ASSUME Shape, NEW t \in VoteThread, NEW v, NEW sequence, NEW c, BeginVote(t, v, sequence, c)
    PROVE  /\ calls' = [u \in VoteThread |-> calls'[u]]
           /\ calls'[t] = [changed |-> Changed(ballots, v, sequence, c), was_confirmed |-> confirmed,
                           winner |-> NoBlock]
           /\ \A u \in VoteThread \ {t} : calls'[u] = calls[u]
           /\ ballots' = ballots \/ calls'[t].changed
<1>1. calls = [u \in VoteThread |-> calls[u]]
  BY DEF Shape
<1>2. calls' = [calls EXCEPT ![t] = [changed |-> Changed(ballots, v, sequence, c), was_confirmed |-> confirmed,
                                     winner |-> NoBlock]]
  BY DEF BeginVote
<1>3. /\ calls' = [u \in VoteThread |-> calls'[u]]
      /\ calls'[t] = [changed |-> Changed(ballots, v, sequence, c), was_confirmed |-> confirmed, winner |-> NoBlock]
      /\ \A u \in VoteThread \ {t} : calls'[u] = calls[u]
  BY <1>1, <1>2
<1>4. ~Changed(ballots, v, sequence, c) => ballots' = ballots
  BY DEF BeginVote, Counted, Changed
<1>5. calls'[t].changed = Changed(ballots, v, sequence, c)
  BY <1>3
<1> QED
  BY <1>3, <1>4, <1>5

(* So whoever votes while nobody of its thread does keeps the invariant.   *)
LEMMA BeginVoteStep ==
    ASSUME IndInv, NEW t \in VoteThread, NEW v, NEW sequence, NEW c, BeginVote(t, v, sequence, c),
           calls[t] = NoCall, last_winner # NoBlock, UNCHANGED <<last_winner, confirmed>>,
           stored' = stored, rival' = rival
    PROVE  Shape' /\ NotBegun' /\ LeadsOrCounts'
<1>1. /\ Shape /\ calls' = [u \in VoteThread |-> calls'[u]]
      /\ calls'[t] = [changed |-> Changed(ballots, v, sequence, c), was_confirmed |-> confirmed, winner |-> NoBlock]
      /\ \A u \in VoteThread \ {t} : calls'[u] = calls[u]
      /\ ballots' = ballots \/ calls'[t].changed
  BY BeginVoteFacts DEF IndInv
<1>2. calls'[t] = [changed |-> calls'[t].changed, was_confirmed |-> calls'[t].was_confirmed,
                   winner |-> calls'[t].winner]
      /\ calls'[t].was_confirmed = confirmed /\ calls'[t].winner = NoBlock
  BY <1>1
<1>3. Shape'
  BY <1>1, <1>2 DEF Shape
<1>4. NotBegun'
  BY Zenon DEF NotBegun
<1>5. LeadsOrCounts'
  <2> SUFFICES ASSUME ~confirmed PROVE Leads(ballots', last_winner) \/ \E u \in VoteThread : Counting(u)'
    BY DEF LeadsOrCounts
  <2>1. CASE calls'[t].changed
    BY <1>2, <2>1, Zenon DEF Counting
  <2>2. CASE ballots' = ballots /\ Leads(ballots, last_winner)
    BY <2>2
  <2>3. ASSUME NEW u \in VoteThread, Counting(u) PROVE Counting(u)'
    <3>1. ~NoCall.changed
      BY DEF NoCall
    <3>2. u # t
      BY <2>3, <3>1, Zenon DEF Counting
    <3>3. calls'[u] = calls[u]
      BY <1>1, <3>2, Zenon
    <3> QED
      BY <2>3, <3>3, Zenon DEF Counting
  <2> QED
    BY <1>1, <2>1, <2>2, <2>3, Zenon DEF IndInv, LeadsOrCounts
<1> QED
  BY <1>3, <1>4, <1>5

-----------------------------------------------------------------------------
(* The winner.                                                             *)

(* Each step of the election keeps the winner in the lead, or leaves       *)
(* somebody to count.                                                      *)
LEMMA WinnerStep == ASSUME IndInv, [Next]_vars PROVE IndInv'
<1>1. Shape /\ NotBegun /\ StartsOnce /\ LeadsOrCounts
  BY DEF IndInv
<1>2. ASSUME UNCHANGED <<electionVars, calls, queued>>, roots' = roots \/ ~roots',
             stored' \in Candidate \cup {NoBlock}, rival' \in Candidate \cup {NoBlock}
      PROVE  IndInv'
  <2>1. UNCHANGED <<ballots, last_winner, confirmed, calls, queued>>
    BY <1>2 DEF electionVars
  <2>2. Shape' /\ NotBegun' /\ StartsOnce'
    BY <1>1, <1>2, <2>1 DEF Shape, NotBegun, StartsOnce
  <2>3. LeadsOrCounts'
    BY <1>1, <2>1 DEF LeadsOrCounts, Counting
  <2> QED
    BY <2>2, <2>3 DEF IndInv
<1>3. ASSUME NEW c \in Candidate, Arrive(c) \/ Publish(c) \/ Undo(c) PROVE IndInv'
  BY <1>1, <1>2, <1>3 DEF Arrive, Publish, Undo, scheduleVars, Shape
<1>4. CASE FindRival \/ StartAsserts \/ Tick \/ NodeStop
  BY <1>1, <1>2, <1>4 DEF FindRival, StartAsserts, Tick, NodeStop, scheduleVars, ledgerVars, Shape
<1>5. CASE StartNew
  <2>1. /\ rival # NoBlock /\ last_winner = NoBlock /\ stored = rival
        /\ ballots' = [ballots EXCEPT ![Anonymous] = [sequence |-> 0, block |-> rival]]
        /\ last_winner' = rival /\ rival' = NoBlock /\ queued' = {"start"}
        /\ UNCHANGED <<stored, confirmed, calls>>
    BY <1>5 DEF StartNew, ledgerVars
  <2>2. rival \in Candidate /\ ballots = [v \in Voter |-> NoVote] /\ \A t \in VoteThread : calls[t] = NoCall
    BY <1>1, <2>1 DEF Shape, NotBegun
  <2>3. Leads(ballots', last_winner')
    BY <2>1, <2>2, OnlyVoteLeads
  <2>4. Shape' /\ NotBegun'
    BY <1>1, <2>1 DEF Shape, NotBegun
  <2>5. StartsOnce'
    BY <2>1, <2>2 DEF StartsOnce, VoteThread
  <2> QED
    BY <2>3, <2>4, <2>5 DEF IndInv, LeadsOrCounts
<1>6. ASSUME NEW v \in Voter, NEW sequence \in Sequence, NEW c \in Candidate, Update(v, sequence, c) PROVE IndInv'
  <2>1. /\ calls["network"] = NoCall /\ roots /\ BeginVote("network", v, sequence, c)
        /\ UNCHANGED <<stored, rival, last_winner, confirmed, queued>>
    BY <1>6 DEF Update, Unlocked, ledgerVars, scheduleVars
  <2>2. last_winner # NoBlock
    BY <1>1, <2>1 DEF NotBegun
  <2>3. Shape' /\ NotBegun' /\ LeadsOrCounts'
    BY <2>1, <2>2, BeginVoteStep DEF VoteThread
  <2>4. calls'["service"] = calls["service"]
    BY <1>1, <2>1, BeginVoteFacts, Zenon DEF VoteThread
  <2>5. StartsOnce'
    BY <1>1, <2>1, <2>4, Zenon DEF StartsOnce
  <2> QED
    BY <2>3, <2>5 DEF IndInv
<1>7. CASE Start
  <2>1. /\ "start" \in queued /\ calls["service"] = NoCall
        /\ queued' = (queued \ {"start"}) \cup {"schedule"}
        /\ UNCHANGED <<stored, rival, roots, last_winner, confirmed>>
    BY <1>1, <1>7 DEF Start, StartsOnce, ledgerVars
  <2>2. last_winner # NoBlock
    BY <1>1, <2>1 DEF NotBegun
  <2>3. StartsOnce'
    BY <2>1 DEF StartsOnce
  <2>4. CASE UNCHANGED <<ballots, calls>>
    <3>1. Shape' /\ NotBegun'
      BY <1>1, <2>1, <2>2, <2>4 DEF Shape, NotBegun
    <3>2. LeadsOrCounts'
      BY <1>1, <2>1, <2>4 DEF LeadsOrCounts, Counting
    <3> QED
      BY <2>3, <3>1, <3>2 DEF IndInv
  <2>5. ASSUME NEW v \in Local, BeginVote("service", v, 0, last_winner) PROVE IndInv'
    BY <2>1, <2>2, <2>3, <2>5, BeginVoteStep DEF IndInv, VoteThread
  <2> QED
    BY <1>7, <2>4, <2>5 DEF Start
<1>8. ASSUME NEW t \in VoteThread, NEW c \in Candidate, CountVotes(t, c) PROVE IndInv'
  <2>1. /\ Counting(t) /\ Leads(ballots, c) /\ calls' = [calls EXCEPT ![t].winner = c]
        /\ last_winner' = c /\ UNCHANGED <<rival, ballots, queued>>
        /\ stored' \in Candidate \cup {NoBlock}
    BY <1>1, <1>8 DEF CountVotes, FoundWinner, scheduleVars, Shape
  <2>2. c # NoBlock /\ calls[t] # NoCall
    BY <2>1, VotesAssumption DEF Counting, NoCall
  <2>3. /\ calls' = [u \in VoteThread |-> calls'[u]]
        /\ calls'[t] = [changed |-> calls[t].changed, was_confirmed |-> calls[t].was_confirmed, winner |-> c]
        /\ \A u \in VoteThread \ {t} : calls'[u] = calls[u]
    BY <1>1, <2>1 DEF Shape
  <2>4. Shape'
    <3>1. calls'[t] = [changed |-> calls'[t].changed, was_confirmed |-> calls'[t].was_confirmed,
                       winner |-> calls'[t].winner]
      BY <2>3
    <3> QED
      BY <1>1, <2>1, <2>3, <3>1 DEF Shape
  <2>5. StartsOnce'
    BY <1>1, <2>1, <2>2, <2>3 DEF StartsOnce
  <2> QED
    BY <2>1, <2>2, <2>4, <2>5 DEF IndInv, NotBegun, LeadsOrCounts
<1>9. ASSUME NEW t \in VoteThread, NEW c \in Candidate, CountVotesAsserts(t, c) PROVE IndInv'
  BY <1>1, <1>2, <1>9 DEF CountVotesAsserts, scheduleVars, ledgerVars, Shape
<1>10. ASSUME NEW t \in VoteThread, EndVote(t) PROVE IndInv'
  <2>1. /\ calls' = [calls EXCEPT ![t] = NoCall] /\ ~Counting(t)
        /\ UNCHANGED <<stored, rival, roots, ballots, last_winner, confirmed, queued>>
    BY <1>10 DEF EndVote, ledgerVars, electionVars, scheduleVars
  <2>2. calls' = [u \in VoteThread |-> calls'[u]] /\ calls'[t] = NoCall /\ \A u \in VoteThread \ {t} : calls'[u] = calls[u]
    BY <1>1, <2>1 DEF Shape
  <2>3. Shape'
    <3>1. calls'[t] = [changed |-> calls'[t].changed, was_confirmed |-> calls'[t].was_confirmed,
                       winner |-> calls'[t].winner]
      BY <2>2 DEF NoCall
    <3> QED
      BY <1>1, <2>1, <2>2, <3>1 DEF Shape
  <2>4. NotBegun' /\ StartsOnce'
    BY <1>1, <2>1, <2>2 DEF NotBegun, StartsOnce
  <2>5. \A u \in VoteThread : Counting(u) => Counting(u)'
    BY <2>1, <2>2 DEF Counting
  <2>6. LeadsOrCounts'
    BY <1>1, <2>1, <2>5 DEF LeadsOrCounts
  <2> QED
    BY <2>3, <2>4, <2>6 DEF IndInv
<1>11. ASSUME UNCHANGED <<stored, rival, electionVars, calls>>, roots' = roots \/ ~roots',
              queued' \subseteq queued \cup {"timeout"}, queued # {} \/ queued' = {}
       PROVE  IndInv'
  <2>1. UNCHANGED <<ballots, last_winner, confirmed, calls>>
    BY <1>11 DEF electionVars
  <2>2. Shape' /\ NotBegun' /\ StartsOnce'
    BY <1>1, <1>11, <2>1 DEF Shape, NotBegun, StartsOnce
  <2>3. LeadsOrCounts'
    BY <1>1, <2>1 DEF LeadsOrCounts, Counting
  <2> QED
    BY <2>2, <2>3 DEF IndInv
<1>12. CASE Schedule \/ ServiceStop
  BY <1>11, <1>12 DEF Schedule, ServiceStop, ledgerVars
<1>13. ASSUME NEW operation \in {"schedule", "timeout"}, Timeout(operation) PROVE IndInv'
  BY <1>11, <1>13 DEF Timeout, Expired, ledgerVars
<1>14. CASE UNCHANGED vars
  BY <1>1, <1>2, <1>14 DEF vars, scheduleVars, ledgerVars, Shape
<1> QED
  BY <1>3, <1>4, <1>5, <1>6, <1>7, <1>8, <1>9, <1>10, <1>12, <1>13, <1>14 DEF Next

-----------------------------------------------------------------------------
(* The confirmation.                                                       *)

(* Only the network thread votes.  What confirmation_action was queued for *)
(* is the winner, and a call that has yet to end knows whether it is to    *)
(* queue it.                                                               *)
ConfirmInv ==
    LET call == calls["network"]
    IN /\ calls["service"] = NoCall /\ confirmed \in BOOLEAN
       /\ last_winner = NoBlock => ~confirmed
       /\ confirmations = <<>> \/ (confirmed /\ confirmations = <<last_winner>>)
       /\ call = NoCall => (confirmed => confirmations # <<>>)
       /\ call # NoCall /\ call.was_confirmed => confirmed /\ confirmations # <<>>
       /\ call # NoCall /\ ~call.was_confirmed =>
             confirmations = <<>> /\ (confirmed => call.winner = last_winner)

(* A step that leaves the calls and the winner alone.                      *)
LEMMA ConfirmKept ==
    ASSUME ConfirmInv, UNCHANGED <<electionVars, calls, confirmations>> PROVE ConfirmInv'
  BY DEF ConfirmInv, electionVars

(* A confirmation is queued by the call that confirmed, and by no other.   *)
LEMMA ConfirmStep == ASSUME Local = {}, IndInv, ConfirmInv, [Next]_vars PROVE ConfirmInv'
<1>1. Shape /\ NotBegun
  BY DEF IndInv
<1> DEFINE call == calls["network"]
<1>2. /\ calls["service"] = NoCall /\ confirmed \in BOOLEAN
      /\ last_winner = NoBlock => ~confirmed
      /\ confirmations = <<>> \/ (confirmed /\ confirmations = <<last_winner>>)
      /\ call = NoCall => (confirmed => confirmations # <<>>)
      /\ call # NoCall /\ call.was_confirmed => confirmed /\ confirmations # <<>>
      /\ call # NoCall /\ ~call.was_confirmed =>
            confirmations = <<>> /\ (confirmed => call.winner = last_winner)
  BY DEF ConfirmInv
<1>3. ASSUME NEW c \in Candidate, Arrive(c) \/ Publish(c) \/ Undo(c) PROVE ConfirmInv'
  BY <1>3, ConfirmKept DEF Arrive, Publish, Undo
<1>4. CASE FindRival \/ StartAsserts \/ Tick \/ NodeStop \/ Schedule \/ ServiceStop
  BY <1>4, ConfirmKept DEF FindRival, StartAsserts, Tick, NodeStop, Schedule, ServiceStop
<1>5. CASE StartNew
  <2>1. last_winner = NoBlock /\ UNCHANGED <<confirmed, calls, confirmations>>
    BY <1>5 DEF StartNew
  <2>2. \A t \in VoteThread : calls[t] = NoCall
    BY <1>1, <2>1 DEF NotBegun
  <2>3. confirmations = <<>>
    BY <1>2, <2>1
  <2> QED
    BY <1>2, <2>1, <2>2, <2>3 DEF ConfirmInv
<1>6. ASSUME NEW v \in Voter, NEW sequence \in Sequence, NEW c \in Candidate, Update(v, sequence, c)
      PROVE  ConfirmInv'
  <2>1. /\ calls["network"] = NoCall /\ BeginVote("network", v, sequence, c)
        /\ UNCHANGED <<last_winner, confirmed, confirmations>>
    BY <1>6 DEF Update, Unlocked
  <2>2. /\ calls'["network"].was_confirmed = confirmed
        /\ calls'["service"] = calls["service"]
    <3>1. /\ calls'["network"] = [changed |-> Changed(ballots, v, sequence, c), was_confirmed |-> confirmed,
                                  winner |-> NoBlock]
          /\ calls'["service"] = calls["service"]
      BY <1>1, <2>1, BeginVoteFacts DEF VoteThread
    <3>2. \A r, x, y, z : r = [changed |-> x, was_confirmed |-> y, winner |-> z] => r.was_confirmed = y
      OBVIOUS
    <3> QED
      BY <3>1, <3>2, Zenon
  <2>3. confirmed => confirmations # <<>>
    BY <1>2, <2>1
  <2>4. ~confirmed => confirmations = <<>>
    BY <1>2
  <2> QED
    BY <1>2, <2>1, <2>2, <2>3, <2>4 DEF ConfirmInv
<1>7. CASE Start
  BY <1>7, ConfirmKept DEF Start, electionVars
<1>8. ASSUME NEW t \in VoteThread, NEW c \in Candidate, CountVotes(t, c) PROVE ConfirmInv'
  <2>1. /\ Counting(t) /\ calls' = [calls EXCEPT ![t].winner = c]
        /\ last_winner' = c /\ confirmed' = (confirmed \/ Enough(ballots, c)) /\ confirmations' = confirmations
    BY <1>8 DEF CountVotes, FoundWinner
  <2>2. t = "network" /\ call # NoCall /\ ~call.was_confirmed /\ call.winner = NoBlock
    <3>1. calls[t] # NoCall
      BY <2>1 DEF Counting, NoCall
    <3> QED
      BY <1>2, <2>1, <3>1 DEF Counting, VoteThread
  <2>3. /\ calls'["service"] = calls["service"]
        /\ calls'["network"] = [changed |-> call.changed, was_confirmed |-> call.was_confirmed, winner |-> c]
    BY <1>1, <2>1, <2>2 DEF Shape, VoteThread
  <2>4. ~calls'["network"].was_confirmed /\ calls'["network"].winner = c
    BY <2>2, <2>3
  <2>5. calls'["network"] # NoCall
    BY <2>4 DEF NoCall
  <2>6. confirmed' \in BOOLEAN /\ last_winner' # NoBlock
    BY <2>1, VotesAssumption DEF Enough
  <2> QED
    BY <1>2, <2>1, <2>2, <2>3, <2>4, <2>5, <2>6 DEF ConfirmInv
<1>9. ASSUME NEW t \in VoteThread, NEW c \in Candidate, CountVotesAsserts(t, c) PROVE ConfirmInv'
  BY <1>9, ConfirmKept DEF CountVotesAsserts
<1>10. ASSUME NEW t \in VoteThread, EndVote(t) PROVE ConfirmInv'
  <2>1. /\ calls[t] # NoCall /\ calls' = [calls EXCEPT ![t] = NoCall]
        /\ confirmations' = IF ~calls[t].was_confirmed /\ confirmed
                            THEN Append(confirmations, calls[t].winner) ELSE confirmations
        /\ UNCHANGED <<last_winner, confirmed>>
    BY <1>10 DEF EndVote, electionVars
  <2>2. t = "network"
    BY <1>2, <2>1 DEF VoteThread
  <2>3. calls'["service"] = calls["service"] /\ calls'["network"] = NoCall
    BY <1>1, <2>1, <2>2 DEF Shape, VoteThread
  <2>4. CASE ~call.was_confirmed /\ confirmed
    <3>1. confirmations' = Append(<<>>, last_winner)
      BY <1>2, <2>1, <2>2, <2>4, Zenon
    <3>2. confirmations' = <<last_winner>> /\ confirmations' # <<>>
      BY <3>1
    <3> QED
      BY <1>2, <2>1, <2>3, <2>4, <3>2, Zenon DEF ConfirmInv
  <2>5. CASE call.was_confirmed \/ ~confirmed
    BY <1>2, <2>1, <2>2, <2>3, <2>5 DEF ConfirmInv
  <2> QED
    BY <2>4, <2>5
<1>11. ASSUME NEW operation \in {"schedule", "timeout"}, Timeout(operation) PROVE ConfirmInv'
  BY <1>11, ConfirmKept DEF Timeout
<1>12. CASE UNCHANGED vars
  BY <1>12, ConfirmKept DEF vars
<1> QED
  BY <1>3, <1>4, <1>5, <1>6, <1>7, <1>8, <1>9, <1>10, <1>11, <1>12 DEF Next

-----------------------------------------------------------------------------
(* The theorems.                                                           *)

(* What the winner's lead rests on holds at every step.                    *)
THEOREM Invariance == Spec => []IndInv
<1>1. Init => IndInv
  <2> SUFFICES ASSUME Init PROVE IndInv
    OBVIOUS
  <2>1. \A t \in VoteThread : calls[t] = NoCall
    BY DEF Init
  <2>2. Shape
    BY <2>1, Zenon DEF Init, Shape, NoCall
  <2> QED
    BY <2>1, <2>2 DEF Init, IndInv, NotBegun, StartsOnce, LeadsOrCounts
<1>2. IndInv /\ [Next]_vars => IndInv'
  BY WinnerStep
<1> QED
  BY <1>1, <1>2, PTL DEF Spec

(* Whenever no vote is being counted and the election is open its winner   *)
(* is a block that no other has more weight than, however many candidates  *)
(* and voters there are and although the service thread votes without the  *)
(* mutex (election::vote, ledger::tally).                                  *)
THEOREM WinnerAlwaysLeads == Spec => []WinnerLeads
<1>1. IndInv => WinnerLeads
  <2>1. \A t \in VoteThread : calls[t] = NoCall => ~Counting(t)
    BY DEF Counting, NoCall
  <2> QED
    BY <2>1 DEF IndInv, LeadsOrCounts, WinnerLeads
<1> QED
  BY <1>1, Invariance, PTL

(* confirmation_action is queued once, for the winner, and the winner does *)
(* not change after that, in a node without a representative of its own.   *)
THEOREM ConfirmedOnlyOnce == ASSUME Local = {} PROVE Spec => []ConfirmedOnce
<1>1. Init => ConfirmInv
  BY Zenon DEF Init, ConfirmInv, VoteThread
<1>2. IndInv /\ ConfirmInv /\ [Next]_vars => ConfirmInv'
  BY ConfirmStep
<1>3. ConfirmInv => ConfirmedOnce
  <2> SUFFICES ASSUME ConfirmInv PROVE ConfirmedOnce
    OBVIOUS
  <2>1. confirmations = <<>> \/ (confirmed /\ confirmations = <<last_winner>>)
    BY DEF ConfirmInv
  <2>2. /\ Len(confirmations) <= 1
        /\ confirmations # <<>> => confirmed /\ confirmations[1] = last_winner
    BY <2>1
  <2>3. confirmed /\ Unlocked => confirmations # <<>>
    BY DEF ConfirmInv, Unlocked
  <2> QED
    BY <2>2, <2>3 DEF ConfirmedOnce
<1> QED
  BY <1>1, <1>2, <1>3, Invariance, PTL DEF Spec
=============================================================================

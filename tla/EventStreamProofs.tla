-------------------------- MODULE EventStreamProofs --------------------------
(***************************************************************************)
(* The push channel, proved for any number of emitters, runs and clients,   *)
(* queues of any size and logs of any length.                               *)
(*                                                                          *)
(* StreamFaithful is not inductive: that an emitter's row takes the next    *)
(* number, and that a frame continues what its client holds, follow from    *)
(* who has the router's lock and how far the broadcast under it has come.   *)
(* StreamInvariant says both: EmitterStory of each emitter, ClientStory of  *)
(* each client.                                                             *)
(***************************************************************************)
EXTENDS EventStream, SequenceTheorems, FiniteSetTheorems, TLAPS

Rows == [run : Runs, seq : Nat]
Calls == [at : {"idle", "wait", "insert", "notify", "send", "close"}, run : SUBSET Runs,
          row : Nat, todo : SUBSET Clients, dead : SUBSET Clients]

StreamTypes ==
    /\ log \in Seq(Rows)
    /\ em \in [Emitters -> Calls]
    /\ lock \in SUBSET Emitters
    /\ clients \in SUBSET Clients
    /\ DOMAIN phase = Clients
    /\ closed \in [Clients -> BOOLEAN]
    /\ queue \in [Clients -> Seq(Nat)]
    /\ got \in [Clients -> Seq(Nat)]
    /\ since \in [Clients -> Nat]

\* The places in emit where the router's lock is held.
Holding == {"insert", "notify", "send", "close"}

\* Where emitter e is, whether it has the lock, and what its row stands for:
\* the number it is about to use, then the position of the row it wrote, which
\* stays the last one while the lock is held.
EmitterStory(e) ==
    /\ em[e].at \in Holding <=> lock = {e}
    /\ em[e].at \notin {"send", "close"} => em[e].todo = {} /\ em[e].dead = {}
    /\ em[e].todo \cap em[e].dead = {}
    /\ \A r, s \in em[e].run : r = s
    /\ em[e].at = "insert" => \A r \in em[e].run : em[e].row = NextSeq(r)
    /\ em[e].at \in {"notify", "send", "close"} => em[e].row = Len(log)

\* A stretch of the log.
InOrder(s) == \A i \in 1 .. Len(s) : s[i] = s[1] + (i - 1)

\* A client that has not been registered, and one that a send has failed for.
Absent(c) == phase[c] \in {"away", "handshake", "refused", "tracked"}
Failing(c) == \E e \in Emitters : c \in em[e].dead

\* A client holds a stretch of the log that, as long as it is open and no send
\* to it failed, starts no later than its registration and ends with the last
\* event that was due to it.
UpToDate(c) ==
    IF Held(c) = << >> THEN Due(c) <= since[c]
    ELSE Held(c)[1] <= since[c] + 1 /\ Held(c)[Len(Held(c))] = Due(c)

ClientStory(c) ==
    /\ InOrder(Held(c))
    /\ Absent(c) => /\ Held(c) = << >> /\ c \notin clients
                    /\ \A e \in Emitters : c \notin em[e].todo \cup em[e].dead
    /\ ~Absent(c) /\ ~closed[c] /\ ~Failing(c) => c \in clients /\ UpToDate(c)

StreamInvariant ==
    /\ StreamTypes /\ RunsNumbered
    /\ \A e \in Emitters : EmitterStory(e)
    /\ \A c \in Clients : ClientStory(c)

(***************************************************************************)
(* Sequences                                                               *)
(***************************************************************************)

\* The first part of a stretch is a stretch.
LEMMA PrefixInOrder ==
    ASSUME NEW s \in Seq(Nat), NEW t \in Seq(Nat), InOrder(s \o t)
    PROVE  InOrder(s)
<1>. DEFINE m == Len(s)
            n == Len(t)
<1>1. /\ m \in Nat /\ n \in Nat /\ Len(s \o t) = m + n
      /\ \A i \in 1 .. m + n : (s \o t)[i] = IF i <= m THEN s[i] ELSE t[i - m]
  BY ConcatProperties
<1>2. \A i \in 1 .. m + n : (s \o t)[i] = (s \o t)[1] + (i - 1)
  BY <1>1 DEF InOrder
<1>. HIDE DEF m, n
<1>3. \A i \in 1 .. m : i \in 1 .. m + n /\ 1 \in 1 .. m + n /\ i <= m /\ 1 <= m
  BY <1>1
<1>4. \A i \in 1 .. m : s[i] = s[1] + (i - 1)
  BY <1>1, <1>2, <1>3
<1>. QED
  BY <1>4 DEF InOrder, m

\* Appending to the queue appends to what the client holds.
LEMMA AppendToHeld ==
    ASSUME NEW s \in Seq(Nat), NEW t \in Seq(Nat), NEW x \in Nat
    PROVE  s \o Append(t, x) = Append(s \o t, x)
OBVIOUS

\* A frame between two sequences belongs to the end of the first or to the
\* beginning of the second.
LEMMA FrameMoves ==
    ASSUME NEW s \in Seq(Nat), NEW t \in Seq(Nat), NEW x \in Nat
    PROVE  Append(s, x) \o t = s \o (<<x>> \o t)
OBVIOUS

\* Moving the first of the queue to the socket changes nothing of it.
LEMMA MoveHeld ==
    ASSUME NEW s \in Seq(Nat), NEW t \in Seq(Nat), t /= << >>
    PROVE  /\ Append(s, Head(t)) \o Tail(t) = s \o t
           /\ Append(s, Head(t)) \in Seq(Nat) /\ Tail(t) \in Seq(Nat)
<1>1. Head(t) \in Nat /\ Tail(t) \in Seq(Nat)
  BY HeadTailProperties
<1>2. t = <<Head(t)>> \o Tail(t)
  BY <1>1
<1>3. Append(s, Head(t)) \in Seq(Nat)
  BY <1>1, AppendProperties
<1>4. Append(s, Head(t)) \o Tail(t) = s \o (<<Head(t)>> \o Tail(t))
  <2>. DEFINE h == Head(t)
              u == Tail(t)
  <2>1. h \in Nat /\ u \in Seq(Nat)
    BY <1>1
  <2>. HIDE DEF h, u
  <2>2. Append(s, h) \o u = s \o (<<h>> \o u)
    BY <2>1, FrameMoves
  <2>. QED
    BY <2>2 DEF h, u
<1>. QED
  BY <1>1, <1>2, <1>3, <1>4

\* The next event continues a stretch.
LEMMA AppendInOrder ==
    ASSUME NEW s \in Seq(Nat), NEW x \in Nat, InOrder(s),
           s /= << >> => s[Len(s)] = x - 1
    PROVE  /\ InOrder(Append(s, x)) /\ Append(s, x) /= << >>
           /\ Append(s, x)[Len(Append(s, x))] = x
           /\ Append(s, x)[1] = IF s = << >> THEN x ELSE s[1]
<1>. DEFINE m == Len(s)
            t == Append(s, x)
<1>1. /\ m \in Nat /\ Len(t) = m + 1 /\ t /= << >>
      /\ \A i \in 1 .. m : t[i] = s[i] /\ s[i] \in Nat
      /\ t[m + 1] = x
  <2>1. m \in Nat /\ \A i \in 1 .. m : s[i] \in Nat
    BY ElementOfSeq
  <2>. QED
    BY <2>1, AppendProperties
<1>2. s = << >> <=> m = 0
  OBVIOUS
<1>3. \A i \in 1 .. m : s[i] = s[1] + (i - 1)
  BY DEF InOrder
<1>4. m /= 0 => s[m] = x - 1
  BY <1>2
<1>. HIDE DEF m, t
<1>5. t[1] = IF m = 0 THEN x ELSE s[1]
  BY <1>1
<1>6. \A i \in 1 .. m + 1 : t[i] = t[1] + (i - 1)
  <2>1. CASE m = 0
    BY <1>1, <2>1
  <2>2. CASE m /= 0
    <3>1. m \in 1 .. m /\ 1 \in 1 .. m
      BY <1>1, <2>2
    <3>2. s[1] \in Nat /\ s[m] = s[1] + (m - 1)
      BY <1>1, <1>3, <3>1
    <3>3. x = s[1] + m
      BY <1>1, <1>4, <2>2, <3>2
    <3>4. \A i \in 1 .. m + 1 : i \in 1 .. m \/ i = m + 1
      BY <1>1
    <3>5. t[1] = s[1]
      BY <1>5, <2>2
    <3>6. t[m + 1] = t[1] + ((m + 1) - 1)
      BY <1>1, <3>2, <3>3, <3>5
    <3>7. \A i \in 1 .. m : t[i] = t[1] + (i - 1)
      BY <1>1, <1>3, <3>5
    <3>. HIDE DEF m
    <3>. QED
      BY <3>4, <3>6, <3>7
  <2>. QED
    BY <2>1, <2>2
<1>. QED
  BY <1>1, <1>2, <1>5, <1>6 DEF InOrder, t

\* A stretch has every event between its first and its last.
LEMMA InOrderCovers ==
    ASSUME NEW s \in Seq(Nat), InOrder(s), s /= << >>, NEW x \in Int,
           s[1] <= x, x <= s[Len(s)]
    PROVE  x \in Range(s)
<1>. DEFINE m == Len(s)
<1>1. m \in Nat /\ m >= 1 /\ DOMAIN s = 1 .. m
  OBVIOUS
<1>2. s[1] \in Nat /\ \A i \in 1 .. m : s[i] = s[1] + (i - 1)
  BY <1>1 DEF InOrder
<1>3. s[1] <= x /\ x <= s[m]
  OBVIOUS
<1>. HIDE DEF m
<1>4. s[m] = s[1] + (m - 1)
  BY <1>1, <1>2
<1>. DEFINE i == x - s[1] + 1
<1>5. i \in 1 .. m
  BY <1>1, <1>2, <1>3, <1>4
<1>6. s[i] = x
  BY <1>2, <1>5
<1>. HIDE DEF i
<1>. QED
  BY <1>1, <1>5, <1>6 DEF Range

\* What a client holds is a sequence of positions.
LEMMA HeldIsSeq ==
    ASSUME StreamTypes, NEW c \in Clients
    PROVE  Held(c) \in Seq(Nat) /\ got[c] \in Seq(Nat) /\ queue[c] \in Seq(Nat)
<1>1. got[c] \in Seq(Nat) /\ queue[c] \in Seq(Nat)
  BY DEF StreamTypes
<1>. QED
  BY <1>1, ConcatProperties DEF Held

(***************************************************************************)
(* The invariant implies the property                                      *)
(***************************************************************************)

\* A client that is up to date has every event between its registration and
\* the last one due.
LEMMA InvariantIsFaithful ==
    ASSUME StreamInvariant
    PROVE  StreamFaithful
<1>1. RunsNumbered
  BY DEF StreamInvariant
<1>2. ASSUME NEW c \in Clients
      PROVE  \A i \in 1 .. (Len(Held(c)) - 1) : Held(c)[i + 1] = Held(c)[i] + 1
  <2>. DEFINE s == Held(c)
              m == Len(s)
  <2>1. s \in Seq(Nat) /\ InOrder(s)
    BY HeldIsSeq DEF StreamInvariant, ClientStory
  <2>. HIDE DEF s
  <2>2. m \in Nat /\ (\A i \in 1 .. m : s[i] \in Nat) /\ \A i \in 1 .. m : s[i] = s[1] + (i - 1)
    BY <2>1, ElementOfSeq DEF InOrder
  <2>. HIDE DEF m
  <2>3. \A i \in 1 .. m - 1 : i \in 1 .. m /\ i + 1 \in 1 .. m /\ 1 \in 1 .. m
    BY <2>2
  <2>4. \A i \in 1 .. m - 1 : s[i + 1] = s[i] + 1
    BY <2>2, <2>3
  <2>. QED
    BY <2>4 DEF s, m
<1>3. ASSUME NEW c \in Clients, c \in clients, ~closed[c],
             \A e \in Emitters : c \notin em[e].dead
      PROVE  (since[c] + 1) .. Due(c) \subseteq Range(Held(c))
  <2>. DEFINE s == Held(c)
  <2>1. s \in Seq(Nat) /\ InOrder(s) /\ since[c] \in Nat
    BY HeldIsSeq DEF StreamInvariant, ClientStory, StreamTypes
  <2>2. ~Absent(c) /\ ~Failing(c)
    BY <1>3 DEF StreamInvariant, ClientStory, Failing
  <2>3. UpToDate(c)
    BY <1>3, <2>2 DEF StreamInvariant, ClientStory
  <2>4. Due(c) \in Int
    BY DEF Due, StreamInvariant, StreamTypes
  <2>5. CASE s = << >>
    BY <2>1, <2>3, <2>4, <2>5 DEF UpToDate
  <2>6. CASE s /= << >>
    <3>1. s[1] <= since[c] + 1 /\ s[Len(s)] = Due(c)
      BY <2>3, <2>6 DEF UpToDate
    <3>2. s[1] \in Nat
      BY <2>1, <2>6
    <3>. HIDE DEF s
    <3>3. ASSUME NEW x \in (since[c] + 1) .. Due(c)
          PROVE  x \in Range(s)
      <4>1. x \in Int /\ s[1] <= x /\ x <= s[Len(s)]
        BY <2>1, <2>4, <3>1, <3>2
      <4>. QED
        BY <2>1, <2>6, <4>1, InOrderCovers
    <3>. QED
      BY <3>3 DEF s
  <2>. QED
    BY <2>5, <2>6
<1>. QED
  BY <1>1, <1>2, <1>3 DEF StreamFaithful

(***************************************************************************)
(* The router                                                              *)
(***************************************************************************)

\* While an emitter has the lock, nobody else is past it.
LEMMA Alone ==
    ASSUME StreamInvariant, NEW e \in Emitters, em[e].at \in Holding,
           NEW f \in Emitters, f /= e
    PROVE  em[f].at \in {"idle", "wait"} /\ em[f].todo = {} /\ em[f].dead = {}
<1>1. EmitterStory(e) /\ EmitterStory(f)
  BY DEF StreamInvariant
<1>2. lock = {e}
  BY <1>1 DEF EmitterStory
<1>3. em[f].at \notin Holding
  BY <1>1, <1>2 DEF EmitterStory
<1>4. em[f] \in Calls
  BY DEF StreamInvariant, StreamTypes
<1>. QED
  BY <1>1, <1>3, <1>4 DEF EmitterStory, Calls, Holding

\* A step of emitter e that hands the lock to nobody else leaves the others'
\* stories true.
LEMMA OthersStand ==
    ASSUME StreamInvariant, NEW e \in Emitters, NEW x \in Calls,
           em' = [em EXCEPT ![e] = x],
           \/ UNCHANGED <<log, lock>>
           \/ /\ lock' \in {{}, {e}}
              /\ \A f \in Emitters \ {e} : em[f].at \in {"idle", "wait"}
    PROVE  /\ em' \in [Emitters -> Calls] /\ em'[e] = x
           /\ \A f \in Emitters \ {e} : em'[f] = em[f] /\ EmitterStory(f)'
<1>1. em \in [Emitters -> Calls]
  BY DEF StreamInvariant, StreamTypes
<1>2. /\ em' \in [Emitters -> Calls] /\ em'[e] = x
      /\ \A f \in Emitters \ {e} : em'[f] = em[f]
  BY <1>1
<1>3. ASSUME NEW f \in Emitters \ {e} PROVE EmitterStory(f)'
  <2>1. EmitterStory(f) /\ em'[f] = em[f]
    BY <1>2 DEF StreamInvariant
  <2>2. CASE UNCHANGED <<log, lock>>
    <3>1. \A r : NextSeq(r)' = NextSeq(r)
      BY <2>2 DEF NextSeq
    <3>. QED
      BY <2>1, <2>2, <3>1 DEF EmitterStory
  <2>3. CASE lock' \in {{}, {e}} /\ em[f].at \in {"idle", "wait"}
    <3>1. lock' /= {f}
      BY <2>3
    <3>. QED
      BY <2>1, <2>3, <3>1 DEF EmitterStory, Holding
  <2>. QED
    BY <2>2, <2>3
<1>. QED
  BY <1>2, <1>3

\* A client that a step neither writes to nor closes, and to which the same
\* events are due, keeps its story.
LEMMA ClientStands ==
    ASSUME StreamInvariant, NEW c \in Clients,
           phase'[c] = phase[c], closed'[c] = closed[c], queue'[c] = queue[c],
           got'[c] = got[c], since'[c] = since[c], clients' \subseteq clients,
           \A e \in Emitters : c \in em'[e].todo \cup em'[e].dead =>
                c \in clients \/ \E f \in Emitters : c \in em[f].todo \cup em[f].dead,
           ~Failing(c)' => ~Failing(c),
           c \in clients /\ ~closed[c] /\ ~Failing(c)' => c \in clients' /\ Due(c)' = Due(c)
    PROVE  ClientStory(c)'
<1>1. ClientStory(c)
  BY DEF StreamInvariant
<1>2. Held(c)' = Held(c) /\ (Absent(c)' <=> Absent(c))
  BY DEF Held, Absent
<1>3. InOrder(Held(c))'
  BY <1>1, <1>2 DEF ClientStory, InOrder
<1>4. Absent(c)' => /\ Held(c)' = << >> /\ c \notin clients'
                    /\ \A e \in Emitters : c \notin em'[e].todo \cup em'[e].dead
  BY <1>1, <1>2 DEF ClientStory
<1>5. ~Absent(c)' /\ ~closed'[c] /\ ~Failing(c)' => c \in clients' /\ UpToDate(c)'
  BY <1>1, <1>2 DEF ClientStory, UpToDate
<1>. QED
  BY <1>3, <1>4, <1>5 DEF ClientStory

\* Where nobody is waited for, the last row is due.
LEMMA DueDepends ==
    ASSUME NEW c \in Clients, Len(log') = Len(log),
           \A e \in Emitters : em'[e].at = "notify" <=> em[e].at = "notify",
           \A e \in Emitters : c \in em'[e].todo <=> c \in em[e].todo
    PROVE  Due(c)' = Due(c)
BY DEF Due

\* The rows of a run, counted.
LEMMA CountRows ==
    ASSUME NEW s \in Seq(Rows), NEW n \in 0 .. Len(s), NEW r
    PROVE  /\ IsFiniteSet({j \in 1 .. n : s[j].run = r})
           /\ Cardinality({j \in 1 .. n : s[j].run = r}) \in Nat
<1>1. IsFiniteSet(1 .. n)
  BY FS_Interval
<1>2. {j \in 1 .. n : s[j].run = r} \in SUBSET (1 .. n)
  OBVIOUS
<1>3. IsFiniteSet({j \in 1 .. n : s[j].run = r})
  BY <1>1, <1>2, FS_Subset
<1>. QED
  BY <1>3, FS_CardinalityType

\* A row that takes the next number of its run keeps the runs numbered.
LEMMA NumberedStep ==
    ASSUME log \in Seq(Rows), RunsNumbered, NEW r \in Runs,
           log' = Append(log, [run |-> r, seq |-> NextSeq(r)])
    PROVE  RunsNumbered' /\ log' \in Seq(Rows) /\ Len(log') = Len(log) + 1
<1>. DEFINE n == Len(log)
            S == {j \in 1 .. n : log[j].run = r}
            row == [run |-> r, seq |-> NextSeq(r)]
<1>1. n \in Nat /\ DOMAIN log = 1 .. n
  OBVIOUS
<1>2. /\ IsFiniteSet(S) /\ Cardinality(S) \in Nat /\ NextSeq(r) = Cardinality(S) + 1
  <2>1. n \in 0 .. n
    <3>. HIDE DEF n
    <3>. QED
      BY <1>1
  <2>2. IsFiniteSet(S) /\ Cardinality(S) \in Nat
    BY <2>1, CountRows
  <2>3. {i \in DOMAIN log : log[i].run = r} = S
    BY <1>1
  <2>. HIDE DEF S
  <2>. QED
    BY <2>2, <2>3 DEF NextSeq
<1>3. row \in Rows
  BY <1>2 DEF Rows
<1>4. /\ log' \in Seq(Rows) /\ Len(log') = n + 1 /\ log'[n + 1] = row
      /\ \A i \in 1 .. n : log'[i] = log[i]
  BY <1>3, AppendProperties
<1>5. DOMAIN log' = 1 .. n + 1
  BY <1>4
<1>6. \A i \in 1 .. n + 1 : i \in 1 .. n \/ i = n + 1
  <2>. HIDE DEF n
  <2>. QED
    BY <1>1
<1>7. ASSUME NEW i \in 1 .. n
      PROVE  log'[i].seq = Cardinality({j \in 1 .. i : log'[j].run = log'[i].run})
  <2>1. \A j \in 1 .. i : j \in 1 .. n
    BY <1>1
  <2>2. {j \in 1 .. i : log'[j].run = log'[i].run} = {j \in 1 .. i : log[j].run = log[i].run}
    BY <1>4, <2>1
  <2>3. log[i].seq = Cardinality({j \in 1 .. i : log[j].run = log[i].run})
    BY <1>1 DEF RunsNumbered
  <2>. QED
    BY <1>4, <2>2, <2>3
<1>8. log'[n + 1].seq = Cardinality({j \in 1 .. n + 1 : log'[j].run = log'[n + 1].run})
  <2>1. \A j \in 1 .. n : log'[j].run = log[j].run
    BY <1>4
  <2>2. log'[n + 1].run = r /\ log'[n + 1].seq = NextSeq(r)
    BY <1>4
  <2>3. \A j \in 1 .. n : j \in 1 .. n + 1
    <3>. HIDE DEF n
    <3>. QED
      BY <1>1
  <2>4. n + 1 \in 1 .. n + 1 /\ n + 1 \notin 1 .. n
    <3>. HIDE DEF n
    <3>. QED
      BY <1>1
  <2>5. {j \in 1 .. n + 1 : log'[j].run = r} = S \cup {n + 1}
    <3>. HIDE DEF n
    <3>. QED
      BY <1>6, <2>1, <2>2, <2>3, <2>4
  <2>6. n + 1 \notin S
    BY <2>4
  <2>. HIDE DEF S
  <2>7. Cardinality(S \cup {n + 1}) = Cardinality(S) + 1
    BY <1>2, <2>6, FS_AddElement
  <2>. QED
    BY <1>2, <2>2, <2>5, <2>7
<1>9. \A i \in DOMAIN log' :
        log'[i].seq = Cardinality({j \in 1 .. i : log'[j].run = log'[i].run})
  BY <1>5, <1>6, <1>7, <1>8
<1>. QED
  BY <1>4, <1>9 DEF RunsNumbered

(***************************************************************************)
(* The steps of emit                                                       *)
(***************************************************************************)

\* What is left to show of a step of emitter e that touches no connection.
LEMMA EmitterMoves ==
    ASSUME StreamInvariant, NEW e \in Emitters, NEW x \in Calls,
           em' = [em EXCEPT ![e] = x],
           \/ UNCHANGED <<log, lock>>
           \/ /\ lock' \in {{}, {e}}
              /\ \A f \in Emitters \ {e} : em[f].at \in {"idle", "wait"},
           log' \in Seq(Rows), RunsNumbered', EmitterStory(e)', clients' \subseteq clients,
           UNCHANGED <<phase, closed, since>>,
           queue' \in [Clients -> Seq(Nat)], got' \in [Clients -> Seq(Nat)],
           \A c \in Clients : ClientStory(c)'
    PROVE  StreamInvariant'
<1>1. /\ em' \in [Emitters -> Calls]
      /\ \A f \in Emitters : EmitterStory(f)'
  BY OthersStand
<1>2. lock' \in SUBSET Emitters
  BY DEF StreamInvariant, StreamTypes
<1>3. clients' \in SUBSET Clients
  BY DEF StreamInvariant, StreamTypes
<1>4. DOMAIN phase' = Clients /\ closed' \in [Clients -> BOOLEAN] /\ since' \in [Clients -> Nat]
  BY DEF StreamInvariant, StreamTypes
<1>5. StreamTypes'
  BY <1>1, <1>2, <1>3, <1>4 DEF StreamTypes
<1>. QED
  BY <1>1, <1>5 DEF StreamInvariant

\* A step that changes neither the log nor whom e has to tell.
LEMMA QuietEmitterStep ==
    ASSUME StreamInvariant, NEW e \in Emitters, NEW x \in Calls,
           em' = [em EXCEPT ![e] = x],
           x.todo = em[e].todo, x.dead = em[e].dead,
           x.at = "notify" <=> em[e].at = "notify",
           \/ UNCHANGED lock
           \/ /\ lock' \in {{}, {e}}
              /\ \A f \in Emitters \ {e} : em[f].at \in {"idle", "wait"},
           EmitterStory(e)',
           UNCHANGED <<log, clients, phase, closed, queue, got, since>>
    PROVE  StreamInvariant'
<1>1. /\ em'[e] = x
      /\ \A f \in Emitters \ {e} : em'[f] = em[f]
  BY OthersStand
<1>2. \A f \in Emitters : /\ em'[f].at = "notify" <=> em[f].at = "notify"
                          /\ em'[f].todo = em[f].todo /\ em'[f].dead = em[f].dead
  BY <1>1
<1>3. ASSUME NEW c \in Clients PROVE ClientStory(c)'
  <2>1. Due(c)' = Due(c)
    BY <1>2, DueDepends
  <2>2. Failing(c)' <=> Failing(c)
    BY <1>2 DEF Failing
  <2>. QED
    BY <1>2, <2>1, <2>2, ClientStands
<1>4. /\ log' \in Seq(Rows) /\ queue' \in [Clients -> Seq(Nat)]
      /\ got' \in [Clients -> Seq(Nat)]
  BY DEF StreamInvariant, StreamTypes
<1>5. RunsNumbered'
  BY DEF StreamInvariant, RunsNumbered
<1>. QED
  BY <1>3, <1>4, <1>5, EmitterMoves

\* A call of emit begins.
LEMMA EmitStep ==
    ASSUME StreamInvariant, NEW e \in Emitters, NEW r \in Runs, Emit(e, r)
    PROVE  StreamInvariant'
<1>. DEFINE x == [Idle EXCEPT !.at = "wait", !.run = {r}]
<1>1. /\ x \in Calls /\ x.at = "wait" /\ x.todo = {} /\ x.dead = {} /\ x.run = {r}
  BY DEF Idle, Calls
<1>2. /\ em[e].at = "idle" /\ em' = [em EXCEPT ![e] = x]
      /\ UNCHANGED <<log, lock, clients, phase, closed, queue, got, since>>
  BY DEF Emit, connVars, historyVars
<1>3. em[e].todo = {} /\ em[e].dead = {} /\ lock /= {e}
  BY <1>2 DEF StreamInvariant, EmitterStory, Holding
<1>. HIDE DEF x
<1>4. em'[e] = x
  BY <1>1, <1>2, OthersStand
<1>5. EmitterStory(e)'
  BY <1>1, <1>2, <1>3, <1>4 DEF EmitterStory, Holding
<1>. QED
  BY <1>1, <1>2, <1>3, <1>5, QuietEmitterStep

\* The lock was free, so nobody else is past it, and the number that is read is
\* the run's next as long as it is held.
LEMMA TakeSeqStep ==
    ASSUME StreamInvariant, NEW e \in Emitters, TakeSeq(e)
    PROVE  StreamInvariant'
<1>1. PICK r \in em[e].run : em' = [em EXCEPT ![e].at = "insert", ![e].row = NextSeq(r)]
  BY DEF TakeSeq
<1>. DEFINE x == [em[e] EXCEPT !.at = "insert", !.row = NextSeq(r)]
<1>2. /\ em[e].at = "wait" /\ lock = {} /\ lock' = {e}
      /\ UNCHANGED <<log, clients, phase, closed, queue, got, since>>
  BY DEF TakeSeq, LockFree, connVars, historyVars
<1>3. em[e] \in Calls /\ EmitterStory(e)
  BY DEF StreamInvariant, StreamTypes
<1>4. NextSeq(r) \in Nat
  <2>. DEFINE n == Len(log)
  <2>1. log \in Seq(Rows) /\ n \in 0 .. n /\ DOMAIN log = 1 .. n
    BY DEF StreamInvariant, StreamTypes
  <2>2. Cardinality({j \in 1 .. n : log[j].run = r}) \in Nat
    BY <2>1, CountRows
  <2>3. {i \in DOMAIN log : log[i].run = r} = {j \in 1 .. n : log[j].run = r}
    BY <2>1
  <2>4. NextSeq(r) = Cardinality({j \in 1 .. n : log[j].run = r}) + 1
    BY <2>3 DEF NextSeq
  <2>. HIDE DEF n
  <2>. QED
    BY <2>2, <2>4
<1>5. x \in Calls
  BY <1>3, <1>4 DEF Calls
<1>6. /\ x.at = "insert" /\ x.row = NextSeq(r) /\ x.run = em[e].run
      /\ x.todo = em[e].todo /\ x.dead = em[e].dead
  BY <1>3 DEF Calls
<1>7. em' = [em EXCEPT ![e] = x]
  BY <1>1
<1>8. \A f \in Emitters \ {e} : em[f].at \in {"idle", "wait"}
  <2>1. ASSUME NEW f \in Emitters \ {e} PROVE em[f].at \in {"idle", "wait"}
    <3>1. em[f] \in Calls /\ EmitterStory(f)
      BY DEF StreamInvariant, StreamTypes
    <3>. QED
      BY <1>2, <3>1 DEF EmitterStory, Calls, Holding
  <2>. QED
    BY <2>1
<1>. HIDE DEF x
<1>9. em'[e] = x
  BY <1>2, <1>5, <1>7, <1>8, OthersStand
<1>10. \A s \in x.run : x.row = NextSeq(s)'
  <2>1. \A s \in em[e].run : s = r
    BY <1>3 DEF EmitterStory
  <2>2. NextSeq(r)' = NextSeq(r)
    BY <1>2 DEF NextSeq
  <2>. QED
    BY <1>6, <2>1, <2>2
<1>11. EmitterStory(e)'
  BY <1>2, <1>3, <1>6, <1>9, <1>10 DEF EmitterStory, Holding
<1>. QED
  BY <1>2, <1>5, <1>6, <1>7, <1>8, <1>11, QuietEmitterStep

\* Nothing is due to a client while the holder of the lock has yet to write.
LEMMA NothingPending ==
    ASSUME StreamInvariant, NEW e \in Emitters, em[e].at = "insert", NEW c \in Clients
    PROVE  Due(c) = Len(log)
<1>1. em[e].todo = {}
  BY DEF StreamInvariant, EmitterStory
<1>2. ASSUME NEW f \in Emitters PROVE em[f].at /= "notify" /\ c \notin em[f].todo
  BY <1>1, Alone DEF Holding
<1>. QED
  BY <1>2 DEF Due

\* The INSERT uses the number that was read; the new row is not due yet.
LEMMA PersistStep ==
    ASSUME StreamInvariant, NEW e \in Emitters, Persist(e)
    PROVE  StreamInvariant'
<1>1. /\ em[e].at = "insert"
      /\ UNCHANGED <<clients, phase, closed, queue, got, since>>
  BY DEF Persist, connVars, historyVars
<1>2. em[e] \in Calls /\ EmitterStory(e) /\ log \in Seq(Rows) /\ RunsNumbered
  BY DEF StreamInvariant, StreamTypes
<1>3. lock = {e} /\ em[e].todo = {} /\ em[e].dead = {}
  BY <1>1, <1>2 DEF EmitterStory, Holding
<1>4. \A f \in Emitters \ {e} : em[f].at \in {"idle", "wait"} /\ em[f].todo = {}
  BY <1>1, Alone DEF Holding
<1>5. CASE em' = [em EXCEPT ![e] = Idle] /\ lock' = {} /\ UNCHANGED log
  <2>1. /\ Idle \in Calls /\ Idle.at = "idle" /\ Idle.todo = {} /\ Idle.dead = {}
        /\ Idle.run = {}
    BY DEF Idle, Calls
  <2>2. em'[e] = Idle
    BY <1>4, <1>5, <2>1, OthersStand
  <2>3. EmitterStory(e)'
    BY <1>5, <2>1, <2>2 DEF EmitterStory, Holding
  <2>. QED
    BY <1>1, <1>3, <1>4, <1>5, <2>1, <2>3, QuietEmitterStep
<1>6. ASSUME NEW r \in em[e].run, log' = Append(log, [run |-> r, seq |-> em[e].row]),
             em' = [em EXCEPT ![e].at = "notify", ![e].row = Len(log')], UNCHANGED lock
      PROVE  StreamInvariant'
  <2>1. em[e].row = NextSeq(r) /\ r \in Runs
    BY <1>1, <1>2 DEF EmitterStory, Calls
  <2>2. RunsNumbered' /\ log' \in Seq(Rows) /\ Len(log') = Len(log) + 1 /\ Len(log) \in Nat
    BY <1>2, <1>6, <2>1, NumberedStep
  <2>. DEFINE x == [em[e] EXCEPT !.at = "notify", !.row = Len(log')]
  <2>3. Len(log') \in Nat
    BY <2>2
  <2>4. x \in Calls
    BY <1>2, <2>3 DEF Calls
  <2>5. /\ x.at = "notify" /\ x.row = Len(log') /\ x.run = em[e].run
        /\ x.todo = {} /\ x.dead = {}
    BY <1>2, <1>3 DEF Calls
  <2>6. em' = [em EXCEPT ![e] = x]
    BY <1>6
  <2>. HIDE DEF x
  <2>7. lock' \in {{}, {e}}
    BY <1>3, <1>6
  <2>8. em'[e] = x /\ \A f \in Emitters \ {e} : em'[f] = em[f]
    BY <1>4, <2>4, <2>6, <2>7, OthersStand
  <2>9. EmitterStory(e)'
    BY <1>2, <1>3, <1>6, <2>5, <2>8 DEF EmitterStory, Holding
  <2>10. ASSUME NEW c \in Clients PROVE ClientStory(c)'
    <3>1. Due(c)' = Len(log') - 1
      BY <2>5, <2>8 DEF Due
    <3>2. Due(c) = Len(log)
      BY <1>1, NothingPending
    <3>3. Due(c)' = Due(c)
      BY <2>2, <3>1, <3>2
    <3>4. \A f \in Emitters : em'[f].todo = em[f].todo /\ em'[f].dead = em[f].dead
      BY <1>3, <2>5, <2>8
    <3>5. Failing(c)' <=> Failing(c)
      BY <3>4 DEF Failing
    <3>. QED
      BY <1>1, <3>3, <3>4, <3>5, ClientStands
  <2>11. queue' \in [Clients -> Seq(Nat)] /\ got' \in [Clients -> Seq(Nat)]
    BY <1>1 DEF StreamInvariant, StreamTypes
  <2>. QED
    BY <1>1, <1>4, <2>2, <2>4, <2>6, <2>7, <2>9, <2>10, <2>11, EmitterMoves
<1>. QED
  BY <1>5, <1>6 DEF Persist

(***************************************************************************)
(* The broadcast                                                           *)
(***************************************************************************)

\* The clients of the moment are those the row is due to.
LEMMA SnapshotStep ==
    ASSUME StreamInvariant, NEW e \in Emitters, Snapshot(e)
    PROVE  StreamInvariant'
<1>. DEFINE x == [em[e] EXCEPT !.at = "send", !.todo = clients]
<1>1. /\ em[e].at = "notify" /\ em' = [em EXCEPT ![e] = x]
      /\ UNCHANGED <<log, lock, clients, phase, closed, queue, got, since>>
  BY DEF Snapshot, connVars, historyVars
<1>2. em[e] \in Calls /\ EmitterStory(e) /\ clients \in SUBSET Clients
  BY DEF StreamInvariant, StreamTypes
<1>3. x \in Calls
  BY <1>2 DEF Calls
<1>4. /\ x.at = "send" /\ x.todo = clients /\ x.dead = {} /\ x.row = em[e].row
      /\ x.run = em[e].run
  BY <1>1, <1>2 DEF Calls, EmitterStory
<1>. HIDE DEF x
<1>5. em'[e] = x /\ \A f \in Emitters \ {e} : em'[f] = em[f]
  BY <1>1, <1>3, OthersStand
<1>6. EmitterStory(e)'
  BY <1>1, <1>2, <1>4, <1>5 DEF EmitterStory, Holding
<1>7. \A f \in Emitters \ {e} : em[f].at /= "notify" /\ em[f].todo = {} /\ em[f].dead = {}
  BY <1>1, Alone DEF Holding
<1>8. em[e].dead = {}
  BY <1>1, <1>2 DEF EmitterStory
<1>9. ASSUME NEW c \in Clients PROVE ClientStory(c)'
  <2>1. c \in clients => Due(c)' = Due(c)
    <3>1. Due(c) = Len(log) - 1
      BY <1>1 DEF Due
    <3>2. c \in clients => Due(c)' = Len(log') - 1
      BY <1>4, <1>5 DEF Due
    <3>. QED
      BY <1>1, <3>1, <3>2
  <2>2. ~Failing(c) /\ ~Failing(c)'
    BY <1>4, <1>5, <1>7, <1>8 DEF Failing
  <2>3. \A f \in Emitters : c \in em'[f].todo \cup em'[f].dead => c \in clients
    BY <1>4, <1>5, <1>7
  <2>. QED
    BY <1>1, <2>1, <2>2, <2>3, ClientStands
<1>10. /\ log' \in Seq(Rows) /\ queue' \in [Clients -> Seq(Nat)]
       /\ got' \in [Clients -> Seq(Nat)]
  BY <1>1 DEF StreamInvariant, StreamTypes
<1>11. RunsNumbered'
  BY <1>1 DEF StreamInvariant, RunsNumbered
<1>. QED
  BY <1>1, <1>3, <1>6, <1>9, <1>10, <1>11, EmitterMoves

\* A frame that is queued is the event after the last one its client holds.
LEMMA SendStep ==
    ASSUME StreamInvariant, NEW e \in Emitters, NEW d \in Clients, Send(e, d)
    PROVE  StreamInvariant'
<1>. DEFINE fails == SendRaises(d)
            dead == IF fails THEN em[e].dead \cup {d} ELSE em[e].dead
            x == [em[e] EXCEPT !.todo = em[e].todo \ {d}, !.dead = dead]
<1>1. /\ em[e].at = "send" /\ d \in em[e].todo /\ em' = [em EXCEPT ![e] = x]
      /\ UNCHANGED <<log, lock, clients, phase, closed, got, since>>
      /\ queue' = IF fails THEN queue ELSE [queue EXCEPT ![d] = Append(@, em[e].row)]
  BY DEF Send, historyVars
<1>2. em[e] \in Calls /\ EmitterStory(e)
  BY DEF StreamInvariant, StreamTypes
<1>3. dead \in SUBSET Clients
  BY <1>2 DEF Calls
<1>4. d \notin em[e].dead /\ em[e].row = Len(log) /\ em[e].todo \cap em[e].dead = {}
  BY <1>1, <1>2 DEF EmitterStory
<1>5. dead \cap (em[e].todo \ {d}) = {} /\ em[e].dead \subseteq dead
      /\ dead \subseteq em[e].dead \cup {d} /\ (fails => d \in dead)
  BY <1>4
<1>. HIDE DEF dead
<1>6. x \in Calls
  BY <1>2, <1>3 DEF Calls
<1>7. /\ x.at = "send" /\ x.todo = em[e].todo \ {d} /\ x.dead = dead /\ x.row = em[e].row
      /\ x.run = em[e].run
  BY <1>1, <1>2 DEF Calls
<1>. HIDE DEF x
<1>8. em'[e] = x /\ \A f \in Emitters \ {e} : em'[f] = em[f]
  BY <1>1, <1>6, OthersStand
<1>9. EmitterStory(e)'
  BY <1>1, <1>2, <1>5, <1>7, <1>8 DEF EmitterStory, Holding
<1>10. \A f \in Emitters \ {e} : em[f].at /= "notify" /\ em[f].todo = {} /\ em[f].dead = {}
  BY <1>1, Alone DEF Holding
<1>11. queue \in [Clients -> Seq(Nat)] /\ got \in [Clients -> Seq(Nat)] /\ log \in Seq(Rows)
       /\ Len(log) \in Nat /\ since \in [Clients -> Nat]
  BY DEF StreamInvariant, StreamTypes
<1>12. queue' \in [Clients -> Seq(Nat)]
  <2>1. Append(queue[d], em[e].row) \in Seq(Nat)
    BY <1>4, <1>11, AppendProperties
  <2>. QED
    BY <1>1, <1>11, <2>1
<1>13. ASSUME NEW c \in Clients, c /= d \/ fails PROVE ClientStory(c)'
  <2>1. queue'[c] = queue[c]
    BY <1>1, <1>11, <1>13
  <2>2. c /= d => Due(c)' = Due(c)
    <3>1. ASSUME c /= d
          PROVE  \A f \in Emitters : /\ em'[f].at = "notify" <=> em[f].at = "notify"
                                     /\ c \in em'[f].todo <=> c \in em[f].todo
      BY <1>1, <1>7, <1>8, <3>1
    <3>. QED
      BY <1>1, <3>1, DueDepends
  <2>3. c = d => Failing(c)'
    BY <1>5, <1>7, <1>8, <1>13 DEF Failing
  <2>4. Failing(c) => Failing(c)'
    BY <1>5, <1>7, <1>8 DEF Failing
  <2>5. \A f \in Emitters : c \in em'[f].todo \cup em'[f].dead =>
                c \in em[f].todo \cup em[f].dead
    BY <1>1, <1>5, <1>7, <1>8
  <2>. QED
    BY <1>1, <2>1, <2>2, <2>3, <2>4, <2>5, ClientStands
<1>14. ASSUME ~fails PROVE ClientStory(d)'
  <2>. DEFINE s == Held(d)
              n == Len(log)
              t == Append(s, n)
  <2>1. s \in Seq(Nat) /\ InOrder(s) /\ n \in Nat
    BY <1>11, HeldIsSeq DEF StreamInvariant, ClientStory
  <2>2. Held(d)' = t
    <3>1. queue'[d] = Append(queue[d], n) /\ got'[d] = got[d]
      BY <1>1, <1>4, <1>11, <1>14
    <3>2. got[d] \o Append(queue[d], n) = Append(got[d] \o queue[d], n)
      BY <1>11, AppendToHeld
    <3>. QED
      BY <3>1, <3>2 DEF Held
  <2>3. ~Absent(d) /\ ~Absent(d)'
    BY <1>1 DEF StreamInvariant, ClientStory, Absent
  <2>4. ~closed[d] /\ ~closed'[d]
    BY <1>1, <1>14 DEF SendRaises
  <2>5. ~Failing(d)
    BY <1>4, <1>10 DEF Failing
  <2>6. d \in clients /\ UpToDate(d)
    BY <2>3, <2>4, <2>5 DEF StreamInvariant, ClientStory
  <2>7. Due(d) = n - 1
    BY <1>1 DEF Due
  <2>8. Due(d)' = n
    <3>1. \A f \in Emitters : em'[f].at /= "notify" /\ d \notin em'[f].todo
      BY <1>7, <1>8, <1>10
    <3>. QED
      BY <1>1, <3>1 DEF Due
  <2>9. /\ s /= << >> => s[Len(s)] = n - 1 /\ s[1] <= since[d] + 1
        /\ s = << >> => n - 1 <= since[d]
    BY <2>6, <2>7 DEF UpToDate
  <2>. HIDE DEF s, n
  <2>10. /\ InOrder(t) /\ t /= << >> /\ t[Len(t)] = n
         /\ t[1] = IF s = << >> THEN n ELSE s[1]
    BY <2>1, <2>9, AppendInOrder
  <2>. HIDE DEF t
  <2>11. since'[d] = since[d] /\ since[d] \in Nat /\ d \in clients'
    BY <1>1, <1>11, <2>6
  <2>12. t[1] <= since[d] + 1
    BY <2>1, <2>9, <2>10, <2>11
  <2>13. UpToDate(d)'
    BY <2>2, <2>8, <2>10, <2>11, <2>12 DEF UpToDate
  <2>14. InOrder(Held(d))'
    BY <2>2, <2>10 DEF InOrder
  <2>. QED
    BY <2>3, <2>11, <2>13, <2>14 DEF ClientStory
<1>15. \A c \in Clients : ClientStory(c)'
  BY <1>13, <1>14
<1>16. log' \in Seq(Rows) /\ got' \in [Clients -> Seq(Nat)] /\ clients' \subseteq clients
  BY <1>1, <1>11
<1>17. RunsNumbered'
  BY <1>1 DEF StreamInvariant, RunsNumbered
<1>. QED
  BY <1>1, <1>6, <1>9, <1>12, <1>15, <1>16, <1>17, EmitterMoves

\* The clients that are dropped are clients a send failed for.
LEMMA DropDeadStep ==
    ASSUME StreamInvariant, NEW e \in Emitters, DropDead(e)
    PROVE  StreamInvariant'
<1>. DEFINE x == [em[e] EXCEPT !.at = "close"]
<1>1. /\ em[e].at = "send" /\ em' = [em EXCEPT ![e] = x] /\ clients' = clients \ em[e].dead
      /\ UNCHANGED <<log, lock, phase, closed, queue, got, since>>
  BY DEF DropDead, connVars, historyVars
<1>2. em[e] \in Calls /\ EmitterStory(e)
  BY DEF StreamInvariant, StreamTypes
<1>3. x \in Calls
  BY <1>2 DEF Calls
<1>4. /\ x.at = "close" /\ x.todo = em[e].todo /\ x.dead = em[e].dead /\ x.row = em[e].row
      /\ x.run = em[e].run
  BY <1>2 DEF Calls
<1>. HIDE DEF x
<1>5. em'[e] = x /\ \A f \in Emitters \ {e} : em'[f] = em[f]
  BY <1>1, <1>3, OthersStand
<1>6. EmitterStory(e)'
  BY <1>1, <1>2, <1>4, <1>5 DEF EmitterStory, Holding
<1>7. \A f \in Emitters : /\ em'[f].at = "notify" <=> em[f].at = "notify"
                          /\ em'[f].todo = em[f].todo /\ em'[f].dead = em[f].dead
  BY <1>1, <1>4, <1>5
<1>8. ASSUME NEW c \in Clients PROVE ClientStory(c)'
  <2>1. Due(c)' = Due(c)
    BY <1>1, <1>7, DueDepends
  <2>2. Failing(c)' <=> Failing(c)
    BY <1>7 DEF Failing
  <2>3. c \in clients /\ ~Failing(c)' => c \in clients'
    BY <1>1, <2>2 DEF Failing
  <2>. QED
    BY <1>1, <1>7, <2>1, <2>2, <2>3, ClientStands
<1>9. /\ log' \in Seq(Rows) /\ queue' \in [Clients -> Seq(Nat)]
      /\ got' \in [Clients -> Seq(Nat)]
  BY <1>1 DEF StreamInvariant, StreamTypes
<1>10. RunsNumbered'
  BY <1>1 DEF StreamInvariant, RunsNumbered
<1>. QED
  BY <1>1, <1>3, <1>6, <1>8, <1>9, <1>10, EmitterMoves

\* emit returns when it has told everyone.
LEMMA ReleaseStep ==
    ASSUME StreamInvariant, NEW e \in Emitters, Release(e)
    PROVE  StreamInvariant'
<1>1. /\ em[e].at \in {"send", "close"} /\ em[e].todo = {} /\ em[e].dead = {}
      /\ em' = [em EXCEPT ![e] = Idle] /\ lock' = {}
      /\ UNCHANGED <<log, clients, phase, closed, queue, got, since>>
  BY DEF Release, connVars, historyVars
<1>2. /\ Idle \in Calls /\ Idle.at = "idle" /\ Idle.todo = {} /\ Idle.dead = {}
      /\ Idle.run = {}
  BY DEF Idle, Calls
<1>3. \A f \in Emitters \ {e} : em[f].at \in {"idle", "wait"}
  BY <1>1, Alone DEF Holding
<1>4. em'[e] = Idle
  BY <1>1, <1>2, <1>3, OthersStand
<1>5. EmitterStory(e)'
  BY <1>1, <1>2, <1>4 DEF EmitterStory, Holding
<1>. QED
  BY <1>1, <1>2, <1>3, <1>5, QuietEmitterStep

(***************************************************************************)
(* Connections                                                             *)
(***************************************************************************)

\* A connection that is closed keeps what was written, a stretch of the log.
LEMMA CloseStep ==
    ASSUME StreamInvariant, NEW d \in Clients, Close(d),
           UNCHANGED <<log, clients, phase, got, since>>,
           \A f \in Emitters : em'[f].todo \cup em'[f].dead \subseteq em[f].todo \cup em[f].dead
    PROVE  /\ closed' \in [Clients -> BOOLEAN] /\ queue' \in [Clients -> Seq(Nat)]
           /\ ClientStory(d)'
           /\ \A c \in Clients \ {d} : closed'[c] = closed[c] /\ queue'[c] = queue[c]
<1>1. closed \in [Clients -> BOOLEAN] /\ queue \in [Clients -> Seq(Nat)]
  BY DEF StreamInvariant, StreamTypes
<1>2. /\ closed'[d] /\ queue'[d] = << >> /\ closed' \in [Clients -> BOOLEAN]
      /\ \A c \in Clients \ {d} : closed'[c] = closed[c] /\ queue'[c] = queue[c]
  BY <1>1 DEF Close
<1>3. queue' \in [Clients -> Seq(Nat)]
  BY <1>1 DEF Close
<1>4. got[d] \in Seq(Nat) /\ queue[d] \in Seq(Nat) /\ InOrder(got[d] \o queue[d])
  BY HeldIsSeq DEF StreamInvariant, ClientStory, Held
<1>5. Held(d)' = got[d]
  BY <1>2, <1>4, ConcatEmptySeq DEF Held
<1>6. InOrder(got[d])
  BY <1>4, PrefixInOrder
<1>7. Absent(d)' => /\ Held(d)' = << >> /\ d \notin clients'
                    /\ \A f \in Emitters : d \notin em'[f].todo \cup em'[f].dead
  <2>. SUFFICES ASSUME Absent(d)'
                PROVE  /\ Held(d)' = << >> /\ d \notin clients'
                       /\ \A f \in Emitters : d \notin em'[f].todo \cup em'[f].dead
    OBVIOUS
  <2>1. Absent(d)
    BY DEF Absent
  <2>2. /\ Held(d) = << >> /\ d \notin clients
        /\ \A f \in Emitters : d \notin em[f].todo \cup em[f].dead
    BY <2>1 DEF StreamInvariant, ClientStory
  <2>3. got[d] = << >>
    BY <1>4, <2>2, ConcatEqualIffEmpty DEF Held
  <2>. QED
    BY <1>5, <2>2, <2>3
<1>8. InOrder(Held(d))'
  BY <1>5, <1>6 DEF InOrder
<1>. QED
  BY <1>2, <1>3, <1>7, <1>8 DEF ClientStory

\* What is left to show of a step that no emitter takes.
LEMMA ConnectionStep ==
    ASSUME StreamInvariant, UNCHANGED <<log, lock, em>>,
           clients' \in SUBSET Clients, DOMAIN phase' = Clients,
           closed' \in [Clients -> BOOLEAN], queue' \in [Clients -> Seq(Nat)],
           got' \in [Clients -> Seq(Nat)], since' \in [Clients -> Nat],
           \A c \in Clients : ClientStory(c)'
    PROVE  StreamInvariant'
<1>1. StreamTypes'
  BY DEF StreamInvariant, StreamTypes
<1>2. RunsNumbered'
  BY DEF StreamInvariant, RunsNumbered
<1>3. \A r : NextSeq(r)' = NextSeq(r)
  BY DEF NextSeq
<1>4. \A e \in Emitters : EmitterStory(e)'
  BY <1>3 DEF StreamInvariant, EmitterStory
<1>. QED
  BY <1>1, <1>2, <1>4 DEF StreamInvariant

\* A client whose connection, registration and place before or after Register
\* stay the same, while no emitter moves.
LEMMA ClientAtRest ==
    ASSUME StreamInvariant, UNCHANGED <<log, em>>, NEW c \in Clients,
           Absent(c)' <=> Absent(c), closed'[c] = closed[c], Held(c)' = Held(c),
           since'[c] = since[c], c \in clients' <=> c \in clients
    PROVE  ClientStory(c)'
<1>1. Due(c)' = Due(c) /\ (Failing(c)' <=> Failing(c))
  BY DEF Due, Failing
<1>2. UpToDate(c)' <=> UpToDate(c)
  BY <1>1 DEF UpToDate
<1>3. InOrder(Held(c))'
  BY DEF StreamInvariant, ClientStory, InOrder
<1>. QED
  BY <1>1, <1>2, <1>3 DEF StreamInvariant, ClientStory

\* Closing a connection, whoever does it outside emit.
LEMMA OnlyCloseStep ==
    ASSUME StreamInvariant, NEW d \in Clients, Close(d),
           UNCHANGED <<log, lock, em, clients, phase, got, since>>
    PROVE  StreamInvariant'
<1>1. /\ closed' \in [Clients -> BOOLEAN] /\ queue' \in [Clients -> Seq(Nat)]
      /\ ClientStory(d)'
      /\ \A c \in Clients \ {d} : closed'[c] = closed[c] /\ queue'[c] = queue[c]
  BY CloseStep
<1>2. ASSUME NEW c \in Clients \ {d} PROVE ClientStory(c)'
  <2>1. Held(c)' = Held(c) /\ (Absent(c)' <=> Absent(c))
    BY <1>1 DEF Held, Absent
  <2>. QED
    BY <1>1, <2>1, ClientAtRest
<1>3. /\ clients' \in SUBSET Clients /\ DOMAIN phase' = Clients
      /\ got' \in [Clients -> Seq(Nat)] /\ since' \in [Clients -> Nat]
  BY DEF StreamInvariant, StreamTypes
<1>. QED
  BY <1>1, <1>2, <1>3, ConnectionStep

\* An emitter closes a client that a send failed for.
LEMMA CloseDeadStep ==
    ASSUME StreamInvariant, NEW e \in Emitters, NEW d \in Clients, CloseDead(e, d)
    PROVE  StreamInvariant'
<1>. DEFINE x == [em[e] EXCEPT !.dead = em[e].dead \ {d}]
<1>1. /\ em[e].at = "close" /\ em' = [em EXCEPT ![e] = x] /\ Close(d)
      /\ UNCHANGED <<log, lock, clients, phase, got, since>>
  BY DEF CloseDead, historyVars
<1>2. em[e] \in Calls /\ EmitterStory(e)
  BY DEF StreamInvariant, StreamTypes
<1>3. x \in Calls
  BY <1>2 DEF Calls
<1>4. /\ x.at = "close" /\ x.todo = em[e].todo /\ x.dead = em[e].dead \ {d}
      /\ x.row = em[e].row /\ x.run = em[e].run
  BY <1>1, <1>2 DEF Calls
<1>. HIDE DEF x
<1>5. /\ em' \in [Emitters -> Calls] /\ em'[e] = x
      /\ \A f \in Emitters \ {e} : em'[f] = em[f] /\ EmitterStory(f)'
  BY <1>1, <1>3, OthersStand
<1>6. EmitterStory(e)'
  BY <1>1, <1>2, <1>4, <1>5 DEF EmitterStory, Holding
<1>7. \A f \in Emitters : /\ em'[f].at = "notify" <=> em[f].at = "notify"
                          /\ em'[f].todo = em[f].todo /\ em'[f].dead \subseteq em[f].dead
                          /\ em[f].dead \ {d} \subseteq em'[f].dead
  BY <1>1, <1>4, <1>5
<1>8. /\ closed' \in [Clients -> BOOLEAN] /\ queue' \in [Clients -> Seq(Nat)]
      /\ ClientStory(d)'
      /\ \A c \in Clients \ {d} : closed'[c] = closed[c] /\ queue'[c] = queue[c]
  <2>1. \A f \in Emitters : em'[f].todo \cup em'[f].dead \subseteq em[f].todo \cup em[f].dead
    BY <1>7
  <2>. QED
    BY <1>1, <2>1, CloseStep
<1>9. ASSUME NEW c \in Clients \ {d} PROVE ClientStory(c)'
  <2>1. Due(c)' = Due(c)
    BY <1>1, <1>7, DueDepends
  <2>2. Failing(c)' <=> Failing(c)
    BY <1>7 DEF Failing
  <2>3. \A f \in Emitters : c \in em'[f].todo \cup em'[f].dead =>
                c \in em[f].todo \cup em[f].dead
    BY <1>7
  <2>. QED
    BY <1>1, <1>8, <2>1, <2>2, <2>3, ClientStands
<1>10. StreamTypes'
  BY <1>1, <1>5, <1>8 DEF StreamInvariant, StreamTypes
<1>11. RunsNumbered'
  BY <1>1 DEF StreamInvariant, RunsNumbered
<1>. QED
  BY <1>5, <1>6, <1>8, <1>9, <1>10, <1>11 DEF StreamInvariant

\* A handler that goes on, before Register or after it.
LEMMA PhaseStep ==
    ASSUME StreamInvariant, NEW d \in Clients, NEW p,
           phase' = [phase EXCEPT ![d] = p], Absent(d)' <=> Absent(d),
           UNCHANGED <<log, lock, em, clients, closed, queue, got, since>>
    PROVE  StreamInvariant'
<1>1. DOMAIN phase = Clients
  BY DEF StreamInvariant, StreamTypes
<1>2. DOMAIN phase' = Clients /\ \A c \in Clients \ {d} : phase'[c] = phase[c]
  BY <1>1
<1>3. ASSUME NEW c \in Clients PROVE ClientStory(c)'
  <2>1. Held(c)' = Held(c) /\ (Absent(c)' <=> Absent(c))
    BY <1>2 DEF Held, Absent
  <2>. QED
    BY <2>1, ClientAtRest
<1>4. /\ clients' \in SUBSET Clients /\ closed' \in [Clients -> BOOLEAN]
      /\ queue' \in [Clients -> Seq(Nat)]
      /\ got' \in [Clients -> Seq(Nat)] /\ since' \in [Clients -> Nat]
  BY DEF StreamInvariant, StreamTypes
<1>. QED
  BY <1>2, <1>3, <1>4, ConnectionStep

\* The handler's steps that register nobody.
LEMMA HandlerStep ==
    ASSUME StreamInvariant, NEW d \in Clients,
           Accept(d) \/ Refuse(d) \/ Track(d) \/ StartThreads(d)
    PROVE  StreamInvariant'
<1>1. PICK p \in {"handshake", "refused", "tracked", "started"} :
        /\ phase' = [phase EXCEPT ![d] = p]
        /\ IF p = "started" THEN phase[d] = "registered"
           ELSE phase[d] \in {"away", "handshake"}
  BY DEF Accept, Refuse, Track, StartThreads, Handler
<1>2. UNCHANGED <<log, lock, em, clients, closed, queue, got, since>>
  BY DEF Accept, Refuse, Track, StartThreads, routerVars, connVars, historyVars
<1>3. DOMAIN phase = Clients
  BY DEF StreamInvariant, StreamTypes
<1>4. Absent(d)' <=> Absent(d)
  BY <1>1, <1>3 DEF Absent
<1>. QED
  BY <1>1, <1>2, <1>4, PhaseStep

\* A client that is registered holds nothing, and nothing from before is due.
LEMMA RegisterStep ==
    ASSUME StreamInvariant, NEW d \in Clients, Register(d)
    PROVE  StreamInvariant'
<1>1. /\ phase[d] = "tracked" /\ phase' = [phase EXCEPT ![d] = "registered"]
      /\ clients' = clients \cup {d} /\ since' = [since EXCEPT ![d] = Len(log)]
      /\ UNCHANGED <<log, lock, em, closed, queue, got>>
  BY DEF Register, Handler, routerVars, connVars
<1>2. /\ DOMAIN phase = Clients /\ clients \in SUBSET Clients /\ Len(log) \in Nat
      /\ since \in [Clients -> Nat] /\ closed \in [Clients -> BOOLEAN]
      /\ queue \in [Clients -> Seq(Nat)] /\ got \in [Clients -> Seq(Nat)]
  BY DEF StreamInvariant, StreamTypes
<1>3. /\ DOMAIN phase' = Clients /\ since' \in [Clients -> Nat] /\ since'[d] = Len(log)
      /\ phase'[d] = "registered"
      /\ \A c \in Clients \ {d} : phase'[c] = phase[c] /\ since'[c] = since[c]
  BY <1>1, <1>2
<1>4. ASSUME NEW c \in Clients \ {d} PROVE ClientStory(c)'
  <2>1. Held(c)' = Held(c) /\ (Absent(c)' <=> Absent(c))
    BY <1>1, <1>3 DEF Held, Absent
  <2>. QED
    BY <1>1, <1>3, <2>1, ClientAtRest
<1>5. ClientStory(d)'
  <2>1. Absent(d) /\ ~Absent(d)'
    BY <1>1, <1>3 DEF Absent
  <2>2. Held(d) = << >> /\ Held(d)' = Held(d)
    BY <1>1, <2>1 DEF StreamInvariant, ClientStory, Held
  <2>3. Due(d)' <= since'[d]
    BY <1>1, <1>2, <1>3 DEF Due
  <2>4. UpToDate(d)' /\ InOrder(Held(d))'
    BY <2>2, <2>3 DEF UpToDate, InOrder
  <2>. QED
    BY <1>1, <2>1, <2>4 DEF ClientStory
<1>. QED
  BY <1>1, <1>2, <1>3, <1>4, <1>5, ConnectionStep

\* Only a closed client is unregistered.
LEMMA UnregisterStep ==
    ASSUME StreamInvariant, NEW d \in Clients, Unregister(d)
    PROVE  StreamInvariant'
<1>1. /\ closed[d] /\ phase[d] = "started" /\ phase' = [phase EXCEPT ![d] = "gone"]
      /\ clients' = clients \ {d} /\ UNCHANGED <<log, lock, em, closed, queue, got, since>>
  BY DEF Unregister, Handler, routerVars, connVars, historyVars
<1>2. /\ DOMAIN phase = Clients /\ clients \in SUBSET Clients
      /\ since \in [Clients -> Nat] /\ closed \in [Clients -> BOOLEAN]
      /\ queue \in [Clients -> Seq(Nat)] /\ got \in [Clients -> Seq(Nat)]
  BY DEF StreamInvariant, StreamTypes
<1>3. /\ DOMAIN phase' = Clients /\ phase'[d] = "gone"
      /\ \A c \in Clients \ {d} : phase'[c] = phase[c]
  BY <1>1, <1>2
<1>4. ASSUME NEW c \in Clients \ {d} PROVE ClientStory(c)'
  <2>1. Held(c)' = Held(c) /\ (Absent(c)' <=> Absent(c))
    BY <1>1, <1>3 DEF Held, Absent
  <2>. QED
    BY <1>1, <2>1, ClientAtRest
<1>5. ClientStory(d)'
  <2>1. ~Absent(d)' /\ closed'[d]
    BY <1>1, <1>3 DEF Absent
  <2>2. InOrder(Held(d))'
    BY <1>1 DEF StreamInvariant, ClientStory, InOrder, Held
  <2>. QED
    BY <2>1, <2>2 DEF ClientStory
<1>. QED
  BY <1>1, <1>2, <1>3, <1>4, <1>5, ConnectionStep

\* The writer moves a frame, or gives up.
LEMMA WriteStep ==
    ASSUME StreamInvariant, NEW d \in Clients, Write(d)
    PROVE  StreamInvariant'
<1>1. /\ queue[d] /= << >> /\ UNCHANGED <<log, lock, em, clients, phase, since>>
  BY DEF Write, routerVars
<1>2. CASE Close(d) /\ UNCHANGED got
  BY <1>1, <1>2, OnlyCloseStep
<1>3. CASE /\ queue' = [queue EXCEPT ![d] = Tail(@)]
           /\ got' = [got EXCEPT ![d] = Append(@, Head(queue[d]))]
           /\ UNCHANGED closed
  <2>1. /\ DOMAIN phase = Clients /\ clients \in SUBSET Clients
        /\ since \in [Clients -> Nat] /\ closed \in [Clients -> BOOLEAN]
        /\ queue \in [Clients -> Seq(Nat)] /\ got \in [Clients -> Seq(Nat)]
    BY DEF StreamInvariant, StreamTypes
  <2>2. /\ queue'[d] = Tail(queue[d]) /\ got'[d] = Append(got[d], Head(queue[d]))
        /\ \A c \in Clients \ {d} : queue'[c] = queue[c] /\ got'[c] = got[c]
    BY <1>3, <2>1
  <2>3. /\ Append(got[d], Head(queue[d])) \o Tail(queue[d]) = got[d] \o queue[d]
        /\ Append(got[d], Head(queue[d])) \in Seq(Nat) /\ Tail(queue[d]) \in Seq(Nat)
    BY <1>1, <2>1, MoveHeld
  <2>4. queue' \in [Clients -> Seq(Nat)] /\ got' \in [Clients -> Seq(Nat)]
    BY <1>3, <2>1, <2>3
  <2>5. ASSUME NEW c \in Clients PROVE ClientStory(c)'
    <3>1. Held(c)' = Held(c)
      BY <2>2, <2>3 DEF Held
    <3>2. Absent(c)' <=> Absent(c)
      BY <1>1 DEF Absent
    <3>. QED
      BY <1>1, <1>3, <3>1, <3>2, ClientAtRest
  <2>. QED
    BY <1>1, <1>3, <2>1, <2>4, <2>5, ConnectionStep
<1>. QED
  BY <1>2, <1>3 DEF Write

\* A step that leaves the stream alone: the server's own, and stuttering.
LEMMA StreamAtRest ==
    ASSUME StreamInvariant,
           UNCHANGED <<log, lock, em, clients, phase, closed, queue, got, since>>
    PROVE  StreamInvariant'
<1>1. ASSUME NEW c \in Clients PROVE ClientStory(c)'
  <2>1. Held(c)' = Held(c) /\ (Absent(c)' <=> Absent(c))
    BY DEF Held, Absent
  <2>. QED
    BY <2>1, ClientAtRest
<1>2. /\ DOMAIN phase = Clients /\ clients \in SUBSET Clients
      /\ since \in [Clients -> Nat] /\ closed \in [Clients -> BOOLEAN]
      /\ queue \in [Clients -> Seq(Nat)] /\ got \in [Clients -> Seq(Nat)]
  BY DEF StreamInvariant, StreamTypes
<1>. QED
  BY <1>1, <1>2, ConnectionStep

(***************************************************************************)
(* The theorems                                                            *)
(***************************************************************************)

\* Nothing has been emitted and nobody is connected.
LEMMA StreamStart == Init => StreamInvariant
<1>. SUFFICES ASSUME Init PROVE StreamInvariant
  OBVIOUS
<1>1. /\ Idle \in Calls /\ Idle.at = "idle" /\ Idle.todo = {} /\ Idle.dead = {}
      /\ Idle.run = {}
  BY DEF Idle, Calls
<1>2. StreamTypes
  BY <1>1 DEF Init, StreamTypes
<1>3. RunsNumbered
  BY DEF Init, RunsNumbered
<1>4. \A e \in Emitters : em[e] = Idle /\ lock = {}
  BY DEF Init
<1>5. \A e \in Emitters : EmitterStory(e)
  BY <1>1, <1>4 DEF EmitterStory, Holding
<1>6. ASSUME NEW c \in Clients PROVE ClientStory(c)
  <2>1. /\ phase[c] = "away" /\ got[c] = << >> /\ queue[c] = << >> /\ clients = {}
    BY DEF Init
  <2>2. Held(c) = << >> /\ Absent(c)
    BY <2>1 DEF Held, Absent
  <2>. QED
    BY <1>1, <1>4, <2>1, <2>2 DEF ClientStory, InOrder
<1>. QED
  BY <1>2, <1>3, <1>5, <1>6 DEF StreamInvariant

\* Every step of emitters, handlers, connections and the server keeps it.
LEMMA StreamStep == StreamInvariant /\ [Next]_vars => StreamInvariant'
<1>. SUFFICES ASSUME StreamInvariant, [Next]_vars PROVE StreamInvariant'
  OBVIOUS
<1>1. CASE UNCHANGED vars
  BY <1>1, StreamAtRest DEF vars, routerVars, connVars, historyVars
<1>2. CASE Start \/ Stop \/ StopReturns
  BY <1>2, StreamAtRest DEF Start, Stop, StopReturns, routerVars, connVars, historyVars
<1>3. ASSUME NEW e \in Emitters, EmitterNext(e) PROVE StreamInvariant'
  BY <1>3, TakeSeqStep, PersistStep, SnapshotStep, DropDeadStep, ReleaseStep, SendStep,
     CloseDeadStep DEF EmitterNext
<1>4. ASSUME NEW e \in Emitters, NEW r \in Runs, Emit(e, r) PROVE StreamInvariant'
  BY <1>4, EmitStep
<1>5. ASSUME NEW c \in Clients, HandlerNext(c) \/ Accept(c) PROVE StreamInvariant'
  BY <1>5, HandlerStep, RegisterStep, UnregisterStep DEF HandlerNext
<1>6. ASSUME NEW c \in Clients, StopClose(c) \/ Read(c) PROVE StreamInvariant'
  BY <1>6, OnlyCloseStep DEF StopClose, Read, routerVars, historyVars
<1>7. ASSUME NEW c \in Clients, Write(c) PROVE StreamInvariant'
  BY <1>7, WriteStep
<1>. QED
  BY <1>1, <1>2, <1>3, <1>4, <1>5, <1>6, <1>7 DEF Next

\* However emitters collide, clients come, stall and leave, and the server
\* stops: the rows of a run are numbered in the order of their INSERTs, what a
\* client is sent is a gap-free stretch of the log, and a client that is still
\* registered and open has every event since its registration (event_router.py
\* emit, ws_server.py).
THEOREM StreamStaysFaithful == Spec => []StreamFaithful
<1>1. StreamInvariant => StreamFaithful
  BY InvariantIsFaithful
<1>. QED
  BY <1>1, StreamStart, StreamStep, PTL DEF Spec
=============================================================================

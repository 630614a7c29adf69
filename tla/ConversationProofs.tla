-------------------------- MODULE ConversationProofs --------------------------
(***************************************************************************)
(* Proofs about ThreadHistory, how the history of a native thread is read, *)
(* and about ConversationLog, how a conversation is kept, for every bound; *)
(* those about ConversationLog for every set of faults, as far as each     *)
(* theorem says.  The two modules share no state.                          *)
(***************************************************************************)
EXTENDS ThreadHistory, ConversationLog, SequenceTheorems, TLAPS

-----------------------------------------------------------------------------
(* ThreadHistory: the invariant.  What an answer is made of was asked for   *)
(* earlier: an unchanged fingerprint vouches for turns that were read under *)
(* an older one, and pages for the moment at which the last was read.  So   *)
(* the invariant says, of every fingerprint and of every step of a call,    *)
(* what is known of the turns as long as the thread's second is the same.   *)

Turn == [id : Nat, version : Nat]
Newest == Turns[Len(Turns)]

(* It may have been the newest turn since the thread last changed its second *)
AsHead(h) == /\ h \in Turn /\ h.id <= Newest.id
             /\ h.id = Newest.id => h.version <= Newest.version

Stamps == [at : Nat, active : BOOLEAN]
Prints == [at : Nat, active : BOOLEAN, head : Turn \cup {None}]
Snapshots == [fingerprint : Prints, turns : Seq(Turn)]

(* Of the thread.  The identity of a turn is a moment before the present.   *)
ThreadTyped ==
  /\ mode \in {"legacy", "paginated"} /\ clock \in Nat
  /\ past \in Seq(Seq(Turn)) /\ past # <<>> /\ Turns # <<>>
  /\ thread \in [at : Nat, active : BOOLEAN, begun : Nat]
  /\ thread.at <= clock /\ thread.begun <= clock
  /\ \A n \in 1 .. Len(Turns) : Turns[n].id < Now

(* A fingerprint f was taken from the thread that is there now, or that was  *)
(* there before: if it is of an idle thread and of the second of the last    *)
(* change, a turn that runs now began in that second or later, so that it    *)
(* cannot end in it.                                                         *)
Earlier(f) ==
  /\ f.at <= thread.at
  /\ f.at = thread.at /\ ~f.active /\ thread.active => thread.begun >= f.at
Taken(f) == /\ Earlier(f)
            /\ mode = "paginated" /\ f.at = thread.at => AsHead(f.head)
(* As long as the thread is in the second of f, f tells whether the turns    *)
(* are those: when both are idle, or when the newest turn is that of f.      *)
Tells(f, turns) ==
  f.at = thread.at =>
    /\ ~f.active /\ ~thread.active => Turns = turns
    /\ mode = "paginated" /\ f.head = Newest => Turns = turns

(* They were the turns of the thread at a moment since then *)
Shown(turns, since) == \E m \in since .. Now : turns = past[m]

(* The pairs under which turns are kept by the registry and by the job *)
IsSnapshot(f, turns) == Taken(f) /\ Tells(f, turns) /\ Shown(turns, 1)

Busy == {"metadata", "probe", "legacy", "page", "remeta", "reprobe", "store"}
BusyCalls ==
  [pc : Busy, since : Nat, known : Snapshots \cup {None}, metadata : Stamps \cup {None},
   first : Prints \cup {None}, before : Prints \cup {None}, attempt : {1, 2},
   got : Seq(Turn), pages : Nat]

(* Between the two requests of a fingerprint: if the metadata are those of   *)
(* what is kept, the newest turn will tell, unless turns are taken back.     *)
Probes(c, f, turns) ==
  f.at = c.metadata.at /\ f.active = c.metadata.active =>
    IF c.metadata.active
    THEN TakenBack(c.since) \/ (AsHead(f.head) /\ (f.head = Newest => Turns = turns))
    ELSE Shown(turns, c.since)

ProbeHolds(r, c) ==
  /\ mode = "paginated" /\ c.metadata \in Stamps /\ Earlier(c.metadata)
  /\ r \in JobCalls /\ sync # None => Probes(c, sync, stored.turns)
  /\ r \notin JobCalls /\ c.known # None => Probes(c, c.known.fingerprint, c.known.turns)

(* While pages are read: as long as the thread is in the second of the       *)
(* fingerprint before them, they are the first of its turns, and not all.    *)
PageHolds(c) ==
  /\ c.before \in Prints /\ c.first.at <= c.before.at /\ c.before.at <= thread.at
  /\ c.before.at = thread.at =>
       /\ Len(c.got) < Len(Turns)
       /\ \A n \in 1 .. Len(c.got) : c.got[n] = Turns[n]
(* When all are read: they are the turns of one moment, or the thread has    *)
(* moved on to another second, which the next fingerprint will tell.         *)
RemetaHolds(c) ==
  /\ c.before \in Prints /\ c.first.at <= c.before.at /\ c.before.at <= thread.at
  /\ c.before.at = thread.at => Shown(c.got, c.since)
  /\ Tells(c.first, c.got)
ReprobeHolds(c) ==
  /\ c.before \in Prints /\ c.metadata \in Stamps
  /\ c.first.at <= c.before.at /\ c.before.at <= c.metadata.at /\ c.metadata.at <= thread.at
  /\ c.before.at = c.metadata.at => Shown(c.got, c.since)
  /\ Tells(c.first, c.got)
StoreHolds(r, c) == r \in JobCalls /\ Shown(c.got, c.since) /\ Tells(c.first, c.got)

(* What holds of a call c of r that is being served, step by step *)
BusyHolds(r, c) ==
  /\ c \in BusyCalls
  /\ r \in JobCalls => lock = r
  /\ c.since \in 1 .. Now
  /\ c.known # None => IsSnapshot(c.known.fingerprint, c.known.turns)
  /\ c.pc \in {"legacy", "page", "remeta", "reprobe", "store"} =>
       c.first \in Prints /\ Taken(c.first)
  /\ c.pc = "legacy" => mode = "legacy"
  /\ c.pc \in {"metadata", "probe"} => c.got = <<>>
  /\ c.pc = "probe" => ProbeHolds(r, c)
  /\ c.pc = "page" => PageHolds(c)
  /\ c.pc = "remeta" => RemetaHolds(c)
  /\ c.pc = "reprobe" => ReprobeHolds(c)
  /\ c.pc = "store" => StoreHolds(r, c)
CallHolds(r, c) ==
  \/ c = NoCall
  \/ r \in JobCalls /\ c = [pc |-> "lock"]
  \/ BusyHolds(r, c)

(* What the Bridge keeps: pairs of a fingerprint and turns, and under the    *)
(* lock a store that is not later than the call that holds it.               *)
BridgeHolds ==
  /\ cache # None => cache \in Snapshots /\ IsSnapshot(cache.fingerprint, cache.turns)
  /\ stored \in [turns : Seq(Turn), synchronized : BOOLEAN] /\ Shown(stored.turns, 1)
  /\ sync # None => sync \in Prints /\ IsSnapshot(sync, stored.turns)
  /\ lock # None => /\ lock \in JobCalls /\ calls[lock] \in BusyCalls /\ calls[lock].since <= Now
                    /\ \E m \in 1 .. calls[lock].since : stored.turns = past[m]
CallsHold == /\ DOMAIN calls = Readers /\ \A r \in Readers : CallHolds(r, calls[r])
HistoryInv == ThreadTyped /\ BridgeHolds /\ CallsHold


(* A newer state of the newest turn, or a newer turn after it *)
Newer(turns, later) ==
  /\ Len(turns) <= Len(later)
  /\ \A n \in 1 .. Len(turns) - 1 : later[n] = turns[n]
  /\ \/ later[Len(later)].id > turns[Len(turns)].id
     \/ /\ later[Len(later)].id = turns[Len(turns)].id
        /\ later[Len(later)].version > turns[Len(turns)].version

Moves ==
  /\ mode' = mode /\ UNCHANGED <<bridge, calls>>
  /\ Now' \in {Now, Now + 1} /\ \A m \in 1 .. Now : past'[m] = past[m]
  /\ thread.at <= thread'.at
  /\ thread'.at = thread.at => Turns' = Turns \/ (thread'.active /\ Newer(Turns, Turns'))
  /\ \/ Turns' = Turns \/ Newer(Turns, Turns')
     \/ Now' = Now + 1 /\ Len(past'[Now + 1]) < Len(past'[Now])
  /\ ~thread.active /\ thread'.active => thread'.begun >= thread.at
  /\ thread.active /\ thread'.active => thread'.begun = thread.begun
  /\ thread.active /\ ~thread'.active => thread'.at > thread.begun /\ Turns' = Turns
  /\ thread'.at = thread.at /\ ~thread'.active => Turns' = Turns

-----------------------------------------------------------------------------
(* How the thread moves *)

LEMMA LastTurn ==
  ASSUME NEW p \in Seq(Seq(Turn)), p # <<>>, p[Len(p)] # <<>>
  PROVE  p[Len(p)] \in Seq(Turn) /\ p[Len(p)][Len(p[Len(p)])] \in Turn
<1>1. p[Len(p)] \in Seq(Turn)
  BY EmptySeq, LenProperties, ElementOfSeq
<1> QED BY <1>1, EmptySeq, LenProperties, ElementOfSeq

LEMMA ThreadFacts ==
  ASSUME ThreadTyped
  PROVE  /\ Now \in Nat \ {0} /\ Turns \in Seq(Turn) /\ Len(Turns) \in Nat \ {0}
         /\ Newest \in Turn /\ Turns = past[Now]
         /\ thread.at \in Nat /\ thread.begun \in Nat /\ clock \in Nat
         /\ Newest.id < Now
         /\ \A n \in 1 .. Len(Turns) : Turns[n] \in Turn /\ Turns[n].id < Now
<1>1. Now \in Nat \ {0}
  BY EmptySeq, LenProperties DEF ThreadTyped, Now
<1>2. Turns \in Seq(Turn) /\ Turns = past[Now]
  BY <1>1, ElementOfSeq DEF ThreadTyped, Now, Turns
<1>3. Len(Turns) \in Nat \ {0}
  BY <1>2, EmptySeq, LenProperties DEF ThreadTyped
<1>4. Newest \in Turn
  BY <1>2, <1>3, ElementOfSeq DEF Newest
<1>5. \A n \in 1 .. Len(Turns) : Turns[n] \in Turn
  BY <1>2, ElementOfSeq
<1> QED BY <1>1, <1>2, <1>3, <1>4, <1>5 DEF ThreadTyped, Newest

LEMMA StartsMoves ==
  ASSUME ThreadTyped, Starts
  PROVE  ThreadTyped' /\ Moves
<1> DEFINE new == [id |-> Now, version |-> 0]
<1>1. /\ past' = Append(past, Append(Turns, new))
      /\ thread' = [at |-> clock, active |-> TRUE, begun |-> clock]
      /\ ~thread.active /\ UNCHANGED <<mode, clock, bridge, calls>>
  BY DEF Starts, Changes
<1>2. new \in Turn
  BY ThreadFacts DEF Turn
<1>3. /\ Append(Turns, new) \in Seq(Turn) /\ Len(Append(Turns, new)) = Len(Turns) + 1
      /\ \A n \in 1 .. Len(Turns) : Append(Turns, new)[n] = Turns[n]
      /\ Append(Turns, new)[Len(Turns) + 1] = new
  BY <1>2, ThreadFacts, AppendProperties
<1>4. /\ past' \in Seq(Seq(Turn)) /\ Now' = Now + 1
      /\ \A m \in 1 .. Now : past'[m] = past[m]
      /\ past'[Now + 1] = Append(Turns, new)
  BY <1>1, <1>3, AppendProperties DEF ThreadTyped, Now
<1>5. Turns' = Append(Turns, new)
  BY <1>4 DEF Turns
<1> HIDE DEF new
<1>6. ThreadTyped'
  <2>1. Turns' # <<>> /\ past' # <<>>
    BY <1>3, <1>4, <1>5, ThreadFacts DEF Now
  <2>2. \A n \in 1 .. Len(Turns') : Turns'[n].id < Now'
    <3> SUFFICES ASSUME NEW n \in 1 .. Len(Turns) + 1
                 PROVE  Append(Turns, new)[n].id < Now + 1
      BY <1>3, <1>4, <1>5
    <3>1. CASE n = Len(Turns) + 1
      BY <3>1, <1>3, ThreadFacts DEF new
    <3>2. CASE n # Len(Turns) + 1
      <4>1. n \in 1 .. Len(Turns)
        BY <3>2, ThreadFacts
      <4> QED BY <4>1, <1>3, ThreadFacts DEF Turn
    <3> QED BY <3>1, <3>2
  <2> QED BY <1>1, <1>4, <2>1, <2>2, ThreadFacts DEF ThreadTyped
<1>7. Newer(Turns, Turns')
  BY <1>3, <1>5, ThreadFacts DEF Newer, Newest, new
<1> QED BY <1>1, <1>4, <1>6, <1>7, ThreadFacts DEF Moves, ThreadTyped

LEMMA WritesMoves ==
  ASSUME ThreadTyped, Writes
  PROVE  ThreadTyped' /\ Moves
<1> DEFINE last == Len(Turns)
           newest == [Turns[last] EXCEPT !.version = @ + 1]
           turns == [Turns EXCEPT ![last] = newest]
<1>1. /\ past' = Append(past, turns)
      /\ thread' = [at |-> clock, active |-> TRUE, begun |-> thread.begun]
      /\ thread.active /\ UNCHANGED <<mode, clock, bridge, calls>>
  BY DEF Writes, Changes
<1>2. newest \in Turn /\ newest.id = Newest.id /\ newest.version = Newest.version + 1
  <2>1. newest = [Newest EXCEPT !.version = @ + 1]
    BY DEF Newest
  <2> QED BY <2>1, ThreadFacts DEF Turn
<1> HIDE DEF newest
<1>3. /\ turns \in Seq(Turn) /\ Len(turns) = last
      /\ \A n \in 1 .. last - 1 : turns[n] = Turns[n]
      /\ turns[last] = newest
  BY <1>2, ThreadFacts, ExceptSeq
<1> HIDE DEF turns
<1>4. /\ past' \in Seq(Seq(Turn)) /\ Now' = Now + 1
      /\ \A m \in 1 .. Now : past'[m] = past[m]
      /\ past'[Now + 1] = turns
  BY <1>1, <1>3, AppendProperties DEF ThreadTyped, Now
<1>5. Turns' = turns
  BY <1>4 DEF Turns
<1>6. ThreadTyped'
  <2>1. Turns' # <<>> /\ past' # <<>>
    BY <1>3, <1>4, <1>5, ThreadFacts DEF Now
  <2>2. \A n \in 1 .. Len(Turns') : Turns'[n].id < Now'
    <3> SUFFICES ASSUME NEW n \in 1 .. last PROVE turns[n].id < Now + 1
      BY <1>3, <1>4, <1>5
    <3>1. CASE n = last
      BY <3>1, <1>2, <1>3, ThreadFacts DEF Turn
    <3>2. CASE n # last
      <4>1. n \in 1 .. last - 1 /\ n \in 1 .. Len(Turns)
        BY <3>2, ThreadFacts
      <4>2. Turns[n].id \in Nat /\ Turns[n].id < Now
        BY <4>1, ThreadFacts DEF Turn
      <4>3. turns[n] = Turns[n]
        BY <4>1, <1>3
      <4> QED BY <4>2, <4>3, ThreadFacts
    <3> QED BY <3>1, <3>2
  <2> QED BY <1>1, <1>4, <2>1, <2>2, ThreadFacts DEF ThreadTyped
<1>7. Newer(Turns, Turns')
  BY <1>2, <1>3, <1>5, ThreadFacts DEF Newer, Newest, Turn
<1> QED BY <1>1, <1>4, <1>6, <1>7, ThreadFacts DEF Moves, ThreadTyped

LEMMA EndsMoves ==
  ASSUME ThreadTyped, Ends
  PROVE  ThreadTyped' /\ Moves
<1>1. /\ thread' = [thread EXCEPT !.active = FALSE, !.at = clock]
      /\ thread.active /\ clock > thread.begun
      /\ UNCHANGED <<mode, past, clock, bridge, calls>>
  BY DEF Ends
<1>2. Now' = Now /\ Turns' = Turns
  BY <1>1 DEF Now, Turns
<1>3. thread'.at = clock /\ ~thread'.active /\ thread'.begun = thread.begun
  BY <1>1 DEF ThreadTyped
<1>4. ThreadTyped'
  <2>1. thread' \in [at : Nat, active : BOOLEAN, begun : Nat]
    BY <1>1, ThreadFacts DEF ThreadTyped
  <2>2. thread'.at <= clock' /\ thread'.begun <= clock'
    BY <1>1, <1>3, ThreadFacts
  <2>3. past' # <<>> /\ Turns' # <<>> /\ \A n \in 1 .. Len(Turns') : Turns'[n].id < Now'
    BY <1>1, <1>2 DEF ThreadTyped
  <2> QED BY <1>1, <2>1, <2>2, <2>3 DEF ThreadTyped
<1>5. thread.at <= clock
  BY DEF ThreadTyped
<1> QED BY <1>1, <1>2, <1>3, <1>4, <1>5, ThreadFacts DEF Moves

LEMMA TakesBackMoves ==
  ASSUME ThreadTyped, TakesBack
  PROVE  ThreadTyped' /\ Moves
<1>1. PICK n \in 1 .. Len(Turns) - 1 :
        /\ past' = Append(past, SubSeq(Turns, 1, n))
        /\ thread' = [at |-> clock, active |-> FALSE, begun |-> thread.begun]
        /\ ~thread.active /\ clock > thread.at
        /\ UNCHANGED <<mode, clock, bridge, calls>>
  BY DEF TakesBack, Changes
<1> DEFINE turns == SubSeq(Turns, 1, n)
<1>2. /\ turns \in Seq(Turn) /\ Len(turns) = n
      /\ \A k \in 1 .. n : turns[k] = Turns[k]
  BY ThreadFacts, SubSeqProperties
<1> HIDE DEF turns
<1>3. /\ past' \in Seq(Seq(Turn)) /\ Now' = Now + 1
      /\ \A m \in 1 .. Now : past'[m] = past[m]
      /\ past'[Now + 1] = turns
  BY <1>1, <1>2, AppendProperties DEF ThreadTyped, Now, turns
<1>4. Turns' = turns
  BY <1>3 DEF Turns
<1>5. ThreadTyped'
  <2>1. Turns' # <<>> /\ past' # <<>>
    BY <1>2, <1>3, <1>4, ThreadFacts DEF Now
  <2>2. \A k \in 1 .. Len(Turns') : Turns'[k].id < Now'
    <3> SUFFICES ASSUME NEW k \in 1 .. n PROVE Turns[k].id < Now + 1
      BY <1>2, <1>3, <1>4
    <3>1. k \in 1 .. Len(Turns)
      BY ThreadFacts
    <3>2. Turns[k].id \in Nat /\ Turns[k].id < Now
      BY <3>1, ThreadFacts DEF Turn
    <3>3. Now \in Nat
      BY ThreadFacts
    <3> QED BY <3>2, <3>3
  <2>3. thread' \in [at : Nat, active : BOOLEAN, begun : Nat]
    BY <1>1, ThreadFacts
  <2>4. thread'.at <= clock' /\ thread'.begun <= clock'
    BY <1>1, ThreadFacts DEF ThreadTyped
  <2> QED BY <1>1, <1>3, <2>1, <2>2, <2>3, <2>4 DEF ThreadTyped
<1>6. Len(past'[Now + 1]) < Len(past'[Now])
  <2>1. past'[Now] = Turns
    <3>1. Now \in 1 .. Now
      BY ThreadFacts
    <3> QED BY <1>3, <3>1 DEF Turns
  <2>2. n < Len(Turns)
    BY ThreadFacts
  <2> QED BY <2>1, <2>2, <1>2, <1>3
<1>7. /\ thread'.at \in Nat /\ thread.at \in Nat /\ thread'.at > thread.at
      /\ ~thread.active /\ ~thread'.active
  BY <1>1, ThreadFacts
<1>8. thread.at <= thread'.at /\ thread'.at # thread.at
  BY <1>7
<1> QED BY <1>1, <1>3, <1>5, <1>6, <1>7, <1>8 DEF Moves

LEMMA TicksMoves ==
  ASSUME ThreadTyped, Ticks
  PROVE  ThreadTyped' /\ Moves
<1>1. clock' = clock + 1 /\ UNCHANGED <<mode, past, thread, bridge, calls>>
  BY DEF Ticks
<1>2. Now' = Now /\ Turns' = Turns
  BY <1>1 DEF Now, Turns
<1> QED BY <1>1, <1>2, ThreadFacts DEF Moves, ThreadTyped

LEMMA CodexMoves ==
  ASSUME ThreadTyped, Codex
  PROVE  ThreadTyped' /\ Moves
BY StartsMoves, WritesMoves, EndsMoves, TakesBackMoves, TicksMoves DEF Codex

-----------------------------------------------------------------------------
(* What is said of the thread is still so when Codex has changed it *)

LEMMA HeadKept ==
  ASSUME ThreadTyped, ThreadTyped', Newer(Turns, Turns'), NEW h, AsHead(h)
  PROVE  AsHead(h)' /\ h # Newest'
<1>1. Newest \in Turn /\ Newest' \in Turn /\ h \in Turn
  BY LastTurn DEF AsHead, ThreadTyped, Newest, Turns, Now
<1>2. \/ Newest'.id > Newest.id
      \/ Newest'.id = Newest.id /\ Newest'.version > Newest.version
  BY DEF Newer, Newest
<1>3. h.id <= Newest.id /\ (h.id = Newest.id => h.version <= Newest.version)
  BY DEF AsHead
<1>4. /\ h.id \in Nat /\ h.version \in Nat /\ Newest.id \in Nat /\ Newest.version \in Nat
      /\ Newest'.id \in Nat /\ Newest'.version \in Nat
  BY <1>1 DEF Turn
<1>5. h.id <= Newest'.id /\ (h.id = Newest'.id => h.version < Newest'.version)
  BY <1>2, <1>3, <1>4
<1> QED BY <1>1, <1>4, <1>5 DEF AsHead

LEMMA EarlierKept ==
  ASSUME ThreadTyped, ThreadTyped', Moves, NEW f, f.at \in Nat, Earlier(f)
  PROVE  Earlier(f)' /\ (f.at = thread'.at => f.at = thread.at)
<1>1. thread.at \in Nat /\ thread'.at \in Nat /\ thread.begun \in Nat /\ thread'.begun \in Nat
  BY DEF ThreadTyped
<1>2. f.at <= thread'.at /\ (f.at = thread'.at => f.at = thread.at)
  BY <1>1 DEF Moves, Earlier
<1>3. ASSUME f.at = thread'.at, ~f.active, thread'.active
      PROVE  thread'.begun >= f.at
  <2>1. CASE thread.active
    BY <1>2, <1>3, <2>1 DEF Moves, Earlier
  <2>2. CASE ~thread.active
    BY <1>2, <1>3, <2>2 DEF Moves, Earlier
  <2> QED BY <2>1, <2>2
<1> QED BY <1>2, <1>3 DEF Earlier

LEMMA TakenKept ==
  ASSUME ThreadTyped, ThreadTyped', Moves, NEW f, f.at \in Nat, Taken(f)
  PROVE  Taken(f)' /\ (f.at = thread'.at => f.at = thread.at)
<1>1. Earlier(f)' /\ (f.at = thread'.at => f.at = thread.at)
  BY EarlierKept DEF Taken
<1>2. ASSUME mode = "paginated", f.at = thread'.at PROVE AsHead(f.head)'
  <2>1. AsHead(f.head)
    BY <1>1, <1>2 DEF Taken
  <2>2. CASE Turns' = Turns
    BY <2>1, <2>2 DEF AsHead, Newest
  <2>3. CASE Newer(Turns, Turns')
    <3>1. PICK h : h = f.head
      OBVIOUS
    <3> QED BY <2>1, <2>3, <3>1, HeadKept
  <2> QED BY <1>1, <1>2, <2>2, <2>3 DEF Moves
<1>3. mode' = mode
  BY DEF Moves
<1> QED BY <1>1, <1>2, <1>3 DEF Taken

LEMMA TellsKept ==
  ASSUME ThreadTyped, ThreadTyped', Moves, NEW f, f.at \in Nat, Taken(f),
         NEW turns, Tells(f, turns)
  PROVE  Tells(f, turns)'
<1> SUFFICES ASSUME f.at = thread'.at
             PROVE  /\ ~f.active /\ ~thread'.active => Turns' = turns
                    /\ mode = "paginated" /\ f.head = Newest' => Turns' = turns
  BY DEF Tells, Moves
<1>1. f.at = thread.at /\ thread'.at = thread.at
  BY TakenKept
<1>2. ASSUME ~f.active, ~thread'.active PROVE Turns' = turns
  <2>1. ~thread.active
    <3>1. SUFFICES ASSUME thread.active PROVE FALSE
      OBVIOUS
    <3>2. thread'.at > thread.begun
      BY <3>1, <1>2 DEF Moves
    <3>3. thread.at \in Nat /\ thread.begun \in Nat /\ thread.begun >= f.at
      BY <3>1, <1>1, <1>2 DEF Taken, Earlier, ThreadTyped
    <3> QED BY <3>2, <3>3, <1>1
  <2>2. Turns' = Turns
    BY <1>1, <1>2 DEF Moves
  <2> QED BY <2>1, <2>2, <1>1, <1>2 DEF Tells
<1>3. ASSUME mode = "paginated", f.head = Newest' PROVE Turns' = turns
  <2>1. Turns' = Turns
    <3>1. PICK h : h = f.head
      OBVIOUS
    <3>2. AsHead(h)
      BY <3>1, <1>1, <1>3 DEF Taken
    <3> QED BY <3>1, <3>2, <1>1, <1>3, HeadKept DEF Moves
  <2> QED BY <2>1, <1>1, <1>3 DEF Tells, Newest
<1> QED BY <1>2, <1>3

LEMMA ShownKept ==
  ASSUME ThreadTyped, Moves, NEW turns, NEW since \in Nat \ {0}, Shown(turns, since)
  PROVE  Shown(turns, since)'
<1>1. PICK m \in since .. Now : turns = past[m]
  BY DEF Shown
<1>2. Now \in Nat /\ Now' \in {Now, Now + 1} /\ \A k \in 1 .. Now : past'[k] = past[k]
  BY ThreadFacts DEF Moves
<1>3. m \in since .. Now' /\ past'[m] = past[m]
  BY <1>2
<1> QED BY <1>1, <1>3 DEF Shown

LEMMA LaterMoment ==
  ASSUME NEW since \in Nat \ {0}, NEW now \in Nat, NEW later \in {now, now + 1},
         NEW m \in since .. now - 1
  PROVE  m \in 1 .. now /\ m + 1 \in 1 .. now /\ m \in since .. later - 1
<1>1. m \in Int /\ since <= m /\ m <= now - 1
  OBVIOUS
<1> QED BY <1>1

LEMMA TakenBackKept ==
  ASSUME ThreadTyped, Moves, NEW since \in Nat \ {0}, TakenBack(since)
  PROVE  TakenBack(since)'
<1>1. PICK m \in since .. Now - 1 : Len(past[m + 1]) < Len(past[m])
  BY DEF TakenBack
<1>2. Now \in Nat /\ Now' \in {Now, Now + 1} /\ \A k \in 1 .. Now : past'[k] = past[k]
  BY ThreadFacts DEF Moves
<1>3. m \in 1 .. Now /\ m + 1 \in 1 .. Now /\ m \in since .. Now' - 1
  BY <1>2, LaterMoment
<1>4. past'[m] = past[m] /\ past'[m + 1] = past[m + 1]
  BY <1>2, <1>3
<1> QED BY <1>1, <1>3, <1>4 DEF TakenBack

LEMMA ProbesKept ==
  ASSUME ThreadTyped, ThreadTyped', Moves, NEW c, c.since \in 1 .. Now,
         NEW f, NEW turns, Probes(c, f, turns)
  PROVE  Probes(c, f, turns)'
<1> SUFFICES ASSUME f.at = c.metadata.at, f.active = c.metadata.active
             PROVE  IF c.metadata.active
                    THEN \/ TakenBack(c.since)'
                         \/ AsHead(f.head)' /\ (f.head = Newest' => Turns' = turns)
                    ELSE Shown(turns, c.since)'
  BY DEF Probes
<1>1. c.since \in Nat \ {0} /\ Now \in Nat /\ c.since <= Now
  BY ThreadFacts
<1>2. CASE ~c.metadata.active
  BY <1>1, <1>2, ShownKept DEF Probes
<1>3. CASE c.metadata.active
  <2>1. CASE TakenBack(c.since)
    BY <1>1, <1>3, <2>1, TakenBackKept
  <2>2. CASE AsHead(f.head) /\ (f.head = Newest => Turns = turns)
    <3>1. CASE Turns' = Turns
      BY <1>3, <2>2, <3>1 DEF AsHead, Newest
    <3>2. CASE Newer(Turns, Turns')
      <4>1. PICK h : h = f.head
        OBVIOUS
      <4> QED BY <1>3, <2>2, <3>2, <4>1, HeadKept
    <3>3. CASE Now' = Now + 1 /\ Len(past'[Now + 1]) < Len(past'[Now])
      BY <1>1, <1>3, <3>3 DEF TakenBack
    <3> QED BY <3>1, <3>2, <3>3 DEF Moves
  <2> QED BY <1>3, <2>1, <2>2 DEF Probes
<1> QED BY <1>2, <1>3

LEMMA SnapshotKept ==
  ASSUME ThreadTyped, ThreadTyped', Moves, NEW f, f.at \in Nat, NEW turns,
         IsSnapshot(f, turns)
  PROVE  IsSnapshot(f, turns)'
BY TakenKept, TellsKept, ShownKept DEF IsSnapshot

LEMMA PageKept ==
  ASSUME ThreadTyped, ThreadTyped', Moves, NEW c \in BusyCalls, PageHolds(c)
  PROVE  PageHolds(c)'
<1>1. /\ c.before \in Prints /\ c.first.at <= c.before.at /\ c.before.at \in Nat
      /\ c.before.at <= thread.at /\ thread.at \in Nat /\ thread'.at \in Nat
  BY DEF PageHolds, ThreadTyped, Prints
<1>2. thread.at <= thread'.at
  BY DEF Moves
<1>3. ASSUME c.before.at = thread'.at
      PROVE  /\ Len(c.got) < Len(Turns')
             /\ \A n \in 1 .. Len(c.got) : c.got[n] = Turns'[n]
  <2>1. c.before.at = thread.at /\ thread'.at = thread.at
    BY <1>1, <1>2, <1>3
  <2>2. Len(c.got) < Len(Turns) /\ \A n \in 1 .. Len(c.got) : c.got[n] = Turns[n]
    BY <2>1 DEF PageHolds
  <2>3. CASE Turns' = Turns
    BY <2>2, <2>3
  <2>4. CASE Newer(Turns, Turns')
    <3>1. /\ Len(Turns) <= Len(Turns')
          /\ \A n \in 1 .. Len(Turns) - 1 : Turns'[n] = Turns[n]
      BY <2>4 DEF Newer
    <3>2. Len(Turns) \in Nat /\ Len(Turns') \in Nat /\ Len(c.got) \in Nat
      <4>1. Turns \in Seq(Turn) /\ Turns' \in Seq(Turn)
        BY LastTurn DEF ThreadTyped, Turns, Now
      <4> QED BY <4>1, LenProperties DEF BusyCalls
    <3>3. Len(c.got) < Len(Turns')
      BY <2>2, <3>1, <3>2
    <3>4. ASSUME NEW n \in 1 .. Len(c.got) PROVE c.got[n] = Turns'[n]
      <4>1. n \in 1 .. Len(Turns) - 1
        BY <2>2, <3>2
      <4> QED BY <4>1, <2>2, <3>1
    <3> QED BY <3>3, <3>4
  <2> QED BY <2>1, <2>3, <2>4 DEF Moves
<1> QED BY <1>1, <1>2, <1>3 DEF PageHolds

LEMMA RemetaKept ==
  ASSUME ThreadTyped, ThreadTyped', Moves, NEW c \in BusyCalls, c.since \in 1 .. Now,
         c.first \in Prints, Taken(c.first), RemetaHolds(c)
  PROVE  RemetaHolds(c)'
<1>1. /\ c.before \in Prints /\ c.first.at <= c.before.at /\ c.before.at \in Nat
      /\ c.before.at <= thread.at /\ thread.at \in Nat /\ thread'.at \in Nat
  BY DEF RemetaHolds, ThreadTyped, Prints
<1>2. thread.at <= thread'.at
  BY DEF Moves
<1>3. ASSUME c.before.at = thread'.at PROVE Shown(c.got, c.since)'
  <2>1. Shown(c.got, c.since)
    BY <1>1, <1>2, <1>3 DEF RemetaHolds
  <2> QED BY <2>1, ShownKept, ThreadFacts
<1>4. Tells(c.first, c.got)'
  BY TellsKept DEF RemetaHolds, Prints
<1> QED BY <1>1, <1>2, <1>3, <1>4 DEF RemetaHolds

LEMMA ReprobeKept ==
  ASSUME ThreadTyped, ThreadTyped', Moves, NEW c \in BusyCalls, c.since \in 1 .. Now,
         c.first \in Prints, Taken(c.first), ReprobeHolds(c)
  PROVE  ReprobeHolds(c)'
<1>1. /\ c.before \in Prints /\ c.metadata \in Stamps /\ c.metadata.at \in Nat
      /\ c.first.at <= c.before.at /\ c.before.at <= c.metadata.at
      /\ c.metadata.at <= thread.at /\ thread.at \in Nat /\ thread'.at \in Nat
  BY DEF ReprobeHolds, ThreadTyped, Stamps
<1>2. thread.at <= thread'.at
  BY DEF Moves
<1>3. ASSUME c.before.at = c.metadata.at PROVE Shown(c.got, c.since)'
  <2>1. Shown(c.got, c.since)
    BY <1>3 DEF ReprobeHolds
  <2> QED BY <2>1, ShownKept, ThreadFacts
<1>4. Tells(c.first, c.got)'
  BY TellsKept DEF ReprobeHolds, Prints
<1> QED BY <1>1, <1>2, <1>3, <1>4 DEF ReprobeHolds

LEMMA ProbeKept ==
  ASSUME ThreadTyped, ThreadTyped', Moves, NEW r, NEW c, c.since \in 1 .. Now,
         ProbeHolds(r, c)
  PROVE  ProbeHolds(r, c)'
<1>1. mode' = mode /\ sync' = sync /\ stored' = stored
  BY DEF Moves, bridge
<1>2. Earlier(c.metadata)'
  BY EarlierKept DEF ProbeHolds, Stamps
<1>3. ASSUME r \in JobCalls, sync # None PROVE Probes(c, sync, stored.turns)'
  <2>1. PICK f, turns : f = sync /\ turns = stored.turns
    OBVIOUS
  <2>2. Probes(c, f, turns)
    BY <1>3, <2>1 DEF ProbeHolds
  <2>3. Probes(c, f, turns)'
    BY <2>2, ProbesKept
  <2> QED BY <1>1, <2>1, <2>3
<1>4. ASSUME r \notin JobCalls, c.known # None
      PROVE  Probes(c, c.known.fingerprint, c.known.turns)'
  BY <1>4, ProbesKept DEF ProbeHolds
<1> QED BY <1>1, <1>2, <1>3, <1>4 DEF ProbeHolds

LEMMA BusyKept ==
  ASSUME ThreadTyped, ThreadTyped', Moves, NEW r, NEW c, BusyHolds(r, c)
  PROVE  BusyHolds(r, c)'
<1>1. c \in BusyCalls /\ c.since \in 1 .. Now /\ c.since \in 1 .. Now'
  BY ThreadFacts DEF BusyHolds, Moves
<1>2. c.known # None => IsSnapshot(c.known.fingerprint, c.known.turns)'
  BY <1>1, SnapshotKept DEF BusyHolds, BusyCalls, Snapshots, Prints
<1>3. c.pc \in {"legacy", "page", "remeta", "reprobe", "store"} => Taken(c.first)'
  BY TakenKept DEF BusyHolds, Prints
<1>4. c.pc = "probe" => ProbeHolds(r, c)'
  BY <1>1, ProbeKept DEF BusyHolds
<1>5. c.pc = "page" => PageHolds(c)'
  BY <1>1, PageKept DEF BusyHolds
<1>6. c.pc = "remeta" => RemetaHolds(c)'
  BY <1>1, RemetaKept DEF BusyHolds
<1>7. c.pc = "reprobe" => ReprobeHolds(c)'
  BY <1>1, ReprobeKept DEF BusyHolds
<1>8. c.pc = "store" => StoreHolds(r, c)'
  BY <1>1, ShownKept, TellsKept, ThreadFacts DEF BusyHolds, StoreHolds, Prints
<1>9. mode' = mode /\ lock' = lock
  BY DEF Moves, bridge
<1> QED BY <1>1, <1>2, <1>3, <1>4, <1>5, <1>6, <1>7, <1>8, <1>9 DEF BusyHolds

LEMMA BridgeKept ==
  ASSUME ThreadTyped, ThreadTyped', Moves, BridgeHolds
  PROVE  BridgeHolds'
<1>1. UNCHANGED <<cache, stored, sync, lock, calls>>
  BY DEF Moves, bridge
<1>2. cache # None => IsSnapshot(cache.fingerprint, cache.turns)'
  <2>1. SUFFICES ASSUME cache # None
                 PROVE  IsSnapshot(cache.fingerprint, cache.turns)'
    OBVIOUS
  <2>2. PICK f, turns : f = cache.fingerprint /\ turns = cache.turns
    OBVIOUS
  <2>3. IsSnapshot(f, turns) /\ f.at \in Nat
    BY <2>1, <2>2 DEF BridgeHolds, Snapshots, Prints
  <2>4. IsSnapshot(f, turns)'
    BY <2>3, SnapshotKept
  <2> QED BY <1>1, <2>2, <2>4
<1>3. sync # None => IsSnapshot(sync, stored.turns)'
  <2>1. SUFFICES ASSUME sync # None PROVE IsSnapshot(sync, stored.turns)'
    OBVIOUS
  <2>2. PICK f, turns : f = sync /\ turns = stored.turns
    OBVIOUS
  <2>3. IsSnapshot(f, turns) /\ f.at \in Nat
    BY <2>1, <2>2 DEF BridgeHolds, Prints
  <2>4. IsSnapshot(f, turns)'
    BY <2>3, SnapshotKept
  <2> QED BY <1>1, <2>2, <2>4
<1>4. Shown(stored.turns, 1)'
  <2>1. PICK turns : turns = stored.turns
    OBVIOUS
  <2>2. Shown(turns, 1)'
    BY <2>1, ShownKept DEF BridgeHolds
  <2> QED BY <1>1, <2>1, <2>2
<1>5. lock # None => calls[lock].since <= Now'
  BY ThreadFacts DEF BridgeHolds, BusyCalls, Moves
<1>6. lock # None => \E m \in 1 .. calls[lock].since : stored.turns = past'[m]
  <2>1. SUFFICES ASSUME lock # None
                 PROVE  \E m \in 1 .. calls[lock].since : stored.turns = past'[m]
    OBVIOUS
  <2>2. PICK m \in 1 .. calls[lock].since : stored.turns = past[m]
    BY <2>1 DEF BridgeHolds
  <2>3. m \in 1 .. Now
    BY <2>1, ThreadFacts DEF BridgeHolds, BusyCalls
  <2>4. past'[m] = past[m]
    BY <2>3 DEF Moves
  <2> QED BY <2>2, <2>4
<1> QED BY <1>1, <1>2, <1>3, <1>4, <1>5, <1>6 DEF BridgeHolds

LEMMA CodexKeeps ==
  ASSUME HistoryInv, Codex
  PROVE  HistoryInv'
<1>1. ThreadTyped /\ ThreadTyped' /\ Moves /\ BridgeHolds /\ CallsHold
  BY CodexMoves DEF HistoryInv
<1>2. BridgeHolds'
  BY <1>1, BridgeKept
<1>3. CallsHold'
  <2>1. calls' = calls
    BY <1>1 DEF Moves
  <2>2. ASSUME NEW r \in Readers PROVE CallHolds(r, calls[r])'
    <3>1. PICK c : c = calls[r]
      OBVIOUS
    <3>2. CallHolds(r, c)'
      BY <1>1, <3>1, BusyKept DEF CallsHold, CallHolds
    <3> QED BY <2>1, <3>1, <3>2
  <2> QED BY <1>1, <2>1, <2>2 DEF CallsHold
<1> QED BY <1>1, <1>2, <1>3 DEF HistoryInv

-----------------------------------------------------------------------------
(* What is said of the thread and of other calls when the Bridge takes a step *)

LEMMA NoneIsNobody == None \notin Readers /\ RegistryCalls \cap JobCalls = {}
  BY HistoryAssumption

LEMMA Still ==
  ASSUME UNCHANGED codex
  PROVE  /\ mode' = mode /\ past' = past /\ thread' = thread /\ clock' = clock
         /\ Now' = Now /\ Turns' = Turns /\ Newest' = Newest
         /\ ThreadTyped => ThreadTyped'
<1>1. mode' = mode /\ past' = past /\ thread' = thread /\ clock' = clock
  BY DEF codex
<1>2. Now' = Now /\ Turns' = Turns /\ Newest' = Newest
  BY <1>1 DEF Now, Turns, Newest
<1> QED BY <1>1, <1>2 DEF ThreadTyped

LEMMA StillSays ==
  ASSUME UNCHANGED codex, NEW f, NEW turns, NEW since
  PROVE  /\ Taken(f) => Taken(f)'
         /\ Tells(f, turns) => Tells(f, turns)'
         /\ Shown(turns, since) => Shown(turns, since)'
         /\ IsSnapshot(f, turns) => IsSnapshot(f, turns)'
<1>1. Taken(f) => Taken(f)'
  BY Still DEF Taken, Earlier, AsHead
<1>2. Tells(f, turns) => Tells(f, turns)'
  BY Still DEF Tells
<1>3. \A n : Shown(turns, n) => Shown(turns, n)'
  BY Still DEF Shown
<1> QED BY <1>1, <1>2, <1>3 DEF IsSnapshot

LEMMA StillProbes ==
  ASSUME UNCHANGED codex, NEW c, NEW f, NEW turns, Probes(c, f, turns)
  PROVE  Probes(c, f, turns)'
BY Still DEF Probes, TakenBack, AsHead, Shown

LEMMA StillBusy ==
  ASSUME UNCHANGED codex, NEW r, NEW c, BusyHolds(r, c),
         r \in JobCalls => sync' = sync /\ stored'.turns = stored.turns /\ lock' = lock
  PROVE  BusyHolds(r, c)'
<1>1. c.since \in 1 .. Now' /\ mode' = mode
  BY Still DEF BusyHolds
<1>2. c.known # None => IsSnapshot(c.known.fingerprint, c.known.turns)'
  BY StillSays DEF BusyHolds
<1>3. c.pc \in {"legacy", "page", "remeta", "reprobe", "store"} => Taken(c.first)'
  BY StillSays DEF BusyHolds
<1>4. c.pc = "probe" => ProbeHolds(r, c)'
  <2>1. SUFFICES ASSUME c.pc = "probe" PROVE ProbeHolds(r, c)'
    OBVIOUS
  <2>2. ProbeHolds(r, c)
    BY <2>1 DEF BusyHolds
  <2>3. Earlier(c.metadata)'
    BY <2>2, Still DEF ProbeHolds, Earlier
  <2>4. ASSUME r \in JobCalls, sync' # None PROVE Probes(c, sync, stored.turns)'
    <3>1. PICK f, turns : f = sync /\ turns = stored.turns
      OBVIOUS
    <3>2. f = sync' /\ turns = stored'.turns
      BY <2>4, <3>1
    <3>3. Probes(c, f, turns)'
      BY <2>2, <2>4, <3>1, <3>2, StillProbes DEF ProbeHolds
    <3> QED BY <3>2, <3>3
  <2>5. r \notin JobCalls /\ c.known # None => Probes(c, c.known.fingerprint, c.known.turns)'
    BY <2>2, StillProbes DEF ProbeHolds
  <2> QED BY <1>1, <2>2, <2>3, <2>4, <2>5 DEF ProbeHolds
<1>5. c.pc = "page" => PageHolds(c)'
  BY Still DEF BusyHolds, PageHolds
<1>6. c.pc = "remeta" => RemetaHolds(c)'
  BY Still, StillSays DEF BusyHolds, RemetaHolds
<1>7. c.pc = "reprobe" => ReprobeHolds(c)'
  BY Still, StillSays DEF BusyHolds, ReprobeHolds
<1>8. c.pc = "store" => StoreHolds(r, c)'
  BY StillSays DEF BusyHolds, StoreHolds
<1> QED BY <1>1, <1>2, <1>3, <1>4, <1>5, <1>6, <1>7, <1>8 DEF BusyHolds

LEMMA OthersHold ==
  ASSUME CallsHold, UNCHANGED codex, NEW r \in Readers, NEW asked,
         calls' = [calls EXCEPT ![r] = asked], CallHolds(r, asked)',
         \/ sync' = sync /\ stored'.turns = stored.turns /\ lock' = lock
         \/ lock \in {r, None}
  PROVE  CallsHold'
<1>1. DOMAIN calls' = Readers /\ calls'[r] = asked
  BY DEF CallsHold
<1>2. ASSUME NEW q \in Readers, q # r PROVE CallHolds(q, calls[q])'
  <2>1. PICK c : c = calls[q]
    OBVIOUS
  <2>2. calls'[q] = c
    BY <1>2, <2>1 DEF CallsHold
  <2>3. CallHolds(q, c)
    BY <2>1 DEF CallsHold
  <2>4. CallHolds(q, c)'
    <3>1. CASE BusyHolds(q, c)
      <4>1. q \in JobCalls => lock = q
        BY <3>1 DEF BusyHolds
      <4>2. q \in JobCalls => sync' = sync /\ stored'.turns = stored.turns /\ lock' = lock
        BY <4>1, <1>2, NoneIsNobody
      <4> QED BY <3>1, <4>2, StillBusy DEF CallHolds
    <3> QED BY <2>3, <3>1 DEF CallHolds
  <2> QED BY <2>2, <2>4
<1>3. CallHolds(r, calls[r])'
  BY <1>1
<1> QED BY <1>1, <1>2, <1>3 DEF CallsHold

LEMMA StillBridge ==
  ASSUME BridgeHolds, UNCHANGED codex, cache' = cache, sync' = sync,
         stored'.turns = stored.turns
  PROVE  /\ cache' # None => IsSnapshot(cache.fingerprint, cache.turns)'
         /\ Shown(stored.turns, 1)'
         /\ sync' # None => IsSnapshot(sync, stored.turns)'
<1>1. PICK f, turns : f = cache.fingerprint /\ turns = cache.turns
  OBVIOUS
<1>2. cache # None => IsSnapshot(f, turns)'
  BY <1>1, StillSays DEF BridgeHolds
<1>3. f = cache'.fingerprint /\ turns = cache'.turns
  BY <1>1
<1>4. PICK g, kept : g = sync /\ kept = stored.turns
  OBVIOUS
<1>5. Shown(kept, 1)' /\ (g # None => IsSnapshot(g, kept)')
  BY <1>4, StillSays DEF BridgeHolds
<1>6. g = sync' /\ kept = stored'.turns
  BY <1>4
<1>7. Shown(stored.turns, 1)' /\ (sync' # None => IsSnapshot(sync, stored.turns)')
  BY <1>5, <1>6
<1>8. cache' # None => IsSnapshot(cache.fingerprint, cache.turns)'
  BY <1>2, <1>3
<1> QED BY <1>7, <1>8

LEMMA CallGoesOn ==
  ASSUME HistoryInv, UNCHANGED codex, UNCHANGED bridge, NEW r \in Readers, NEW asked,
         calls' = [calls EXCEPT ![r] = asked], CallHolds(r, asked),
         lock = r => asked \in BusyCalls /\ asked.since = calls[r].since
  PROVE  HistoryInv'
<1>1. UNCHANGED <<cache, stored, sync, lock>>
  BY DEF bridge
<1>2. CallsHold'
  <2>1. CallHolds(r, asked)'
    BY <1>1, StillBusy DEF CallHolds
  <2> QED BY <1>1, <2>1, OthersHold DEF HistoryInv
<1>3. BridgeHolds'
  <2>1. BridgeHolds /\ DOMAIN calls = Readers
    BY DEF HistoryInv, CallsHold
  <2>2. lock # None =>
          /\ calls'[lock] \in BusyCalls /\ calls'[lock].since <= Now
          /\ \E m \in 1 .. calls'[lock].since : stored.turns = past[m]
    <3>1. lock # None => calls'[lock].since = calls[lock].since /\ calls'[lock] \in BusyCalls
      BY <2>1 DEF BridgeHolds
    <3> QED BY <2>1, <3>1 DEF BridgeHolds
  <2>3. /\ cache' # None => IsSnapshot(cache.fingerprint, cache.turns)'
        /\ Shown(stored.turns, 1)'
        /\ sync' # None => IsSnapshot(sync, stored.turns)'
    BY <1>1, <2>1, StillBridge
  <2> QED BY <1>1, <2>1, <2>2, <2>3, Still DEF BridgeHolds
<1> QED BY <1>2, <1>3, Still DEF HistoryInv

LEMMA CallReleases ==
  ASSUME HistoryInv, UNCHANGED codex, NEW r \in Readers, calls' = [calls EXCEPT ![r] = NoCall],
         lock \in {r, None}, lock' = None, cache' = cache, sync' = sync,
         stored' \in [turns : Seq(Turn), synchronized : BOOLEAN],
         stored'.turns = stored.turns
  PROVE  HistoryInv'
<1>1. CallsHold'
  <2>1. CallHolds(r, NoCall)'
    BY DEF CallHolds, NoCall
  <2>2. PICK asked : asked = NoCall
    OBVIOUS
  <2>3. CallHolds(r, asked)' /\ calls' = [calls EXCEPT ![r] = asked]
    BY <2>2 DEF CallHolds
  <2> QED BY <2>3, OthersHold DEF HistoryInv
<1>2. BridgeHolds'
  <2>1. BridgeHolds
    BY DEF HistoryInv
  <2>2. /\ cache' # None => IsSnapshot(cache.fingerprint, cache.turns)'
        /\ Shown(stored.turns, 1)'
        /\ sync' # None => IsSnapshot(sync, stored.turns)'
    BY <2>1, StillBridge
  <2> QED BY <2>1, <2>2 DEF BridgeHolds
<1> QED BY <1>1, <1>2, Still DEF HistoryInv

LEMMA CallRemembers ==
  ASSUME HistoryInv, UNCHANGED codex, NEW r \in Readers, r \notin JobCalls,
         calls' = [calls EXCEPT ![r] = NoCall], UNCHANGED <<stored, sync, lock>>,
         NEW f \in Prints, NEW turns \in Seq(Turn), IsSnapshot(f, turns),
         cache' = [fingerprint |-> f, turns |-> turns]
  PROVE  HistoryInv'
<1>1. CallsHold'
  <2>1. PICK asked : asked = NoCall
    OBVIOUS
  <2>2. CallHolds(r, asked)' /\ calls' = [calls EXCEPT ![r] = asked]
    BY <2>1 DEF CallHolds
  <2> QED BY <2>2, OthersHold DEF HistoryInv
<1>2. BridgeHolds'
  <2>1. BridgeHolds /\ DOMAIN calls = Readers
    BY DEF HistoryInv, CallsHold
  <2>2. cache' \in Snapshots /\ cache'.fingerprint = f /\ cache'.turns = turns
    BY DEF Snapshots
  <2>3. IsSnapshot(f, turns)'
    BY StillSays
  <2>4. IsSnapshot(cache.fingerprint, cache.turns)'
    BY <2>2, <2>3
  <2>5. PICK g, kept : g = sync /\ kept = stored.turns
    OBVIOUS
  <2>6. Shown(kept, 1)' /\ (g # None => IsSnapshot(g, kept)')
    BY <2>1, <2>5, StillSays DEF BridgeHolds
  <2>7. g = sync' /\ kept = stored'.turns
    BY <2>5
  <2>8. Shown(stored.turns, 1)' /\ (sync' # None => IsSnapshot(sync, stored.turns)')
    BY <2>6, <2>7
  <2>9. lock # None => lock # r /\ calls'[lock] = calls[lock]
    BY <2>1 DEF BridgeHolds
  <2> QED BY <2>1, <2>2, <2>4, <2>8, <2>9, Still DEF BridgeHolds
<1> QED BY <1>1, <1>2, Still DEF HistoryInv

LEMMA CallStores ==
  ASSUME HistoryInv, UNCHANGED codex, NEW r \in JobCalls, NEW f \in Prints,
         NEW turns \in Seq(Turn), IsSnapshot(f, turns), lock = r, lock' = None,
         calls' = [calls EXCEPT ![r] = NoCall], cache' = cache,
         sync' = f, stored' = [turns |-> turns, synchronized |-> TRUE]
  PROVE  HistoryInv'
<1>1. CallsHold'
  <2>1. PICK asked : asked = NoCall
    OBVIOUS
  <2>2. CallHolds(r, asked)' /\ calls' = [calls EXCEPT ![r] = asked]
    BY <2>1 DEF CallHolds
  <2> QED BY <2>2, OthersHold DEF HistoryInv, Readers
<1>2. BridgeHolds'
  <2>1. BridgeHolds
    BY DEF HistoryInv
  <2>2. PICK g, known : g = cache.fingerprint /\ known = cache.turns
    OBVIOUS
  <2>3. cache # None => IsSnapshot(g, known)'
    BY <2>1, <2>2, StillSays DEF BridgeHolds
  <2>4. g = cache'.fingerprint /\ known = cache'.turns
    BY <2>2
  <2>5. cache' # None => IsSnapshot(cache.fingerprint, cache.turns)'
    BY <2>3, <2>4
  <2>6. IsSnapshot(f, turns)' /\ Shown(turns, 1)'
    BY StillSays DEF IsSnapshot
  <2>7. sync' = f /\ stored'.turns = turns
    OBVIOUS
  <2>8. IsSnapshot(sync, stored.turns)' /\ Shown(stored.turns, 1)'
    BY <2>6, <2>7
  <2>9. stored' \in [turns : Seq(Turn), synchronized : BOOLEAN] /\ sync' \in Prints
    OBVIOUS
  <2> QED BY <2>1, <2>5, <2>8, <2>9 DEF BridgeHolds
<1> QED BY <1>1, <1>2, Still DEF HistoryInv

LEMMA CallLocks ==
  ASSUME HistoryInv, UNCHANGED codex, NEW r \in JobCalls, NEW asked, BusyHolds(r, asked)',
         asked.since = Now, lock = None, lock' = r, UNCHANGED <<cache, stored, sync>>,
         calls' = [calls EXCEPT ![r] = asked]
  PROVE  HistoryInv'
<1>1. CallsHold'
  BY OthersHold DEF HistoryInv, Readers, CallHolds
<1>2. BridgeHolds'
  <2>1. BridgeHolds /\ DOMAIN calls = Readers
    BY DEF HistoryInv, CallsHold
  <2>2. /\ cache' # None => IsSnapshot(cache.fingerprint, cache.turns)'
        /\ Shown(stored.turns, 1)'
        /\ sync' # None => IsSnapshot(sync, stored.turns)'
    BY <2>1, StillBridge
  <2>3. calls'[lock'] = asked /\ asked \in BusyCalls /\ asked.since <= Now'
    BY <2>1 DEF Readers, BusyHolds
  <2>4. \E m \in 1 .. asked.since : stored.turns = past[m]
    BY <2>1 DEF BridgeHolds, Shown
  <2> QED BY <2>1, <2>2, <2>3, <2>4, Still DEF BridgeHolds
<1> QED BY <1>1, <1>2, Still DEF HistoryInv

-----------------------------------------------------------------------------
(* Each step keeps the invariant and is as the property says *)
StepHolds == HistoryInv' /\ CurrentAnswer /\ LaterStore

(* The cases in which an unchanged fingerprint does not tell *)
Excused(c) ==
  \/ mode = "legacy" /\ SeenActive(c)
  \/ c.pc = "probe" /\ c.metadata.active /\ TakenBack(c.since)

LEMMA Answers ==
  ASSUME NEW r, NEW turns, NEW degraded, Answered(r, turns, degraded), Shown(turns, 1),
         degraded \/ calls[r].pc = "lock" \/ Excused(calls[r]) \/ Shown(turns, calls[r].since)
  PROVE  CurrentAnswer
<1>1. reply'.by = r /\ reply'.turns = turns /\ reply'.degraded = degraded
  BY DEF Answered
<1>2. turns \in Contents
  BY DEF Shown, Contents
<1> QED BY <1>1, <1>2 DEF CurrentAnswer, Shown, Excused

LEMMA Silence ==
  ASSUME Silent
  PROVE  CurrentAnswer
BY DEF Silent, CurrentAnswer

LEMMA StoreStays ==
  ASSUME HistoryInv, stored'.turns = stored.turns
  PROVE  LaterStore
<1>1. PICK m \in 1 .. Now : stored.turns = past[m]
  BY DEF HistoryInv, BridgeHolds, Shown
<1> QED BY <1>1 DEF LaterStore

LEMMA Earliest ==
  ASSUME HistoryInv, NEW turns, NEW since \in 1 .. Now, Shown(turns, since)
  PROVE  Shown(turns, 1)
BY ThreadFacts DEF HistoryInv, Shown

LEMMA FallsHolds ==
  ASSUME HistoryInv, UNCHANGED codex, NEW r \in Readers, BusyHolds(r, calls[r]), Falls(r)
  PROVE  StepHolds
<1>1. CASE r \in JobCalls
  <2>1. HydrationFails(r)
    BY <1>1 DEF Falls
  <2>2. /\ lock = r /\ lock' = None /\ cache' = cache /\ sync' = sync
        /\ stored' = [stored EXCEPT !.synchronized = FALSE]
        /\ Answered(r, stored.turns, TRUE) /\ calls' = [calls EXCEPT ![r] = NoCall]
    BY <1>1, <2>1 DEF HydrationFails, BusyHolds, Answered
  <2>3. /\ stored' \in [turns : Seq(Turn), synchronized : BOOLEAN]
        /\ stored'.turns = stored.turns
    BY <2>2 DEF HistoryInv, BridgeHolds
  <2>4. HistoryInv'
    BY <2>2, <2>3, CallReleases
  <2>5. Shown(stored.turns, 1)
    BY DEF HistoryInv, BridgeHolds
  <2>6. CurrentAnswer
    BY <2>2, <2>5, Answers
  <2> QED BY <2>3, <2>4, <2>6, StoreStays DEF StepHolds
<1>2. CASE r \notin JobCalls
  <2> DEFINE c == calls[r]
             turns == IF c.known # None THEN c.known.turns ELSE stored.turns
  <2>1. RegistryFails(r, c)
    BY <1>2 DEF Falls
  <2>2. Answered(r, turns, TRUE) /\ UNCHANGED bridge /\ calls' = [calls EXCEPT ![r] = NoCall]
    BY <2>1 DEF RegistryFails, Answered
  <2>3. Shown(turns, 1)
    BY DEF HistoryInv, BridgeHolds, BusyHolds, IsSnapshot
  <2>4. CurrentAnswer
    BY <2>2, <2>3, Answers
  <2>5. lock # r
    BY <1>2, NoneIsNobody DEF HistoryInv, BridgeHolds
  <2>6. HistoryInv'
    BY <2>2, <2>5, CallGoesOn DEF CallHolds
  <2>7. stored'.turns = stored.turns
    BY <2>2 DEF bridge
  <2> QED BY <2>4, <2>6, <2>7, StoreStays DEF StepHolds
<1> QED BY <1>1, <1>2

LEMMA ReadsHolds ==
  ASSUME HistoryInv, UNCHANGED codex, NEW r \in Readers, NEW c, c = calls[r], BusyHolds(r, c),
         c.first \in Prints, Taken(c.first), NEW turns \in Seq(Turn), Shown(turns, c.since),
         Tells(c.first, turns), Reads(r, c, turns)
  PROVE  StepHolds
<1>1. CASE r \in JobCalls
  <2>1. PICK asked : asked = [c EXCEPT !.pc = "store", !.got = turns]
    OBVIOUS
  <2>2. Goes(r, asked) /\ UNCHANGED bridge
    BY <1>1, <2>1 DEF Reads
  <2>3. calls' = [calls EXCEPT ![r] = asked] /\ Silent /\ stored' = stored
    BY <2>2 DEF Goes, bridge
  <2>4. /\ asked \in BusyCalls /\ asked.since = c.since /\ asked.known = c.known
        /\ asked.pc = "store" /\ asked.got = turns /\ asked.first = c.first
    BY <2>1 DEF BusyHolds, BusyCalls, Busy
  <2>5. StoreHolds(r, asked)
    BY <1>1, <2>4 DEF StoreHolds
  <2>6. BusyHolds(r, asked)
    BY <2>4, <2>5 DEF BusyHolds
  <2>7. HistoryInv'
    BY <2>2, <2>3, <2>4, <2>6, CallGoesOn DEF CallHolds
  <2> QED BY <2>3, <2>7, StoreStays, Silence DEF StepHolds
<1>2. CASE r \notin JobCalls
  <2>1. /\ cache' = [fingerprint |-> c.first, turns |-> turns]
        /\ Answered(r, turns, FALSE) /\ UNCHANGED <<stored, sync, lock>>
        /\ calls' = [calls EXCEPT ![r] = NoCall]
    BY <1>2 DEF Reads, Answered
  <2>2. Shown(turns, 1)
    BY Earliest DEF BusyHolds
  <2>3. IsSnapshot(c.first, turns)
    BY <2>2 DEF IsSnapshot
  <2>4. HistoryInv'
    BY <1>2, <2>1, <2>3, CallRemembers
  <2>5. CurrentAnswer
    BY <2>1, <2>2, Answers
  <2> QED BY <2>1, <2>4, <2>5, StoreStays DEF StepHolds
<1> QED BY <1>1, <1>2

LEMMA ComparesHolds ==
  ASSUME HistoryInv, UNCHANGED codex, NEW r \in Readers, BusyHolds(r, calls[r]),
         NEW c \in BusyCalls, c.since = calls[r].since, c.known = calls[r].known, c.got = <<>>,
         NEW f \in Prints, Taken(f),
         r \in JobCalls /\ sync # None /\ sync = f => Excused(calls[r]) \/ Shown(stored.turns, c.since),
         r \notin JobCalls /\ c.known # None /\ c.known.fingerprint = f =>
           Excused(calls[r]) \/ Shown(c.known.turns, c.since),
         Compares(r, c, f)
  PROVE  StepHolds
<1> DEFINE known == IF r \in JobCalls THEN sync # None /\ sync = f /\ ~due
                    ELSE c.known # None /\ c.known.fingerprint = f
<1>1. CASE known /\ r \in JobCalls
  <2>1. /\ lock' = None /\ UNCHANGED <<cache, stored, sync>>
        /\ Answered(r, stored.turns, ~stored.synchronized)
        /\ calls' = [calls EXCEPT ![r] = NoCall] /\ sync = f
    BY <1>1 DEF Compares, Answered
  <2>2. /\ lock = r /\ Shown(stored.turns, 1)
        /\ stored \in [turns : Seq(Turn), synchronized : BOOLEAN]
    BY <1>1 DEF BusyHolds, HistoryInv, BridgeHolds
  <2>3. HistoryInv'
    BY <2>1, <2>2, CallReleases
  <2>4. CurrentAnswer
    BY <1>1, <2>1, <2>2, Answers
  <2> QED BY <2>1, <2>3, <2>4, StoreStays DEF StepHolds
<1>2. CASE known /\ r \notin JobCalls
  <2>1. /\ Answered(r, c.known.turns, FALSE) /\ UNCHANGED bridge
        /\ calls' = [calls EXCEPT ![r] = NoCall]
    BY <1>2 DEF Compares, Answered
  <2>2. Shown(c.known.turns, 1)
    BY <1>2 DEF BusyHolds, IsSnapshot
  <2>3. CurrentAnswer
    BY <1>2, <2>1, <2>2, Answers
  <2>4. lock # r
    BY <1>2, NoneIsNobody DEF HistoryInv, BridgeHolds
  <2>5. HistoryInv'
    BY <2>1, <2>4, CallGoesOn DEF CallHolds
  <2>6. stored'.turns = stored.turns
    BY <2>1 DEF bridge
  <2> QED BY <2>3, <2>5, <2>6, StoreStays DEF StepHolds
<1>3. CASE ~known
  <2>1. PICK asked : asked = [c EXCEPT !.pc = IF mode = "legacy" THEN "legacy" ELSE "page",
                                     !.first = f, !.before = f, !.metadata = None]
    OBVIOUS
  <2>2. Goes(r, asked) /\ UNCHANGED bridge
    BY <1>3, <2>1 DEF Compares
  <2>3. calls' = [calls EXCEPT ![r] = asked] /\ Silent /\ stored' = stored
    BY <2>2 DEF Goes, bridge
  <2>4. /\ asked \in BusyCalls /\ asked.since = c.since /\ asked.known = c.known
        /\ asked.pc = (IF mode = "legacy" THEN "legacy" ELSE "page")
        /\ asked.first = f /\ asked.before = f /\ asked.got = <<>>
    BY <2>1 DEF BusyCalls, Busy
  <2>5. PageHolds(asked)
    <3>1. f.at \in Nat /\ f.at <= thread.at
      BY DEF Prints, Taken, Earlier
    <3>2. Len(<<>>) = 0 /\ Len(Turns) > 0
      BY ThreadFacts DEF HistoryInv
    <3> QED BY <2>4, <3>1, <3>2 DEF PageHolds
  <2>6. BusyHolds(r, asked)
    BY <2>4, <2>5 DEF BusyHolds
  <2>7. HistoryInv'
    BY <2>2, <2>3, <2>4, <2>6, CallGoesOn DEF CallHolds
  <2> QED BY <2>3, <2>7, StoreStays, Silence DEF StepHolds
<1> QED BY <1>1, <1>2, <1>3

LEMMA OnACall ==
  ASSUME HistoryInv, NEW r \in Readers, calls[r].pc \in Busy
  PROVE  /\ BusyHolds(r, calls[r]) /\ calls[r] \in BusyCalls
         /\ calls[r].since \in 1 .. Now
BY DEF HistoryInv, CallsHold, CallHolds, BusyHolds, NoCall, Busy

LEMMA AsksRegistryHolds ==
  ASSUME HistoryInv, NEW r \in Readers, AsksRegistry(r)
  PROVE  StepHolds
<1>1. PICK asked : asked = Call(cache)
  OBVIOUS
<1>2. /\ calls' = [calls EXCEPT ![r] = asked] /\ Silent /\ UNCHANGED codex /\ UNCHANGED bridge
      /\ r \notin JobCalls
  BY <1>1, NoneIsNobody DEF AsksRegistry, Goes
<1>3. ThreadTyped /\ BridgeHolds
  BY DEF HistoryInv
<1>4. /\ asked \in BusyCalls /\ asked.pc = "metadata" /\ asked.since = Now
      /\ asked.known = cache /\ asked.got = <<>>
  <2>1. Now \in Nat /\ cache \in Snapshots \cup {None} /\ <<>> \in Seq(Turn)
    BY <1>3, ThreadFacts, EmptySeq DEF BridgeHolds
  <2> QED BY <1>1, <2>1 DEF Call, BusyCalls, Busy
<1>5. BusyHolds(r, asked)
  BY <1>2, <1>3, <1>4, ThreadFacts DEF BusyHolds, BridgeHolds
<1>6. lock # r
  BY <1>2, <1>3, NoneIsNobody DEF BridgeHolds
<1>7. HistoryInv'
  BY <1>2, <1>5, <1>6, CallGoesOn DEF CallHolds
<1> QED BY <1>2, <1>7, StoreStays, Silence DEF StepHolds, bridge

LEMMA AsksJobHolds ==
  ASSUME HistoryInv, NEW r \in Readers, AsksJob(r)
  PROVE  StepHolds
<1>1. PICK asked : asked = [pc |-> "lock"]
  OBVIOUS
<1>2. /\ calls' = [calls EXCEPT ![r] = asked] /\ Silent /\ UNCHANGED codex /\ UNCHANGED bridge
      /\ r \in JobCalls /\ calls[r].pc = "idle"
  BY <1>1 DEF AsksJob, Goes
<1>3. lock # r
  BY <1>2, NoneIsNobody DEF HistoryInv, BridgeHolds, BusyCalls, Busy
<1>4. HistoryInv'
  BY <1>1, <1>2, <1>3, CallGoesOn DEF CallHolds
<1> QED BY <1>2, <1>4, StoreStays, Silence DEF StepHolds, bridge

LEMMA LocksHolds ==
  ASSUME HistoryInv, NEW r \in Readers, Locks(r)
  PROVE  StepHolds
<1>1. calls[r].pc = "lock" /\ lock = None /\ UNCHANGED codex
  BY DEF Locks, LockIsFree
<1>2. ThreadTyped /\ BridgeHolds
  BY DEF HistoryInv
<1>3. r \in JobCalls
  BY <1>1 DEF HistoryInv, CallsHold, CallHolds, BusyHolds, BusyCalls, Busy, NoCall
<1>4. CASE held
  <2>1. /\ Answered(r, stored.turns, ~stored.synchronized) /\ UNCHANGED bridge
        /\ calls' = [calls EXCEPT ![r] = NoCall]
    BY <1>4 DEF Locks, Answered
  <2>2. CurrentAnswer
    BY <1>1, <1>2, <2>1, Answers DEF BridgeHolds
  <2>3. lock # r
    BY <1>1, NoneIsNobody
  <2>4. HistoryInv'
    BY <1>1, <2>1, <2>3, CallGoesOn DEF CallHolds
  <2> QED BY <2>1, <2>2, <2>4, StoreStays DEF StepHolds, bridge
<1>5. CASE ~held
  <2>1. PICK asked : asked = Call(None)
    OBVIOUS
  <2>2. /\ calls' = [calls EXCEPT ![r] = asked] /\ Silent /\ lock' = r
        /\ UNCHANGED <<cache, stored, sync>>
    BY <1>5, <2>1 DEF Locks, Goes
  <2>3. /\ asked \in BusyCalls /\ asked.pc = "metadata" /\ asked.since = Now
        /\ asked.known = None /\ asked.got = <<>>
    <3>1. Now \in Nat /\ <<>> \in Seq(Turn)
      BY <1>2, ThreadFacts, EmptySeq
    <3> QED BY <2>1, <3>1 DEF Call, BusyCalls, Busy
  <2>4. asked.since \in 1 .. Now'
    BY <1>1, <1>2, <2>3, ThreadFacts, Still
  <2>5. BusyHolds(r, asked)'
    BY <2>2, <2>3, <2>4 DEF BusyHolds
  <2>6. HistoryInv'
    BY <1>1, <1>3, <2>2, <2>3, <2>5, CallLocks
  <2> QED BY <2>2, <2>6, StoreStays, Silence DEF StepHolds
<1> QED BY <1>4, <1>5

(* What is known of a snapshot when the metadata are those it was read with *)
LEMMA SameMetadata ==
  ASSUME ThreadTyped, NEW f, NEW turns, IsSnapshot(f, turns), NEW since \in 1 .. Now,
         f.at = thread.at, f.active = thread.active
  PROVE  /\ ~thread.active => Shown(turns, since)
         /\ mode = "paginated" => AsHead(f.head) /\ (f.head = Newest => Turns = turns)
<1>1. Now \in since .. Now /\ Turns = past[Now]
  BY ThreadFacts
<1> QED BY <1>1 DEF IsSnapshot, Taken, Tells, Shown

LEMMA ReadMetadataHolds ==
  ASSUME HistoryInv, NEW r \in Readers, ReadMetadata(r)
  PROVE  StepHolds
<1>1. /\ calls[r].pc = "metadata" /\ UNCHANGED codex /\ ThreadTyped /\ BridgeHolds
      /\ calls[r].pc \in Busy
  BY DEF ReadMetadata, HistoryInv, Busy
<1>2. /\ BusyHolds(r, calls[r]) /\ calls[r] \in BusyCalls
      /\ calls[r].since \in 1 .. Now
  BY <1>1, OnACall
<1>3. PICK metadata : metadata = Metadata
  OBVIOUS
<1>4. /\ metadata \in Stamps /\ metadata.at = thread.at /\ metadata.active = thread.active
  BY <1>1, <1>3 DEF ThreadTyped, Metadata, Stamps
<1>5. PICK c : c = [calls[r] EXCEPT !.metadata = metadata]
  OBVIOUS
<1>6. /\ c \in BusyCalls /\ c.pc = "metadata" /\ c.since = calls[r].since
      /\ c.known = calls[r].known /\ c.got = <<>> /\ c.metadata = metadata
  BY <1>1, <1>2, <1>4, <1>5 DEF BusyCalls, BusyHolds
<1>7. CASE mode = "legacy"
  <2>1. PICK f : f = Fingerprint(metadata, None)
    OBVIOUS
  <2>2. f \in Prints /\ f.at = thread.at /\ f.active = thread.active
    BY <1>4, <2>1 DEF Fingerprint, Prints, Stamps
  <2>3. Compares(r, c, f)
    BY <1>3, <1>5, <1>7, <2>1 DEF ReadMetadata
  <2>4. Taken(f)
    BY <1>1, <1>7, <2>2, ThreadFacts DEF Taken, Earlier
  <2>5. Excused(calls[r]) <=> thread.active
    BY <1>1, <1>7 DEF Excused, SeenActive
  <2>6. r \in JobCalls /\ sync # None /\ sync = f =>
          Excused(calls[r]) \/ Shown(stored.turns, c.since)
    <3>1. SUFFICES ASSUME sync # None, sync = f, ~thread.active
                   PROVE  Shown(stored.turns, c.since)
      BY <2>5
    <3>2. IsSnapshot(f, stored.turns)
      BY <1>1, <2>2, <3>1 DEF BridgeHolds, Prints
    <3> QED BY <1>1, <1>2, <1>6, <2>2, <3>1, <3>2, SameMetadata
  <2>7. r \notin JobCalls /\ c.known # None /\ c.known.fingerprint = f =>
          Excused(calls[r]) \/ Shown(c.known.turns, c.since)
    <3>1. SUFFICES ASSUME c.known # None, c.known.fingerprint = f, ~thread.active
                   PROVE  Shown(c.known.turns, c.since)
      BY <2>5
    <3>2. IsSnapshot(f, c.known.turns)
      BY <1>2, <1>6, <3>1 DEF BusyHolds
    <3> QED BY <1>1, <1>2, <1>6, <2>2, <3>1, <3>2, SameMetadata
  <2> QED BY <1>1, <1>2, <1>6, <2>2, <2>3, <2>4, <2>6, <2>7, ComparesHolds
<1>8. CASE mode # "legacy"
  <2>1. PICK asked : asked = [c EXCEPT !.pc = "probe"]
    OBVIOUS
  <2>2. /\ calls' = [calls EXCEPT ![r] = asked] /\ Silent /\ UNCHANGED bridge
    BY <1>3, <1>5, <1>8, <2>1 DEF ReadMetadata, Goes
  <2>3. /\ asked \in BusyCalls /\ asked.pc = "probe" /\ asked.since = calls[r].since
        /\ asked.known = calls[r].known /\ asked.got = <<>> /\ asked.metadata = metadata
    BY <1>6, <2>1 DEF BusyCalls, Busy
  <2>4. mode = "paginated"
    BY <1>1, <1>8 DEF ThreadTyped
  <2>5. ASSUME NEW f, NEW turns, IsSnapshot(f, turns)
        PROVE  Probes(asked, f, turns)
    <3>1. SUFFICES ASSUME f.at = thread.at, f.active = thread.active
                   PROVE  Probes(asked, f, turns)
      BY <1>4, <2>3 DEF Probes
    <3>2. /\ ~thread.active => Shown(turns, asked.since)
          /\ AsHead(f.head) /\ (f.head = Newest => Turns = turns)
      BY <1>1, <1>2, <2>3, <2>4, <2>5, <3>1, SameMetadata
    <3> QED BY <1>4, <2>3, <3>2 DEF Probes
  <2>6. ProbeHolds(r, asked)
    <3>1. Earlier(metadata)
      BY <1>1, <1>4, ThreadFacts DEF Earlier
    <3>2. r \in JobCalls /\ sync # None => Probes(asked, sync, stored.turns)
      BY <1>1, <2>5 DEF BridgeHolds
    <3>3. asked.known # None => Probes(asked, asked.known.fingerprint, asked.known.turns)
      BY <1>2, <2>3, <2>5 DEF BusyHolds
    <3> QED BY <1>4, <2>3, <2>4, <3>1, <3>2, <3>3 DEF ProbeHolds
  <2>7. BusyHolds(r, asked)
    BY <1>2, <2>3, <2>6 DEF BusyHolds
  <2>8. HistoryInv'
    BY <1>1, <2>2, <2>3, <2>7, CallGoesOn DEF CallHolds
  <2> QED BY <2>2, <2>8, StoreStays, Silence DEF StepHolds, bridge
<1> QED BY <1>7, <1>8

LEMMA NewestIsRead ==
  ASSUME ThreadTyped
  PROVE  NewestTurn = Newest /\ Newest \in Turn /\ AsHead(Newest)
BY ThreadFacts DEF ThreadTyped, NewestTurn, Newest, AsHead, Turn

LEMMA ProbeStepHolds ==
  ASSUME HistoryInv, NEW r \in Readers, Probe(r)
  PROVE  StepHolds
<1>1. /\ calls[r].pc = "probe" /\ UNCHANGED codex /\ ThreadTyped /\ BridgeHolds
      /\ calls[r].pc \in Busy
  BY DEF Probe, HistoryInv, Busy
<1>2. PICK c : c = calls[r]
  OBVIOUS
<1>3. c \in BusyCalls /\ c.since \in 1 .. Now /\ BusyHolds(r, c) /\ c.got = <<>>
      /\ ProbeHolds(r, c)
  BY <1>1, <1>2, OnACall DEF BusyHolds
<1>4. PICK f : f = Fingerprint(c.metadata, Newest)
  OBVIOUS
<1>5. /\ f \in Prints /\ f.at = c.metadata.at /\ f.active = c.metadata.active
      /\ f.head = Newest
  BY <1>1, <1>3, <1>4, NewestIsRead DEF ProbeHolds, Fingerprint, Prints, Stamps
<1>6. Compares(r, c, f)
  BY <1>1, <1>2, <1>4, NewestIsRead DEF Probe
<1>7. Taken(f)
  BY <1>1, <1>3, <1>5, NewestIsRead DEF ProbeHolds, Taken, Earlier
<1>8. ASSUME NEW turns, Probes(c, f, turns) PROVE Excused(c) \/ Shown(turns, c.since)
  <2>1. CASE ~c.metadata.active
    BY <1>5, <1>8, <2>1 DEF Probes
  <2>2. CASE c.metadata.active
    <3>1. TakenBack(c.since) \/ Turns = turns
      BY <1>5, <1>8, <2>2 DEF Probes
    <3>2. Turns = turns => Shown(turns, c.since)
      BY <1>1, <1>3, ThreadFacts DEF Shown
    <3> QED BY <1>1, <1>2, <2>2, <3>1, <3>2 DEF Excused
  <2> QED BY <2>1, <2>2
<1>9. r \in JobCalls /\ sync # None /\ sync = f => Excused(c) \/ Shown(stored.turns, c.since)
  BY <1>3, <1>8 DEF ProbeHolds
<1>10. r \notin JobCalls /\ c.known # None /\ c.known.fingerprint = f =>
         Excused(c) \/ Shown(c.known.turns, c.since)
  BY <1>3, <1>8 DEF ProbeHolds
<1> QED BY <1>1, <1>2, <1>3, <1>5, <1>6, <1>7, <1>9, <1>10, ComparesHolds

LEMMA ReadLegacyHolds ==
  ASSUME HistoryInv, NEW r \in Readers, ReadLegacy(r)
  PROVE  StepHolds
<1>1. /\ calls[r].pc = "legacy" /\ UNCHANGED codex /\ ThreadTyped
      /\ calls[r].pc \in Busy
  BY DEF ReadLegacy, HistoryInv, Busy
<1>2. PICK c, turns : c = calls[r] /\ turns = Turns
  OBVIOUS
<1>3. /\ c.since \in 1 .. Now /\ BusyHolds(r, c) /\ c.first \in Prints /\ Taken(c.first)
  BY <1>1, <1>2, OnACall DEF BusyHolds
<1>4. turns \in Seq(Turn) /\ Shown(turns, c.since) /\ Tells(c.first, turns)
  BY <1>1, <1>2, <1>3, ThreadFacts DEF Shown, Tells
<1>5. Falls(r) \/ Reads(r, c, turns)
  BY <1>2 DEF ReadLegacy
<1> QED BY <1>1, <1>2, <1>3, <1>4, <1>5, FallsHolds, ReadsHolds

LEMMA ReadMetadataAgainHolds ==
  ASSUME HistoryInv, NEW r \in Readers, ReadMetadataAgain(r)
  PROVE  StepHolds
<1>1. /\ calls[r].pc = "remeta" /\ UNCHANGED codex /\ UNCHANGED bridge /\ ThreadTyped
      /\ calls[r].pc \in Busy
  BY DEF ReadMetadataAgain, HistoryInv, Busy
<1>2. PICK c, metadata : c = calls[r] /\ metadata = Metadata
  OBVIOUS
<1>3. c \in BusyCalls /\ BusyHolds(r, c) /\ RemetaHolds(c)
  BY <1>1, <1>2, OnACall DEF BusyHolds
<1>4. metadata \in Stamps /\ metadata.at = thread.at
  BY <1>1, <1>2 DEF ThreadTyped, Metadata, Stamps
<1>5. PICK asked : asked = [c EXCEPT !.pc = "reprobe", !.metadata = metadata]
  OBVIOUS
<1>6. calls' = [calls EXCEPT ![r] = asked] /\ Silent
  BY <1>2, <1>5 DEF ReadMetadataAgain, Goes
<1>7. /\ asked \in BusyCalls /\ asked.pc = "reprobe" /\ asked.since = c.since
      /\ asked.known = c.known /\ asked.first = c.first /\ asked.before = c.before
      /\ asked.got = c.got /\ asked.metadata = metadata
  BY <1>3, <1>4, <1>5 DEF BusyCalls, Busy
<1>8. ReprobeHolds(asked)
  BY <1>1, <1>3, <1>4, <1>7, ThreadFacts DEF RemetaHolds, ReprobeHolds
<1>9. BusyHolds(r, asked)
  BY <1>1, <1>2, <1>3, <1>7, <1>8 DEF BusyHolds
<1>10. HistoryInv'
  BY <1>1, <1>2, <1>6, <1>7, <1>9, CallGoesOn DEF CallHolds
<1> QED BY <1>1, <1>6, <1>10, StoreStays, Silence DEF StepHolds, bridge

LEMMA ProbeAgainHolds ==
  ASSUME HistoryInv, NEW r \in Readers, ProbeAgain(r)
  PROVE  StepHolds
<1>1. /\ calls[r].pc = "reprobe" /\ UNCHANGED codex /\ ThreadTyped
      /\ calls[r].pc \in Busy
  BY DEF ProbeAgain, HistoryInv, Busy
<1>2. PICK c : c = calls[r]
  OBVIOUS
<1>3. /\ c \in BusyCalls /\ BusyHolds(r, c) /\ ReprobeHolds(c)
      /\ c.first \in Prints /\ Taken(c.first)
  BY <1>1, <1>2, OnACall DEF BusyHolds
<1>4. PICK after : after = Fingerprint(c.metadata, NewestTurn)
  OBVIOUS
<1>5. after \in Prints /\ after.at = c.metadata.at
  BY <1>1, <1>3, <1>4, NewestIsRead DEF ReprobeHolds, Fingerprint, Prints, Stamps
<1>6. CASE Unchanged(c, after)
  <2>1. Reads(r, c, c.got)
    BY <1>2, <1>4, <1>6 DEF ProbeAgain
  <2>2. c.got \in Seq(Turn) /\ Shown(c.got, c.since) /\ Tells(c.first, c.got)
    BY <1>3, <1>5, <1>6 DEF ReprobeHolds, Unchanged, BusyCalls
  <2> QED BY <1>1, <1>2, <1>3, <2>1, <2>2, ReadsHolds
<1>7. CASE ~Unchanged(c, after) /\ c.attempt = 1
  <2>1. PICK asked : asked = [c EXCEPT !.pc = "page", !.before = after, !.attempt = 2,
                                     !.metadata = None, !.got = <<>>, !.pages = 0]
    OBVIOUS
  <2>2. calls' = [calls EXCEPT ![r] = asked] /\ Silent /\ UNCHANGED bridge
    BY <1>2, <1>4, <1>7, <2>1 DEF ProbeAgain, Goes
  <2>3. /\ asked \in BusyCalls /\ asked.pc = "page" /\ asked.since = c.since
        /\ asked.known = c.known /\ asked.first = c.first /\ asked.before = after
        /\ asked.got = <<>>
    <3>1. <<>> \in Seq(Turn)
      BY EmptySeq
    <3> QED BY <1>3, <1>5, <2>1, <3>1 DEF BusyCalls, Busy
  <2>4. PageHolds(asked)
    <3>1. /\ c.first.at \in Nat /\ c.before.at \in Nat /\ c.metadata.at \in Nat
          /\ c.first.at <= c.before.at /\ c.before.at <= c.metadata.at
          /\ c.metadata.at <= thread.at
      BY <1>3 DEF ReprobeHolds, Prints, Stamps
    <3>2. Len(<<>>) = 0 /\ Len(Turns) > 0
      BY <1>1, ThreadFacts
    <3> QED BY <1>5, <2>3, <3>1, <3>2 DEF PageHolds
  <2>5. BusyHolds(r, asked)
    BY <1>1, <1>2, <1>3, <2>3, <2>4 DEF BusyHolds
  <2>6. HistoryInv'
    BY <1>1, <1>2, <2>2, <2>3, <2>5, CallGoesOn DEF CallHolds
  <2> QED BY <2>2, <2>6, StoreStays, Silence DEF StepHolds, bridge
<1>8. CASE ~Unchanged(c, after) /\ c.attempt # 1
  <2>1. Falls(r)
    BY <1>2, <1>4, <1>8 DEF ProbeAgain
  <2> QED BY <1>1, <1>2, <1>3, <2>1, FallsHolds
<1> QED BY <1>6, <1>7, <1>8

LEMMA HydratesHolds ==
  ASSUME HistoryInv, NEW r \in Readers, Hydrates(r)
  PROVE  StepHolds
<1>1. /\ calls[r].pc = "store" /\ UNCHANGED codex /\ ThreadTyped /\ BridgeHolds
      /\ calls[r].pc \in Busy
  BY DEF Hydrates, HistoryInv, Busy
<1>2. PICK c : c = calls[r]
  OBVIOUS
<1>3. /\ c \in BusyCalls /\ BusyHolds(r, c) /\ c.first \in Prints /\ Taken(c.first)
      /\ r \in JobCalls /\ lock = r /\ Shown(c.got, c.since) /\ Tells(c.first, c.got)
      /\ c.since \in 1 .. Now /\ c.got \in Seq(Turn)
  BY <1>1, <1>2, OnACall DEF BusyHolds, StoreHolds, BusyCalls
<1>4. /\ stored' = [turns |-> c.got, synchronized |-> TRUE] /\ sync' = c.first
      /\ lock' = None /\ cache' = cache /\ Answered(r, c.got, FALSE)
      /\ calls' = [calls EXCEPT ![r] = NoCall]
  BY <1>2 DEF Hydrates, Answered
<1>5. Shown(c.got, 1)
  BY <1>3, Earliest
<1>6. IsSnapshot(c.first, c.got)
  BY <1>3, <1>5 DEF IsSnapshot
<1>7. HistoryInv'
  BY <1>1, <1>3, <1>4, <1>6, CallStores
<1>8. CurrentAnswer
  BY <1>2, <1>3, <1>4, <1>5, Answers
<1>9. LaterStore
  <2>1. PICK m \in 1 .. c.since : stored.turns = past[m]
    BY <1>1, <1>2, <1>3, NoneIsNobody DEF BridgeHolds
  <2>2. PICK n \in c.since .. Now : c.got = past[n]
    BY <1>3 DEF Shown
  <2>3. m \in 1 .. Now /\ n \in 1 .. Now /\ m <= n
    BY <1>1, <1>3, ThreadFacts
  <2> QED BY <1>4, <2>1, <2>2, <2>3 DEF LaterStore
<1> QED BY <1>7, <1>8, <1>9 DEF StepHolds

LEMMA FailsHolds ==
  ASSUME HistoryInv, NEW r \in Readers, Fails(r)
  PROVE  StepHolds
<1>1. UNCHANGED codex /\ Falls(r) /\ calls[r].pc \notin {"idle", "lock"}
  BY DEF Fails
<1>2. BusyHolds(r, calls[r])
  BY <1>1 DEF HistoryInv, CallsHold, CallHolds, NoCall
<1> QED BY <1>1, <1>2, FallsHolds

WithPage(kept, turns, to) == kept \o SubSeq(turns, Len(kept) + 1, to)

(* What is got of the turns when the first so many of them were kept *)
GoesFurther(kept, turns, to, got) ==
  /\ got \in Seq(Turn)
  /\ Len(kept) <= to /\ (\A n \in 1 .. Len(kept) : kept[n] = turns[n]) =>
       Len(got) = to /\ \A n \in 1 .. to : got[n] = turns[n]
  /\ to < Len(kept) => got = kept

LEMMA PageAdds ==
  ASSUME NEW kept \in Seq(Turn), NEW turns \in Seq(Turn), NEW to \in Int, to <= Len(turns)
  PROVE  GoesFurther(kept, turns, to, WithPage(kept, turns, to))
<1> DEFINE from == Len(kept)
           page == SubSeq(turns, from + 1, to)
<1> PICK got : got = WithPage(kept, turns, to)
  OBVIOUS
<1>1. from \in Nat /\ Len(turns) \in Nat
  BY LenProperties
<1>2. /\ page \in Seq(Turn)
      /\ from <= to => Len(page) = to - from
      /\ \A n \in 1 .. to - from : page[n] = turns[from + n]
  <2>1. \A n \in from + 1 .. to : turns[n] \in Turn
    BY <1>1, ElementOfSeq
  <2>2. /\ page \in Seq(Turn)
        /\ Len(page) = IF from + 1 <= to THEN to - (from + 1) + 1 ELSE 0
        /\ \A n \in 1 .. to - (from + 1) + 1 : page[n] = turns[from + 1 + n - 1]
    BY <1>1, <2>1, SubSeqProperties
  <2>3. from <= to => Len(page) = to - from
    BY <1>1, <2>2
  <2>4. ASSUME NEW n \in 1 .. to - from PROVE page[n] = turns[from + n]
    <3>1. n \in 1 .. to - (from + 1) + 1 /\ from + 1 + n - 1 = from + n
      BY <1>1
    <3> QED BY <2>2, <3>1
  <2> QED BY <2>2, <2>3, <2>4
<1> HIDE DEF page
<1>3. /\ got \in Seq(Turn) /\ Len(got) = from + Len(page)
      /\ \A n \in 1 .. from + Len(page) :
           got[n] = IF n <= from THEN kept[n] ELSE page[n - from]
  BY <1>2, ConcatProperties DEF page, WithPage
<1>4. ASSUME from <= to, \A n \in 1 .. from : kept[n] = turns[n]
      PROVE  Len(got) = to /\ \A n \in 1 .. to : got[n] = turns[n]
  <2>1. Len(got) = to /\ from + Len(page) = to
    <3>1. Len(page) = to - from /\ Len(got) = from + Len(page)
      BY <1>2, <1>3, <1>4
    <3> QED BY <1>1, <3>1
  <2>2. ASSUME NEW n \in 1 .. to PROVE got[n] = turns[n]
    <3>1. CASE n <= from
      BY <1>1, <1>3, <1>4, <2>1, <3>1
    <3>2. CASE ~(n <= from)
      <4>1. n - from \in 1 .. to - from /\ from + (n - from) = n
        BY <1>1, <3>2
      <4>2. page[n - from] = turns[n]
        BY <1>2, <4>1
      <4> QED BY <1>3, <2>1, <3>2, <4>2
    <3> QED BY <3>1, <3>2
  <2> QED BY <2>1, <2>2
<1>5. to < from => got = kept
  <2>1. to < from => page = <<>>
    BY <1>1, SubSeqEmpty DEF page
  <2> QED BY <2>1, ConcatEmptySeq DEF page, WithPage
<1> QED BY <1>3, <1>4, <1>5 DEF GoesFurther

LEMMA ReadPageHolds ==
  ASSUME HistoryInv, NEW r \in Readers, ReadPage(r)
  PROVE  StepHolds
<1>1. /\ calls[r].pc = "page" /\ UNCHANGED codex /\ ThreadTyped
      /\ calls[r].pc \in Busy
  BY DEF ReadPage, HistoryInv, Busy
<1>2. PICK c : c = calls[r]
  OBVIOUS
<1>3. /\ c \in BusyCalls /\ BusyHolds(r, c) /\ PageHolds(c) /\ c.since \in 1 .. Now
      /\ c.first \in Prints /\ Taken(c.first) /\ c.got \in Seq(Turn) /\ c.pages \in Nat
  BY <1>1, <1>2, OnACall DEF BusyHolds, BusyCalls
<1> DEFINE from == Len(c.got)
           left == MaxTurns - from
           limit == IF PageSize < left THEN PageSize ELSE left
           end == IF from + limit < Len(Turns) THEN from + limit ELSE Len(Turns)
<1>4. PICK to, turns, got : /\ to = end /\ turns = Turns
                            /\ got = WithPage(c.got, turns, to)
  OBVIOUS
<1>5. /\ turns \in Seq(Turn) /\ Len(turns) \in Nat /\ from \in Nat
      /\ to \in Int /\ to <= Len(turns)
      /\ turns = Turns /\ got = WithPage(c.got, turns, to)
  <2>1. from \in Nat /\ turns \in Seq(Turn) /\ Len(turns) \in Nat
    BY <1>1, <1>3, <1>4, ThreadFacts, LenProperties
  <2>2. MaxTurns \in Nat /\ PageSize \in Nat
    BY HistoryAssumption
  <2>3. left \in Int
    BY <2>1, <2>2
  <2> HIDE DEF left
  <2>4. limit \in Int
    BY <2>2, <2>3
  <2> HIDE DEF limit
  <2> QED BY <1>4, <2>1, <2>4
<1> HIDE DEF end
<1>6. CASE Falls(r)
  BY <1>1, <1>2, <1>3, <1>6, FallsHolds
<1>7. CASE ~Falls(r)
  <2> DEFINE more == to < Len(turns)
  <2>1. PICK at, asked : /\ at = (IF more THEN "page" ELSE "remeta")
                        /\ asked = [c EXCEPT !.got = got, !.pages = @ + 1, !.pc = at]
    OBVIOUS
  <2>2. /\ got \in Seq(Turn)
        /\ from <= to /\ (\A n \in 1 .. from : c.got[n] = turns[n]) =>
             Len(got) = to /\ \A n \in 1 .. to : got[n] = turns[n]
        /\ to < from => got = c.got
    BY <1>3, <1>5, PageAdds DEF GoesFurther
  <2>3. /\ asked \in BusyCalls /\ asked.since = c.since /\ asked.known = c.known
        /\ asked.first = c.first /\ asked.before = c.before /\ asked.got = got
        /\ asked.pc = (IF more THEN "page" ELSE "remeta")
    <3>1. at \in Busy /\ got \in Seq(Turn) /\ c.pages + 1 \in Nat
      BY <1>3, <2>1, <2>2 DEF Busy
    <3> QED BY <1>3, <2>1, <3>1 DEF BusyCalls
  <2>4. Goes(r, asked) /\ UNCHANGED bridge
    <3> DEFINE further == [c EXCEPT !.got = got, !.pages = @ + 1]
    <3>1. \/ more /\ Goes(r, further) /\ UNCHANGED bridge
          \/ ~more /\ Goes(r, [further EXCEPT !.pc = "remeta"]) /\ UNCHANGED bridge
      BY <1>2, <1>4, <1>7 DEF ReadPage, Exceeds, WithPage, end
    <3>2. more => asked = further
      BY <1>1, <1>2, <1>3, <2>1 DEF BusyCalls
    <3>3. ~more => asked = [further EXCEPT !.pc = "remeta"]
      BY <1>3, <2>1 DEF BusyCalls
    <3> QED BY <3>1, <3>2, <3>3
  <2>5. /\ c.before \in Prints /\ c.before.at \in Nat /\ c.first.at \in Nat
        /\ thread.at \in Nat /\ c.first.at <= c.before.at /\ c.before.at <= thread.at
    BY <1>1, <1>3 DEF PageHolds, Prints, ThreadTyped
  <2>6. c.before.at = thread.at =>
          /\ from < Len(turns)
          /\ \A n \in 1 .. from : c.got[n] = turns[n]
    BY <1>3, <1>5 DEF PageHolds
  <2>7. more => PageHolds(asked)
    <3>1. SUFFICES ASSUME more, c.before.at = thread.at
                   PROVE  Len(got) < Len(turns) /\ \A n \in 1 .. Len(got) : got[n] = turns[n]
      BY <1>5, <2>3, <2>5 DEF PageHolds
    <3>2. CASE from <= to
      BY <2>2, <2>6, <3>1, <3>2
    <3>3. CASE ~(from <= to)
      BY <1>5, <2>2, <2>6, <3>1, <3>3
    <3> QED BY <3>2, <3>3
  <2>8. ~more => RemetaHolds(asked)
    <3>1. SUFFICES ASSUME ~more PROVE RemetaHolds(asked)
      OBVIOUS
    <3>2. to = Len(turns)
      BY <1>5, <3>1
    <3>3. c.before.at = thread.at => got = turns
      <4>1. SUFFICES ASSUME c.before.at = thread.at PROVE got = turns
        OBVIOUS
      <4>2. from < Len(turns) /\ \A n \in 1 .. from : c.got[n] = turns[n]
        BY <2>6, <4>1
      <4>3. Len(got) = Len(turns) /\ \A n \in 1 .. Len(turns) : got[n] = turns[n]
        BY <1>5, <2>2, <3>2, <4>2
      <4> QED BY <1>5, <2>2, <4>3, SeqEqual
    <3>4. c.before.at = thread.at => Shown(got, c.since)
      <4>1. Now \in c.since .. Now /\ Turns = past[Now]
        BY <1>1, <1>3, ThreadFacts
      <4> QED BY <1>5, <3>3, <4>1 DEF Shown
    <3>5. Tells(c.first, got)
      <4>1. c.first.at = thread.at => got = Turns
        BY <1>5, <2>5, <3>3
      <4> QED BY <4>1 DEF Tells
    <3> QED BY <2>3, <2>5, <3>4, <3>5 DEF RemetaHolds
  <2>9. BusyHolds(r, asked)
    BY <1>1, <1>2, <1>3, <2>3, <2>7, <2>8 DEF BusyHolds
  <2>10. calls' = [calls EXCEPT ![r] = asked] /\ Silent
    BY <2>4 DEF Goes
  <2>11. HistoryInv'
    BY <1>1, <1>2, <2>3, <2>4, <2>9, <2>10, CallGoesOn DEF CallHolds
  <2> QED BY <2>4, <2>10, <2>11, StoreStays, Silence DEF StepHolds, bridge
<1> QED BY <1>6, <1>7

LEMMA CodexHolds ==
  ASSUME HistoryInv, Codex
  PROVE  StepHolds
<1>1. Silent /\ stored' = stored
  BY DEF Codex, Starts, Writes, Ends, TakesBack, Ticks, Changes, bridge
<1> QED BY <1>1, CodexKeeps, StoreStays, Silence DEF StepHolds

LEMMA QuietHolds ==
  ASSUME HistoryInv, UNCHANGED <<codex, cache, stored, sync, lock, calls>>
  PROVE  HistoryInv'
BY Still DEF HistoryInv, BridgeHolds, CallsHold, CallHolds, BusyHolds, ProbeHolds, PageHolds,
   RemetaHolds, ReprobeHolds, StoreHolds, Probes, TakenBack, IsSnapshot, Taken, Tells, Earlier,
   AsHead, Shown

LEMMA RestartsHolds ==
  ASSUME HistoryInv, Restarts
  PROVE  StepHolds
<1>1. /\ UNCHANGED codex /\ UNCHANGED stored /\ cache' = None /\ sync' = None /\ lock' = None
      /\ calls' = [r \in Readers |-> NoCall] /\ Silent
  BY DEF Restarts
<1>2. Shown(stored.turns, 1)'
  BY <1>1, Still DEF HistoryInv, BridgeHolds, Shown
<1>3. HistoryInv'
  BY <1>1, <1>2, Still DEF HistoryInv, BridgeHolds, CallsHold, CallHolds
<1> QED BY <1>1, <1>3, StoreStays, Silence DEF StepHolds

LEMMA HistoryStep ==
  ASSUME HistoryInv, HistoryNext
  PROVE  StepHolds
<1>1. CASE Codex
  BY <1>1, CodexHolds
<1>2. ASSUME NEW r \in Readers,
             AsksRegistry(r) \/ AsksJob(r) \/ Proceeds(r) \/ Fails(r)
      PROVE  StepHolds
  BY <1>2, AsksRegistryHolds, AsksJobHolds, LocksHolds, ReadMetadataHolds, ProbeStepHolds,
     ReadLegacyHolds, ReadPageHolds, ReadMetadataAgainHolds, ProbeAgainHolds, HydratesHolds,
     FailsHolds DEF Proceeds
<1>3. CASE RetryIsAllowed \/ FullReadIsDue
  <2>1. UNCHANGED <<codex, cache, stored, sync, lock, calls>> /\ Silent
    BY <1>3 DEF RetryIsAllowed, FullReadIsDue
  <2> QED BY <2>1, QuietHolds, StoreStays, Silence DEF StepHolds
<1>4. CASE Restarts
  BY <1>4, RestartsHolds
<1> QED BY <1>1, <1>2, <1>3, <1>4 DEF HistoryNext

LEMMA HistoryStart == HistoryInit => HistoryInv
<1> SUFFICES ASSUME HistoryInit PROVE HistoryInv
  OBVIOUS
<1> DEFINE turns == [n \in 1 .. FirstTurns |-> [id |-> 0, version |-> n]]
<1>1. FirstTurns \in Nat \ {0}
  BY HistoryAssumption
<1>2. turns \in Seq(Turn) /\ Len(turns) = FirstTurns /\ turns # <<>>
  <2>1. turns \in Seq(Turn) /\ Len(turns) = FirstTurns
    BY <1>1, IsASeq, LenProperties DEF Turn
  <2> QED BY <1>1, <2>1, EmptySeq
<1>3. \A n \in 1 .. FirstTurns : turns[n].id = 0
  OBVIOUS
<1> HIDE DEF turns
<1>4. past = <<turns>> /\ past \in Seq(Seq(Turn)) /\ Now = 1 /\ Turns = turns
  BY <1>2 DEF HistoryInit, Now, Turns, turns
<1>5. ThreadTyped
  BY <1>1, <1>2, <1>3, <1>4 DEF HistoryInit, ThreadTyped
<1>6. stored.turns = turns /\ Shown(stored.turns, 1)
  BY <1>4 DEF HistoryInit, Shown
<1>7. BridgeHolds
  BY <1>2, <1>4, <1>6 DEF HistoryInit, BridgeHolds
<1>8. CallsHold
  BY DEF HistoryInit, CallsHold, CallHolds
<1> QED BY <1>5, <1>7, <1>8 DEF HistoryInv

(* Whatever Codex does to a thread between two requests, and however many     *)
(* readers, failures and restarts there are, an answer shows the turns of one *)
(* moment, of the call itself unless it is said to be degraded or one of the  *)
(* two cases named there applies, and the job's store is never taken back     *)
(* (ThreadHistoryReader, hydrateConversation, UnifiedConversationRegistry).   *)
THEOREM HistoryIsOfOneMomentAlways == HistorySpec => HistoryIsOfOneMoment
<1>1. HistoryInv /\ [HistoryNext]_historyVars =>
        HistoryInv' /\ [CurrentAnswer]_historyVars /\ [LaterStore]_stored
  <2>1. ASSUME HistoryInv, HistoryNext PROVE HistoryInv' /\ CurrentAnswer /\ LaterStore
    BY <2>1, HistoryStep DEF StepHolds
  <2>2. ASSUME HistoryInv, UNCHANGED historyVars PROVE HistoryInv' /\ stored' = stored
    BY <2>2, QuietHolds DEF historyVars, bridge
  <2> QED BY <2>1, <2>2
<1>2. HistorySpec => [][CurrentAnswer]_historyVars /\ [][LaterStore]_stored
  BY <1>1, HistoryStart, PTL DEF HistorySpec
<1> QED BY <1>2 DEF HistoryIsOfOneMoment


-----------------------------------------------------------------------------
(* ConversationLog *)

(* A notification being reduced has been received, and the revision being   *)
(* appended is not the first one.                                           *)
TypeInv ==
  /\ TypeOK
  /\ op \in {"reduce", "hydrate"} => input >= 1
  /\ pc = "append" => next.rev >= 1

USE ConversationLogAssumption

LEMMA EmptyTyped == EmptyProjection \in Projection
  BY DEF EmptyProjection, Projection, Items

LEMMA FilesTyped ==
  ASSUME NEW p \in Projection
  PROVE  Valid(p) \in Candidate /\ MissingFile \in Candidate /\ CorruptFile \in Candidate
  BY EmptyTyped DEF Valid, MissingFile, CorruptFile, Candidate

LEMMA PatchTyped ==
  ASSUME NEW p \in Projection, NEW n \in Projection, n.rev >= 1
  PROVE  conversationPatch(p, n) \in Patch
  BY DEF conversationPatch, Patch, Projection, Items

LEMMA ApplyTyped ==
  ASSUME NEW p \in Projection, NEW d \in Patch
  PROVE  applyConversationPatch(p, d) \in Projection
  BY DEF applyConversationPatch, Patch, Projection, Items

LEMMA CurrentTyped == TypeOK => Current \in Projection
  BY EmptyTyped DEF TypeOK, Current

LEMMA AppendTyped ==
  ASSUME TypeOK, NEW d \in Patch, NEW outcome \in AppendOutcomes,
         AppendConversationJournal(d, outcome)
  PROVE  /\ journal' \in Seq(Patch)
         /\ tail' \in {"complete", "torn", "bare", "glued", "broken"}
         /\ hist' \in Seq(Items) /\ spoiled' \in BOOLEAN
<1>1. journal' \in Seq(Patch)
  <2>1. SubSeq(journal, 1, Len(journal) - 1) \in Seq(Patch)
    BY DEF TypeOK
  <2>2. Append(journal, d) \in Seq(Patch)
    BY DEF TypeOK
  <2>3. journal \in Seq(Patch)
    BY DEF TypeOK
  <2> QED BY <2>1, <2>2, <2>3 DEF AppendConversationJournal
<1>2. tail' \in {"complete", "torn", "bare", "glued", "broken"}
  BY DEF AppendConversationJournal, TailAfter, AppendOutcomes, TypeOK
<1>3. hist' \in Seq(Items)
  <2>1. next.items \in Items /\ d.rev \in Nat /\ hist \in Seq(Items)
    BY DEF TypeOK, Projection, Patch
  <2>2. d.rev <= Len(hist) => [hist EXCEPT ![d.rev] = next.items] \in Seq(Items)
    BY <2>1, ExceptSeq DEF Patch
  <2>3. Append(hist, next.items) \in Seq(Items)
    BY <2>1
  <2> QED BY <2>1, <2>2, <2>3 DEF AppendConversationJournal
<1>4. spoiled' \in BOOLEAN
  BY Zenon DEF AppendConversationJournal, TypeOK
<1> QED BY <1>1, <1>2, <1>3, <1>4

LEMMA WrittenTyped ==
  ASSUME TypeOK, NEW caller, CheckpointWritten(caller)
  PROVE  /\ needCk' \in BOOLEAN /\ flushFailed' \in BOOLEAN
         /\ pc' \in {"update", "idle"}
         /\ UNCHANGED <<conv, loaded, failed, pending, hasPending, timer>>
<1>1. needCk' \in BOOLEAN
  BY Zenon DEF CheckpointWritten, TypeOK
<1>2. flushFailed' \in BOOLEAN
  BY Zenon DEF CheckpointWritten, TypeOK
<1> QED BY <1>1, <1>2 DEF CheckpointWritten

LEMMA FailedTyped ==
  ASSUME TypeOK, NEW caller, CheckpointFailed(caller)
  PROVE  /\ pc' = "idle" /\ conv' \in Projection
         /\ loaded' \in BOOLEAN /\ flushFailed' \in BOOLEAN
         /\ UNCHANGED <<failed, needCk, pending, hasPending, timer>>
<1>1. flushFailed' \in BOOLEAN
  BY Zenon DEF CheckpointFailed, TypeOK
<1>2. conv' \in Projection /\ loaded' \in BOOLEAN
  BY EmptyTyped DEF CheckpointFailed, TypeOK
<1> QED BY <1>1, <1>2 DEF CheckpointFailed

LEMMA AfterBackupTyped ==
  ASSUME TypeOK, AfterBackup
  PROVE  /\ needCk' \in BOOLEAN /\ flushFailed' \in BOOLEAN
         /\ pc' \in {"promote", "update", "idle"}
         /\ UNCHANGED <<conv, loaded, failed, pending, hasPending, timer>>
<1>1. CASE afterBak = "promote"
  BY <1>1 DEF AfterBackup, TypeOK, mem, pend
<1>2. CASE afterBak # "promote"
  BY <1>2, WrittenTyped DEF AfterBackup
<1> QED BY <1>1, <1>2

LEMMA TypeInit == Init => TypeInv
<1> SUFFICES ASSUME Init PROVE TypeInv
  OBVIOUS
<1>1. conv \in Projection
  BY DEF Init, Created, Imported, EmptyProjection, Projection
<1>2. Valid(conv) \in Candidate /\ MissingFile \in Candidate
  BY <1>1, FilesTyped
<1>3. hist \in Seq(Items) /\ input \in 0..MaxInput
  BY DEF Init, Created, Imported, EmptyProjection, Items
<1>4. files \in [{"primary", "backup"} -> Candidate]
  BY <1>2 DEF Init
<1>5. published \in Projection /\ swap \in Candidate /\ journal \in Seq(Patch)
  BY <1>2, EmptyTyped DEF Init
<1>6. next \in Projection /\ target \in Projection /\ bak \in Projection /\ pending \in Items
  BY EmptyTyped DEF Init, Items
<1>7. /\ loaded \in BOOLEAN /\ failed \in BOOLEAN /\ needCk \in BOOLEAN
      /\ hasPending \in BOOLEAN /\ timer \in BOOLEAN /\ flushFailed \in BOOLEAN
      /\ spoiled \in BOOLEAN
  BY DEF Init
<1> QED
  BY <1>1, <1>3, <1>4, <1>5, <1>6, <1>7 DEF Init, TypeInv, TypeOK, Callers

LEMMA TypeStep == TypeInv /\ [Next]_vars => TypeInv'
<1> SUFFICES ASSUME TypeInv, [Next]_vars PROVE TypeInv'
  OBVIOUS
<1> USE DEF TypeInv, TypeOK, disk, pend, mem, call, ghost
<1> DEFINE F == {"primary", "backup"}
<1>a. EmptyProjection \in Projection /\ Current \in Projection
  BY EmptyTyped, CurrentTyped
<1>b. \A f \in F : files[f] \in Candidate /\ files[f].proj \in Projection
  BY DEF Candidate
<1>c. \A f \in F : \A c \in Candidate : [files EXCEPT ![f] = c] \in [F -> Candidate]
  BY Zenon
<1>d. Valid(bak) \in Candidate /\ Valid(target) \in Candidate
      /\ MissingFile \in Candidate /\ CorruptFile \in Candidate
  BY FilesTyped
<1>1. CASE WriteConversation
  BY <1>1, <1>b DEF WriteConversation, WriteSteps
<1>2. CASE WriteConversationBackup
  BY <1>2, <1>c, <1>d, AfterBackupTyped DEF WriteConversationBackup, WriteSteps
<1>3. CASE PromoteConversation
  BY <1>3, <1>c, <1>d DEF PromoteConversation, WriteSteps
<1>4. CASE RenameAfterMove
  BY <1>4, <1>c, <1>d, AfterBackupTyped DEF RenameAfterMove, WriteSteps
<1>5. CASE EnsureBackup
  BY <1>5, WrittenTyped DEF EnsureBackup, WriteSteps
<1>6. CASE ApplyUpdate
  <2>1. Base \in Items
    BY <1>a DEF Base, Projection
  <2>2. \A items \in UpdatedItems : items \in Items
    BY <2>1 DEF UpdatedItems, Items
  <2>3. \A items \in UpdatedItems :
          [rev |-> Current.rev + 1, items |-> items] \in Projection
    BY <1>a, <2>2 DEF Projection
  <2>4. next' \in Projection /\ (pc' = "append" => next'.rev >= 1)
    BY <1>6, <1>a, <2>3 DEF ApplyUpdate, Projection
  <2>5. flushFailed' \in BOOLEAN /\ pc' \in {"idle", "append"}
    BY <1>6 DEF ApplyUpdate
  <2> QED BY <1>6, <2>4, <2>5 DEF ApplyUpdate
<1>7. CASE CommitRevision
  <2>1. conversationPatch(Current, next) \in Patch
    BY <1>7, <1>a, PatchTyped DEF CommitRevision
  <2>2. /\ journal' \in Seq(Patch)
        /\ tail' \in {"complete", "torn", "bare", "glued", "broken"}
        /\ hist' \in Seq(Items) /\ spoiled' \in BOOLEAN
    BY <1>7, <2>1, AppendTyped DEF CommitRevision, AppendOutcomes
  <2> QED BY <1>7, <2>2 DEF CommitRevision, WriteSteps, Callers, Items
<1>8. CASE ReplayPatch
  BY <1>8, ApplyTyped DEF ReplayPatch
<1>9. CASE ReplayDone
  BY <1>9 DEF ReplayDone, WriteSteps, Callers
<1>10. CASE WriteFails
  BY <1>10, FailedTyped DEF WriteFails, FileFault
<1>11. CASE RestoreAfterMove
  BY <1>11, <1>c, FailedTyped DEF RestoreAfterMove, FileFault
<1>12. CASE DiffFails
  BY <1>12 DEF DiffFails, FileFault
<1>13. CASE CommitFails
  <2>1. conversationPatch(Current, next) \in Patch
    BY <1>13, <1>a, PatchTyped DEF CommitFails
  <2>2. /\ journal' \in Seq(Patch)
        /\ tail' \in {"complete", "torn", "bare", "glued", "broken"}
        /\ hist' \in Seq(Items) /\ spoiled' \in BOOLEAN
    BY <1>13, <2>1, AppendTyped DEF CommitFails
  <2> QED BY <1>13, <2>2 DEF CommitFails, FileFault
<1>14. CASE MoveAside
  BY <1>14, <1>b, <1>c, <1>d DEF MoveAside, WriteSteps
<1>15. CASE Coalesce
  <2>1. pending' \in Items
    <3>1. input + 1 \in 1..MaxInput
      BY <1>15 DEF Coalesce
    <3>2. conv.items \in Items
      BY DEF Projection
    <3> QED BY <1>15, <3>1, <3>2 DEF Coalesce, Items
  <2> QED BY <1>15, <2>1 DEF Coalesce, Idle
<1>16. CASE TimerFires
  <2>1. timer' \in BOOLEAN /\ UNCHANGED <<pending, hasPending, ghost>>
    BY <1>16 DEF TimerFires
  <2>2. CASE StartUpdate("timer") /\ UNCHANGED flushFailed
    BY <2>1, <2>2, <1>a DEF StartUpdate, WriteSteps, Callers, Idle
  <2>3. CASE flushFailed' = TRUE /\ UNCHANGED <<disk, mem, call, pc>>
    BY <2>1, <2>3
  <2> QED BY <1>16, <2>2, <2>3 DEF TimerFires
<1>17. CASE FlushConversation
  BY <1>17, <1>a DEF FlushConversation, StartUpdate, WriteSteps, Callers, Idle
<1>18. CASE \E kind \in {"reduce", "hydrate"} : UpdateConversation(kind)
  BY <1>18, <1>a DEF UpdateConversation, StartUpdate, WriteSteps, Callers, Idle
<1>19. CASE Snapshot
  BY <1>19, <1>a DEF Snapshot
<1>20. CASE Crash
  <2>1. /\ journal' \in Seq(Patch)
        /\ tail' \in {"complete", "torn", "bare", "glued", "broken"}
        /\ hist' \in Seq(Items) /\ spoiled' \in BOOLEAN
    <3>1. CASE pc = "append"
      <4>1. conversationPatch(Current, next) \in Patch
        BY <3>1, <1>a, PatchTyped
      <4> QED BY <1>20, <3>1, <4>1, AppendTyped DEF Crash
    <3>2. CASE pc # "append"
      BY <1>20, <3>2 DEF Crash
    <3> QED BY <3>1, <3>2
  <2>2. /\ conv' \in Projection /\ next' \in Projection
        /\ target' \in Projection /\ bak' \in Projection /\ swap' \in Candidate
        /\ pending' \in Items
    BY <1>20, <1>a, <1>d DEF Crash, ForgetMemory, Items
  <2>3. /\ loaded' \in BOOLEAN /\ failed' \in BOOLEAN /\ needCk' \in BOOLEAN
        /\ hasPending' \in BOOLEAN /\ timer' \in BOOLEAN /\ flushFailed' \in BOOLEAN
    BY <1>20 DEF Crash, ForgetMemory
  <2>4. /\ pc' = "down" /\ op' = "none" /\ cont' = "recover" /\ afterBak' = "done"
        /\ crashes' \in 0..MaxCrash /\ UNCHANGED <<files, input, published, faults, damages>>
    BY <1>20 DEF Crash, ForgetMemory
  <2> QED BY <2>1, <2>2, <2>3, <2>4 DEF Callers
<1>21. CASE Restart
  <2>1. \A p \in Baseline : p \in Projection
    BY <1>a, <1>b DEF Baseline, ValidFiles
  <2>2. /\ conv' \in Projection /\ loaded' \in BOOLEAN /\ failed' \in BOOLEAN
        /\ pc' \in {"replay", "idle"} /\ tail' \in {"complete", "torn", "bare", "glued", "broken"}
    BY <1>21, <2>1 DEF Restart
  <2> QED BY <1>21, <2>2 DEF Restart
<1>22. CASE \E f \in {"primary", "backup"} : DamageCheckpoint(f)
  BY <1>22, <1>c, <1>d DEF DamageCheckpoint
<1>23. CASE RestartThrows
  BY <1>23 DEF RestartThrows, FileFault
<1>24. CASE UNCHANGED vars
  BY <1>24 DEF vars
<1> HIDE DEF TypeInv, TypeOK, disk, pend, mem, call, ghost
<1> QED
  BY <1>1, <1>2, <1>3, <1>4, <1>5, <1>6, <1>7, <1>8, <1>9, <1>10, <1>11, <1>12, <1>13,
     <1>14, <1>15, <1>16, <1>17, <1>18, <1>19, <1>20, <1>21, <1>22, <1>23,
     <1>24
  DEF Next, Proceed, Fail

(* Every variable keeps its type, whatever faults the environment produces. *)
THEOREM TypeCorrect == Spec => []TypeOK
<1>1. TypeInv => TypeOK
  BY DEF TypeInv
<1> QED BY TypeInit, TypeStep, <1>1, PTL DEF Spec

-----------------------------------------------------------------------------
(* The inductive invariant.  The first revision need not be in the journal  *)
(* (an imported thread starts at revision 1), so positions in the journal   *)
(* and in hist differ by Offset.                                            *)

Offset == Len(hist) - Len(journal)

(* Recovery can go on from p.                                               *)
Replayable(p) == Committed(p) /\ p.rev >= Offset

(* The journal holds hist, one patch for each revision after Offset.        *)
JournalRecords ==
  \A i \in 1..Len(journal) :
    /\ journal[i].rev = Offset + i
    /\ hist[Offset + i] = IF journal[i].replaceAll THEN journal[i].items
                          ELSE Content(Offset + i - 1) \cup journal[i].items

JournalInv ==
  /\ Offset \in {0, 1}
  /\ tail = "torn" /\ Running => failed \/ ~ loaded
  /\ tail # "broken"
  /\ JournalRecords

(* What survives on disk suffices to recover, at every step of a write.     *)
DiskInv ==
  /\ \A f \in ValidFiles : Replayable(files[f].proj)
  /\ Committed(published)
  /\ ValidFiles # {} \/ CorruptFiles # {} \/ Offset = 0
  /\ Running /\ ~ failed /\ loaded => ValidFiles # {} \/ Offset = 0

WriteInv ==
  /\ pc \in {"backup", "backupSwap"} => Replayable(bak)
  /\ pc \in {"promote", "promoteSwap"} => files["backup"].state = "valid" \/ Offset = 0
  /\ pc \in {"backupSwap", "promoteSwap"} /\ swap.state = "valid" => Replayable(swap.proj)
  /\ pc \in WriteSteps =>
       IF cont = "recoverBackup"
       THEN pc \in {"backup", "backupSwap"} /\ afterBak = "done"
       ELSE Replayable(target)

(* What memory holds is committed, and is the last revision when served.    *)
MemoryInv ==
  /\ Serving /\ loaded => Committed(conv) /\ conv.rev = Len(hist)
  /\ Starting => Replayable(conv)
  /\ Starting /\ pc # "replay" => conv.rev = Len(hist)
  /\ pc = "append" /\ loaded => next.rev = Len(hist) + 1

(* What holds until an append takes a record with it or is made without a   *)
(* conversation; no such append is taken back (`spoiled`).                  *)
CleanInv == JournalInv /\ DiskInv /\ WriteInv /\ MemoryInv

(* Where the lock's holder is tells what the job has in memory: nothing     *)
(* while it is down, a conversation while a checkpoint is written or due.   *)
HolderInv ==
  /\ failed => pc = "idle"
  /\ pc = "down" => ~ loaded
  /\ ~ loaded => pc \notin WriteSteps \cup {"replay"} /\ ~ needCk
  /\ Starting => ~ needCk

(* Until somebody damages a file, there is a readable checkpoint besides    *)
(* the one that is being replaced.                                          *)
CopyInv ==
  /\ OneCheckpointSurvives
  /\ pc \in {"backup", "backupSwap", "ensureBackup"} => files["primary"].state = "valid"
  /\ pc \in {"promote", "promoteSwap"} => files["backup"].state = "valid" \/ damages > 0

PendingInv ==
  /\ PendingIsCovered
  /\ pc \in WriteSteps /\ cont # "repair" => ~ hasPending
  /\ pc \in {"down", "replay"} => ~ hasPending

IInv ==
  TypeInv /\ HolderInv /\ CopyInv /\ PendingInv /\ (~ spoiled => CleanInv)

-----------------------------------------------------------------------------
(* What an append does to the journal and to hist *)

(* A spoiled journal stays one.                                             *)
LEMMA AppendSpoils ==
  ASSUME NEW outcome \in AppendOutcomes, ~ spoiled',
         AppendConversationJournal(conversationPatch(Current, next), outcome)
  PROVE  /\ ~ spoiled
         /\ outcome # "none" => loaded
         /\ tail = "bare" => outcome \notin {"torn", "bare"}
  BY Zenon DEF AppendConversationJournal

LEMMA AppendEffect ==
  ASSUME TypeInv, HolderInv, JournalInv, MemoryInv, pc = "append", ~ spoiled',
         NEW outcome \in AppendOutcomes,
         AppendConversationJournal(conversationPatch(Current, next), outcome)
  PROVE  /\ tail' # "broken"
         /\ \/ UNCHANGED <<journal, hist>> /\ outcome # "full"
            \/ /\ loaded
               /\ journal' = Append(journal, conversationPatch(conv, next))
               /\ hist' = Append(hist, next.items)
               /\ outcome = "full" => tail' # "torn"
<1> DEFINE d == conversationPatch(Current, next)
<1>1. CASE outcome = "full" \/ (outcome = "bare" /\ tail = "complete")
  <2>1. loaded /\ ~ failed /\ Current = conv /\ next.rev = Len(hist) + 1
    BY <1>1, AppendSpoils DEF HolderInv, MemoryInv, Current
  <2>2. ~ d.rev <= Len(hist)
    BY <2>1 DEF conversationPatch, TypeInv, TypeOK
  <2>3. tail' # "broken" /\ (outcome = "full" => tail' # "torn")
    <3>1. tail \in {"complete", "bare", "glued"}
      BY <2>1 DEF JournalInv, Running, TypeInv, TypeOK
    <3> QED BY <1>1, <3>1 DEF AppendConversationJournal, TailAfter
  <2> QED BY <1>1, <2>1, <2>2, <2>3 DEF AppendConversationJournal
<1>2. CASE ~ (outcome = "full" \/ (outcome = "bare" /\ tail = "complete"))
  <2>1. ~ (tail = "bare" /\ outcome \in {"torn", "bare"})
    BY AppendSpoils
  <2>2. tail' # "broken"
    BY <1>2 DEF AppendConversationJournal, TailAfter, AppendOutcomes, JournalInv
  <2> QED BY <1>2, <2>1, <2>2 DEF AppendConversationJournal
<1> QED BY <1>1, <1>2

LEMMA AppendKeepsJournal ==
  ASSUME TypeInv, HolderInv, JournalInv, MemoryInv, pc = "append", loaded,
         journal' = Append(journal, conversationPatch(conv, next)),
         hist' = Append(hist, next.items)
  PROVE  /\ Offset' = Offset
         /\ Len(hist') = Len(hist) + 1
         /\ Len(journal') = Len(journal) + 1
         /\ \A r \in 0..Len(hist) : Content(r)' = Content(r)
         /\ \A r \in Nat : r = Len(hist) + 1 => Content(r)' = next.items
         /\ JournalRecords'
<1> DEFINE d == conversationPatch(conv, next)
<1>1. /\ journal \in Seq(Patch) /\ hist \in Seq(Items) /\ next \in Projection
      /\ conv \in Projection /\ next.rev = Len(hist) + 1
      /\ conv.rev = Len(hist) /\ conv.items = Content(Len(hist))
  BY DEF TypeInv, TypeOK, HolderInv, MemoryInv, Committed, Serving, Starting, Running,
     WriteSteps
<1>2. d \in Patch
  BY <1>1, PatchTyped
<1>3. /\ Len(journal') = Len(journal) + 1
      /\ \A i \in 1..Len(journal) : journal'[i] = journal[i]
      /\ journal'[Len(journal) + 1] = d
  BY <1>1, <1>2, AppendProperties
<1>4. /\ Len(hist') = Len(hist) + 1
      /\ \A i \in 1..Len(hist) : hist'[i] = hist[i]
      /\ hist'[Len(hist) + 1] = next.items
  BY <1>1, AppendProperties DEF Projection
<1>5. Offset' = Offset
  BY <1>1, <1>3, <1>4 DEF Offset
<1>6. \A r \in 0..Len(hist) : Content(r)' = Content(r)
  BY <1>1, <1>4 DEF Content
<1>7. \A r \in Nat : r = Len(hist) + 1 => Content(r)' = next.items
  BY <1>1, <1>4 DEF Content
<1>8. ASSUME NEW i \in 1..Len(journal')
      PROVE  /\ journal'[i].rev = Offset + i
             /\ \A k \in Nat : k = Offset + i - 1 =>
                  hist'[Offset + i] = IF journal'[i].replaceAll THEN journal'[i].items
                                      ELSE Content(k)' \cup journal'[i].items
  <2>1. Offset \in {0, 1} /\ Len(journal) + Offset = Len(hist)
    BY <1>1 DEF JournalInv, Offset
  <2>2. CASE i <= Len(journal)
    <3>1. /\ Offset + i \in 1..Len(hist) /\ Offset + i - 1 \in 0..Len(hist)
          /\ i \in 1..Len(journal)
      BY <1>1, <2>1, <2>2
    <3>2. journal'[i] = journal[i] /\ hist'[Offset + i] = hist[Offset + i]
      BY <1>3, <1>4, <3>1
    <3> QED BY <1>6, <2>1, <3>1, <3>2 DEF JournalInv, JournalRecords
  <2>3. CASE i = Len(journal) + 1
    <3>1. journal'[i] = d /\ Offset + i = Len(hist) + 1
      BY <1>1, <1>3, <2>1, <2>3
    <3>2. d.rev = Len(hist) + 1
      BY <1>1 DEF conversationPatch
    <3>3. next.items = IF d.replaceAll THEN d.items ELSE conv.items \cup d.items
      BY DEF conversationPatch
    <3>4. \A k \in Nat : k = Offset + i - 1 => Content(k)' = conv.items
      BY <1>1, <1>6, <3>1, <2>1
    <3>5. hist'[Offset + i] = next.items
      BY <1>4, <2>1, <3>1
    <3> QED BY <2>1, <3>1, <3>2, <3>3, <3>4, <3>5
  <2>4. i <= Len(journal) \/ i = Len(journal) + 1
    BY <1>1, <1>3
  <2> QED BY Zenon, <2>2, <2>3, <2>4
<1>9. JournalRecords'
  <2>1. Offset \in {0, 1}
    BY DEF JournalInv
  <2>2. ASSUME NEW i \in 1..Len(journal')
        PROVE  hist'[Offset' + i] = IF journal'[i].replaceAll THEN journal'[i].items
                 ELSE (IF Offset' + i - 1 = 0 THEN {} ELSE hist'[Offset' + i - 1])
                      \cup journal'[i].items
    <3>1. Offset + i - 1 \in Nat
      BY <1>1, <1>3, <2>1
    <3> QED BY <1>5, <1>8, <3>1 DEF Content
  <2> QED BY <1>5, <1>8, <2>2 DEF JournalRecords, Content
<1> QED BY <1>3, <1>4, <1>5, <1>6, <1>7, <1>9

-----------------------------------------------------------------------------
(* What a step leaves alone *)

(* Only an append changes the journal, and only a restart its tail besides. *)
LEMMA JournalFrame ==
  ASSUME [Next]_vars, ~ CommitRevision, ~ CommitFails, ~ Crash
  PROVE  UNCHANGED <<journal, hist, spoiled>> /\ (~ Restart => UNCHANGED tail)
<1> USE DEF disk, pend, mem, call, ghost
<1>1. CASE Proceed
  BY <1>1 DEF Proceed, WriteConversation, WriteConversationBackup, PromoteConversation,
              RenameAfterMove, EnsureBackup, ApplyUpdate, ReplayPatch, ReplayDone
<1>2. CASE Fail
  BY <1>2 DEF Fail, WriteFails, RestoreAfterMove, DiffFails
<1>3. CASE Coalesce \/ TimerFires \/ FlushConversation
           \/ \E kind \in {"reduce", "hydrate"} : UpdateConversation(kind)
  BY <1>3 DEF Coalesce, TimerFires, FlushConversation, UpdateConversation, StartUpdate
<1>4. CASE MoveAside \/ Snapshot \/ Restart \/ RestartThrows
           \/ \E f \in {"primary", "backup"} : DamageCheckpoint(f)
  BY <1>4 DEF MoveAside, Snapshot, Restart, RestartThrows, DamageCheckpoint
<1>5. CASE UNCHANGED vars
  BY <1>5 DEF vars
<1> QED BY <1>1, <1>2, <1>3, <1>4, <1>5 DEF Next

LEMMA SpoiledStays ==
  ASSUME [Next]_vars, ~ spoiled'
  PROVE  ~ spoiled
<1>1. CASE \E outcome \in AppendOutcomes :
             AppendConversationJournal(conversationPatch(Current, next), outcome)
  BY <1>1, AppendSpoils
<1>2. CASE spoiled' = spoiled
  BY <1>2
<1>3. CASE CommitRevision
  BY <1>1, <1>3 DEF CommitRevision, AppendOutcomes
<1>4. CASE CommitFails \/ Crash
  BY <1>1, <1>2, <1>4 DEF CommitFails, Crash
<1> QED BY <1>2, <1>3, <1>4, JournalFrame

(* Only a restart brings the job up, only a crash clears its failure, and   *)
(* only a commit or a restart gives it a conversation.                      *)
LEMMA StatusFrame ==
  ASSUME TypeInv, HolderInv, [Next]_vars, ~ Restart, ~ CommitRevision,
         Running', ~ failed', loaded'
  PROVE  Running /\ ~ failed /\ loaded
<1> USE DEF disk, pend, mem, call, ghost, Running
<1>1. CASE loaded' = loaded /\ pc # "down" /\ (failed' = failed \/ ~ failed)
  <2>1. loaded \in BOOLEAN /\ failed \in BOOLEAN
    BY DEF TypeInv, TypeOK
  <2>2. loaded
    BY <1>1, <2>1
  <2>3. ~ failed
    BY <1>1, <2>1
  <2> QED BY <1>1, <2>2, <2>3
<1>2. CASE Proceed
  <2>1. UNCHANGED <<loaded, failed>> /\ pc # "down"
    BY <1>2 DEF Proceed, WriteConversation, WriteConversationBackup, PromoteConversation,
       RenameAfterMove, EnsureBackup, ApplyUpdate, ReplayPatch, ReplayDone, AfterBackup,
       CheckpointWritten
  <2> QED BY <1>1, <2>1
<1>3. CASE Fail
  <2>1. (UNCHANGED loaded \/ ~ loaded') /\ pc # "down" /\ (UNCHANGED failed \/ failed')
    BY <1>3 DEF Fail, WriteFails, RestoreAfterMove, DiffFails, CommitFails, CheckpointFailed
  <2> QED BY <1>1, <2>1
<1>4. CASE Coalesce \/ TimerFires \/ FlushConversation
           \/ \E kind \in {"reduce", "hydrate"} : UpdateConversation(kind)
  <2>1. UNCHANGED <<loaded, failed>> /\ pc # "down"
    BY <1>4 DEF Coalesce, TimerFires, FlushConversation, UpdateConversation, StartUpdate, Idle
  <2> QED BY <1>1, <2>1
<1>5. CASE MoveAside \/ Snapshot
  <2>1. UNCHANGED <<loaded, failed>> /\ pc # "down"
    BY <1>5 DEF MoveAside, Snapshot
  <2> QED BY <1>1, <2>1
<1>6. CASE Crash \/ RestartThrows \/ \E f \in {"primary", "backup"} : DamageCheckpoint(f)
  <2>1. pc' = "down" \/ (pc = "down" /\ UNCHANGED loaded)
    BY <1>6 DEF Crash, RestartThrows, DamageCheckpoint
  <2>2. pc = "down" => ~ loaded
    BY DEF HolderInv
  <2> QED BY Zenon, <2>1, <2>2
<1>7. CASE UNCHANGED vars
  <2>1. UNCHANGED <<loaded, failed, pc>>
    BY <1>7 DEF vars
  <2> QED BY <1>1, <2>1
<1> QED BY <1>2, <1>3, <1>4, <1>5, <1>6, <1>7 DEF Next

(* Only renames, restores and damage change the checkpoint files.           *)
LEMMA FilesFrame ==
  ASSUME [Next]_vars, ~ WriteConversationBackup, ~ PromoteConversation, ~ MoveAside,
         ~ RenameAfterMove, ~ RestoreAfterMove,
         ~ \E f \in {"primary", "backup"} : DamageCheckpoint(f)
  PROVE  UNCHANGED <<files, damages>>
<1> USE DEF disk, pend, mem, call, ghost
<1>1. CASE Proceed
  BY <1>1 DEF Proceed, WriteConversation, EnsureBackup, ApplyUpdate, CommitRevision,
              ReplayPatch, ReplayDone
<1>2. CASE Fail
  BY <1>2 DEF Fail, WriteFails, DiffFails, CommitFails
<1>3. CASE Coalesce \/ TimerFires \/ FlushConversation
           \/ \E kind \in {"reduce", "hydrate"} : UpdateConversation(kind)
  BY <1>3 DEF Coalesce, TimerFires, FlushConversation, UpdateConversation, StartUpdate
<1>4. CASE Snapshot \/ Crash \/ Restart \/ RestartThrows
  BY <1>4 DEF Snapshot, Crash, Restart, RestartThrows
<1>5. CASE UNCHANGED vars
  BY <1>5 DEF vars
<1> QED BY <1>1, <1>2, <1>3, <1>4, <1>5 DEF Next

-----------------------------------------------------------------------------
(* Each part of the invariant is preserved *)

LEMMA HolderStep ==
  ASSUME TypeInv, HolderInv, [Next]_vars
  PROVE  HolderInv'
<1> USE DEF mem, call
<1>1. CASE pc \in WriteSteps /\ pc' \in WriteSteps /\ UNCHANGED <<mem, cont>>
  BY <1>1 DEF HolderInv, Starting, WriteSteps
<1>2. CASE pc' \in {"idle", "update", "append"} /\ pc # "idle" /\ pc # "down" /\ UNCHANGED mem
  BY <1>2 DEF HolderInv, Starting, WriteSteps
<1>3. CASE UNCHANGED <<mem, cont, pc>>
  BY <1>3 DEF HolderInv, Starting
<1>4. ASSUME pc \in WriteSteps, CheckpointWritten(cont)
      PROVE  HolderInv'
  <2>1. needCk' = FALSE \/ needCk' = needCk
    BY <1>4 DEF CheckpointWritten
  <2>2. pc' \in {"idle", "update"} /\ UNCHANGED <<loaded, failed>> /\ loaded /\ ~ failed
    BY <1>4 DEF CheckpointWritten, HolderInv, WriteSteps
  <2> QED BY <2>1, <2>2 DEF HolderInv, Starting, WriteSteps
<1>5. CASE WriteConversation \/ PromoteConversation \/ MoveAside
  <2>1. pc \in WriteSteps /\ pc' \in WriteSteps /\ UNCHANGED <<mem, cont>>
    BY <1>5 DEF WriteConversation, PromoteConversation, MoveAside, WriteSteps
  <2> QED BY <1>1, <2>1
<1>6. CASE WriteConversationBackup \/ RenameAfterMove \/ EnsureBackup
  <2>1. pc \in WriteSteps
    BY <1>6 DEF WriteConversationBackup, RenameAfterMove, EnsureBackup, WriteSteps
  <2>2. CheckpointWritten(cont) \/ (pc' \in WriteSteps /\ UNCHANGED <<mem, cont>>)
    BY <1>6 DEF WriteConversationBackup, RenameAfterMove, EnsureBackup, AfterBackup, WriteSteps
  <2> QED BY <1>1, <1>4, <2>1, <2>2
<1>7. CASE ApplyUpdate \/ DiffFails
  <2>1. pc = "update" /\ pc' \in {"idle", "append"} /\ UNCHANGED mem
    BY <1>7 DEF ApplyUpdate, DiffFails
  <2> QED BY <1>2, <2>1
<1>8. CASE CommitRevision
  <2>1. pc = "append" /\ pc' = "stage" /\ cont' = "commit" /\ loaded' /\ failed' = failed
    BY <1>8 DEF CommitRevision
  <2> QED BY <2>1 DEF HolderInv, Starting
<1>9. CASE ReplayPatch \/ ReplayDone
  <2>1. pc = "replay" /\ pc' # "down" /\ UNCHANGED <<loaded, failed, needCk>>
    BY <1>9 DEF ReplayPatch, ReplayDone
  <2> QED BY <2>1 DEF HolderInv, Starting
<1>10. CASE WriteFails \/ RestoreAfterMove
  <2>1. pc \in WriteSteps /\ pc' = "idle" /\ CheckpointFailed(cont)
    BY <1>10 DEF WriteFails, RestoreAfterMove, CheckpointFailed, WriteSteps
  <2>2. CASE cont \in {"repair", "commit"}
    <3>1. UNCHANGED <<loaded, failed, needCk>>
      BY <2>1, <2>2 DEF CheckpointFailed
    <3> QED BY <2>1, <3>1 DEF HolderInv, Starting, WriteSteps
  <2>3. CASE cont \notin {"repair", "commit"}
    <3>1. Starting /\ ~ loaded' /\ UNCHANGED <<failed, needCk>>
      BY <2>1, <2>3 DEF CheckpointFailed, Starting, TypeInv, TypeOK, Callers
    <3> QED BY <2>1, <3>1 DEF HolderInv, Starting, WriteSteps
  <2> QED BY <2>2, <2>3
<1>11. CASE CommitFails
  <2>1. pc' = "idle" /\ pc = "append" /\ UNCHANGED <<loaded, needCk>>
    BY <1>11 DEF CommitFails
  <2> QED BY <2>1 DEF HolderInv, Starting, WriteSteps
<1>12. CASE \E kind \in {"reduce", "hydrate", "flush", "timer"} : StartUpdate(kind)
  <2>1. /\ pc = "idle" /\ ~ failed /\ UNCHANGED mem
        /\ (needCk /\ pc' = "stage" /\ cont' = "repair") \/ pc' = "update"
    BY <1>12 DEF StartUpdate, Idle
  <2> QED BY <2>1 DEF HolderInv, Starting, WriteSteps
<1>13. CASE UpdateConversation("reduce") \/ UpdateConversation("hydrate")
            \/ FlushConversation \/ TimerFires
  BY <1>3, <1>12, <1>13 DEF UpdateConversation, FlushConversation, TimerFires
<1>14. CASE Crash
  <2>1. pc' = "down" /\ ~ loaded' /\ ~ failed' /\ ~ needCk'
    BY <1>14 DEF Crash, ForgetMemory
  <2> QED BY <2>1 DEF HolderInv, Starting, WriteSteps
<1>15. CASE Restart \/ RestartThrows
  <2>1. pc = "down" /\ ~ failed /\ ~ loaded /\ ~ needCk /\ UNCHANGED needCk
    BY <1>15 DEF Restart, RestartThrows, HolderInv
  <2>2. \/ pc' = "replay" /\ loaded' /\ UNCHANGED failed
        \/ pc' = "idle"
    BY <1>15 DEF Restart, RestartThrows
  <2> QED BY <2>1, <2>2 DEF HolderInv, Starting, WriteSteps
<1>16. CASE Coalesce \/ Snapshot \/ (\E f \in {"primary", "backup"} : DamageCheckpoint(f))
            \/ UNCHANGED vars
  BY <1>3, <1>16 DEF Coalesce, Snapshot, DamageCheckpoint, vars
<1> HIDE DEF mem, call
<1> QED
  BY <1>5, <1>6, <1>7, <1>8, <1>9, <1>10, <1>11, <1>13, <1>14, <1>15, <1>16
  DEF Next, Proceed, Fail

LEMMA CopyStep ==
  ASSUME TypeInv, CopyInv, [Next]_vars
  PROVE  CopyInv'
<1> USE DEF CopyInv, OneCheckpointSurvives, ValidFiles, WriteSteps, disk, call, ghost
<1>a. /\ files \in [{"primary", "backup"} -> Candidate] /\ damages \in Nat
      /\ Valid(bak).state = "valid" /\ Valid(target).state = "valid"
  BY DEF TypeInv, TypeOK, Valid
<1>1. CASE UNCHANGED <<files, damages>> /\ (pc' \notin WriteSteps \/ pc' = "stage" \/ pc' = pc)
  BY <1>1
<1>2. CASE WriteConversation
  BY <1>2, <1>a DEF WriteConversation
<1>3. CASE WriteConversationBackup \/ (RenameAfterMove /\ pc = "backupSwap")
  <2>1. /\ files' = [files EXCEPT !["backup"] = Valid(bak)] /\ UNCHANGED damages
        /\ pc \in {"backup", "backupSwap"} /\ pc' \in {"promote", "update", "idle"}
    BY <1>3 DEF WriteConversationBackup, RenameAfterMove, AfterBackup, CheckpointWritten
  <2> QED BY <2>1, <1>a
<1>4. CASE PromoteConversation \/ (RenameAfterMove /\ pc = "promoteSwap")
  <2>1. /\ files' = [files EXCEPT !["primary"] = Valid(target)] /\ UNCHANGED damages
        /\ pc' = "ensureBackup"
    BY <1>4 DEF PromoteConversation, RenameAfterMove
  <2> QED BY <2>1, <1>a
<1>5. CASE EnsureBackup
  <2>1. /\ UNCHANGED <<files, damages>> /\ pc = "ensureBackup"
        /\ pc' \in {"backup", "update", "idle"}
    BY <1>5 DEF EnsureBackup, CheckpointWritten
  <2> QED BY <2>1
<1>6. CASE MoveAside
  BY <1>6, <1>a DEF MoveAside
<1>7. CASE RestoreAfterMove
  <2>1. /\ \/ files' = [files EXCEPT ![IF pc = "backupSwap" THEN "backup" ELSE "primary"] = swap]
           \/ files' = files
        /\ UNCHANGED damages /\ pc \in {"backupSwap", "promoteSwap"} /\ pc' = "idle"
    BY <1>7 DEF RestoreAfterMove, CheckpointFailed
  <2> QED BY <2>1, <1>a
<1>8. CASE \E f \in {"primary", "backup"} : DamageCheckpoint(f)
  BY <1>8, <1>a DEF DamageCheckpoint
<1>9. CASE ReplayDone
  BY <1>9, <1>a DEF ReplayDone
<1>10. CASE CommitRevision \/ ApplyUpdate \/ ReplayPatch
  BY <1>1, <1>10 DEF CommitRevision, ApplyUpdate, ReplayPatch
<1>11. CASE WriteFails \/ DiffFails \/ CommitFails
  BY <1>1, <1>11 DEF WriteFails, DiffFails, CommitFails, CheckpointFailed
<1>13. CASE UpdateConversation("reduce") \/ UpdateConversation("hydrate")
            \/ FlushConversation \/ TimerFires
  <2>1. CASE \E kind \in {"reduce", "hydrate", "flush", "timer"} :
               StartUpdate(kind) /\ UNCHANGED damages
    BY <1>1, <2>1 DEF StartUpdate
  <2>2. CASE TimerFires /\ ~ StartUpdate("timer")
    BY <1>1, <2>2 DEF TimerFires
  <2> QED BY <1>13, <2>1, <2>2 DEF UpdateConversation, FlushConversation, TimerFires
<1>14. CASE Coalesce \/ Snapshot \/ Crash \/ Restart \/ RestartThrows \/ UNCHANGED vars
  BY <1>1, <1>14 DEF Coalesce, Snapshot, Crash, Restart, RestartThrows, vars
<1>15. RenameAfterMove => pc \in {"backupSwap", "promoteSwap"}
  BY DEF RenameAfterMove
<1> HIDE DEF CopyInv
<1> QED
  BY <1>2, <1>3, <1>4, <1>5, <1>6, <1>7, <1>8, <1>9, <1>10, <1>11, <1>13, <1>14, <1>15
  DEF Next, Proceed, Fail


LEMMA JournalStep ==
  ASSUME IInv, [Next]_vars, ~ spoiled, ~ spoiled'
  PROVE  JournalInv'
<1> USE DEF IInv, CleanInv
<1>1. CASE /\ UNCHANGED <<journal, hist>> /\ tail' # "broken"
           /\ (tail' = "torn" /\ Running' => failed' \/ ~ loaded')
  <2>1. Offset' = Offset
    BY <1>1 DEF Offset
  <2>2. JournalRecords'
    BY <1>1, <2>1 DEF JournalInv, JournalRecords, Content
  <2> QED BY <1>1, <2>1, <2>2 DEF JournalInv
<1>2. CASE /\ pc = "append" /\ loaded /\ tail' # "broken"
           /\ (tail' = "torn" /\ Running' => failed')
           /\ journal' = Append(journal, conversationPatch(conv, next))
           /\ hist' = Append(hist, next.items)
  BY <1>2, AppendKeepsJournal DEF JournalInv
<1>3. CASE CommitRevision
  <2>1. pc = "append" /\ AppendConversationJournal(conversationPatch(Current, next), "full")
    BY <1>3 DEF CommitRevision
  <2>2. "full" \in AppendOutcomes
    BY DEF AppendOutcomes
  <2> QED BY <1>2, <2>1, <2>2, AppendEffect
<1>4. CASE CommitFails
  <2>1. pc = "append" /\ failed'
    BY <1>4 DEF CommitFails
  <2>2. PICK outcome \in AppendOutcomes :
          AppendConversationJournal(conversationPatch(Current, next), outcome)
    BY <1>4 DEF CommitFails
  <2> QED BY <1>1, <1>2, <2>1, <2>2, AppendEffect
<1>5. CASE Crash
  <2>1. ~ Running'
    BY <1>5 DEF Crash, Running
  <2>2. CASE pc = "append"
    <3>1. PICK outcome \in AppendOutcomes :
            AppendConversationJournal(conversationPatch(Current, next), outcome)
      BY <1>5, <2>2 DEF Crash
    <3> QED BY <1>1, <1>2, <2>1, <2>2, <3>1, AppendEffect
  <2>3. CASE pc # "append"
    <3>1. UNCHANGED <<journal, tail, hist>>
      BY <1>5, <2>3 DEF Crash
    <3> QED BY <1>1, <2>1, <3>1 DEF JournalInv
  <2> QED BY <2>2, <2>3
<1>6. CASE Restart
  <2>1. UNCHANGED <<journal, hist>> /\ tail' \notin {"torn", "broken"}
    BY <1>6 DEF Restart, ghost, JournalInv
  <2> QED BY <1>1, <2>1
<1>7. CASE ~ CommitRevision /\ ~ CommitFails /\ ~ Crash /\ ~ Restart
  <2>1. UNCHANGED <<journal, hist, tail>>
    BY <1>7, JournalFrame
  <2>2. tail = "torn" /\ Running' => failed' \/ ~ loaded'
    BY <1>7, StatusFrame DEF JournalInv
  <2> QED BY <1>1, <2>1, <2>2 DEF JournalInv
<1> QED BY <1>3, <1>4, <1>5, <1>6, <1>7

(* Committed revisions stay, and the journal keeps beginning where it did.  *)
LEMMA HistGrows ==
  ASSUME IInv, [Next]_vars, ~ spoiled, ~ spoiled'
  PROVE  /\ Offset' = Offset
         /\ Len(hist) \in Nat /\ Len(hist') \in Nat /\ Len(hist) <= Len(hist')
         /\ \A r \in 1..Len(hist) : hist'[r] = hist[r]
<1> USE DEF IInv, CleanInv
<1>1. hist \in Seq(Items)
  BY DEF TypeInv, TypeOK
<1>2. CASE UNCHANGED <<journal, hist>>
  BY <1>1, <1>2 DEF Offset
<1>3. CASE /\ pc = "append" /\ loaded
           /\ journal' = Append(journal, conversationPatch(conv, next))
           /\ hist' = Append(hist, next.items)
  <2>1. next.items \in Items
    BY DEF TypeInv, TypeOK, Projection
  <2> QED BY <1>1, <1>3, <2>1, AppendKeepsJournal, AppendProperties
<1>4. CASE \E outcome \in AppendOutcomes :
             pc = "append"
             /\ AppendConversationJournal(conversationPatch(Current, next), outcome)
  BY <1>2, <1>3, <1>4, AppendEffect
<1>5. CASE CommitRevision
  BY <1>4, <1>5 DEF CommitRevision, AppendOutcomes
<1>6. CASE CommitFails
  BY <1>4, <1>6 DEF CommitFails
<1>7. CASE Crash
  BY <1>2, <1>4, <1>7 DEF Crash
<1> QED BY <1>2, <1>5, <1>6, <1>7, JournalFrame

(* Replayable(p) in the next state, for the value p has in this one.        *)
ReplayableNext(p) ==
  /\ p.rev <= Len(hist')
  /\ p.items = IF p.rev = 0 THEN {} ELSE hist'[p.rev]
  /\ p.rev >= Offset'

(* A projection recovery could start from stays one.                        *)
LEMMA StaysReplayable ==
  ASSUME IInv, [Next]_vars, ~ spoiled, ~ spoiled', NEW p \in Projection
  PROVE  /\ Replayable(p) => ReplayableNext(p)
         /\ Committed(p) => /\ p.rev <= Len(hist')
                            /\ p.items = IF p.rev = 0 THEN {} ELSE hist'[p.rev]
<1>1. p.rev \in Nat
  BY DEF Projection
<1> QED BY <1>1, HistGrows DEF Replayable, ReplayableNext, Committed, Content

(* One checkpoint file changes, the other one keeps what it has.            *)
LEMMA OneFileChanges ==
  ASSUME IInv, [Next]_vars, ~ spoiled, ~ spoiled',
         NEW f \in {"primary", "backup"}, NEW c \in Candidate,
         files' = [files EXCEPT ![f] = c],
         c.state = "valid" => ReplayableNext(c.proj)
  PROVE  /\ \A h \in ValidFiles' : Replayable(files[h].proj)'
         /\ f \in ValidFiles' <=> c.state = "valid"
         /\ \A h \in {"primary", "backup"} \ {f} : h \in ValidFiles' <=> h \in ValidFiles
<1> USE DEF IInv, CleanInv
<1>1. files \in [{"primary", "backup"} -> Candidate]
  BY DEF TypeInv, TypeOK
<1>2. files'[f] = c /\ \A h \in {"primary", "backup"} \ {f} : files'[h] = files[h]
  BY <1>1
<1>3. ASSUME NEW h \in ValidFiles'
      PROVE  ReplayableNext(files'[h].proj)
  <2>1. CASE h = f
    BY <1>2, <1>3, <2>1 DEF ValidFiles
  <2>2. CASE h # f
    <3>1. h \in ValidFiles /\ files'[h] = files[h] /\ files[h] \in Candidate
      BY <1>1, <1>2, <2>2 DEF ValidFiles
    <3>2. files[h].proj \in Projection /\ Replayable(files[h].proj)
      BY <3>1 DEF DiskInv, Candidate
    <3> QED BY <3>1, <3>2, StaysReplayable
  <2> QED BY <2>1, <2>2
<1>4. \A h \in ValidFiles' : Replayable(files[h].proj)'
  BY <1>3 DEF Replayable, ReplayableNext, Committed, Content
<1> QED BY <1>1, <1>2, <1>4 DEF ValidFiles

LEMMA DiskStep ==
  ASSUME IInv, [Next]_vars, ~ spoiled, ~ spoiled'
  PROVE  DiskInv'
<1> USE DEF IInv, CleanInv
<1> DEFINE F == {"primary", "backup"}
<1>a. files \in [F -> Candidate]
  BY DEF TypeInv, TypeOK
<1>b. Offset' = Offset /\ Offset \in {0, 1}
  BY HistGrows DEF JournalInv
<1>1. Committed(published)'
  <2>1. CASE published' = published
    BY <2>1, StaysReplayable DEF DiskInv, TypeInv, TypeOK, Committed, Content
  <2>2. CASE published' # published
    <3>1. Snapshot
      <4> USE DEF disk, pend, mem, call, ghost
      <4>1. CASE Proceed
        BY <2>2, <4>1 DEF Proceed, WriteConversation, WriteConversationBackup,
              PromoteConversation, RenameAfterMove, EnsureBackup, ApplyUpdate,
              CommitRevision, ReplayPatch, ReplayDone
      <4>2. CASE Fail
        BY <2>2, <4>2 DEF Fail, WriteFails, RestoreAfterMove, DiffFails, CommitFails
      <4>3. CASE Coalesce \/ TimerFires \/ FlushConversation
                 \/ \E kind \in {"reduce", "hydrate"} : UpdateConversation(kind)
        BY <2>2, <4>3 DEF Coalesce, TimerFires, FlushConversation, UpdateConversation
      <4>4. CASE MoveAside \/ Crash \/ Restart \/ RestartThrows
                 \/ \E f \in {"primary", "backup"} : DamageCheckpoint(f)
        BY <2>2, <4>4 DEF MoveAside, Crash, Restart, RestartThrows, DamageCheckpoint
      <4>5. CASE UNCHANGED vars
        BY <2>2, <4>5 DEF vars
      <4> QED BY <4>1, <4>2, <4>3, <4>4, <4>5 DEF Next
    <3>2. published' = Current /\ Serving /\ UNCHANGED <<hist, conv, loaded>>
      BY <3>1 DEF Snapshot, Serving, disk, mem
    <3>3. Committed(Current)
      BY <3>2 DEF MemoryInv, Current, EmptyProjection, Committed, Content, TypeInv, TypeOK
    <3> QED BY <3>2, <3>3 DEF Committed, Content
  <2> QED BY <2>1, <2>2
<1>2. CASE UNCHANGED <<files, damages>>
  <2>1. ValidFiles' = ValidFiles /\ CorruptFiles' = CorruptFiles
    BY <1>2 DEF ValidFiles, CorruptFiles
  <2>2. \A f \in ValidFiles' : Replayable(files[f].proj)'
    <3>1. ASSUME NEW h \in ValidFiles PROVE ReplayableNext(files[h].proj)
      BY <1>a, StaysReplayable DEF DiskInv, ValidFiles, Candidate
    <3> QED BY <1>2, <2>1, <3>1 DEF Replayable, ReplayableNext, Committed, Content
  <2>3. Running' /\ ~ failed' /\ loaded' => ValidFiles # {} \/ Offset = 0
    <3>1. CASE Restart
      <4>1. failed' \/ \E p \in Baseline : TRUE
        BY <3>1 DEF Restart, TypeInv, TypeOK
      <4>2. CASE ValidFiles = {} /\ NoRecord /\ CorruptFiles = {}
        BY <4>2 DEF DiskInv
      <4>3. CASE ValidFiles = {} /\ JournalFromOne
        <5>1. journal \in Seq(Patch) /\ journal # <<>> /\ journal[1].rev = 1
          BY <4>3 DEF JournalFromOne, NoRecord, TypeInv, TypeOK
        <5>2. 1 \in 1..Len(journal)
          BY <5>1
        <5>3. journal[1].rev = Offset + 1
          BY <5>2 DEF JournalInv, JournalRecords
        <5> QED BY <1>b, <5>1, <5>3
      <4> QED BY <4>1, <4>2, <4>3 DEF Baseline
    <3>2. CASE ~ Restart
      <4>1. CASE CommitRevision
        <5>1. pc = "append" /\ loaded
          BY <4>1, AppendSpoils DEF CommitRevision, AppendOutcomes
        <5> QED BY <5>1 DEF DiskInv, HolderInv, Running
      <4>2. CASE ~ CommitRevision
        BY <3>2, <4>2, StatusFrame DEF DiskInv
      <4> QED BY <4>1, <4>2
    <3> QED BY <3>1, <3>2
  <2> QED BY <1>1, <1>2, <1>b, <2>1, <2>2, <2>3 DEF DiskInv
<1>3. CASE WriteConversationBackup \/ (RenameAfterMove /\ pc = "backupSwap")
  <2>1. files' = [files EXCEPT !["backup"] = Valid(bak)] /\ UNCHANGED damages
    BY <1>3 DEF WriteConversationBackup, RenameAfterMove, ghost
  <2>2. Valid(bak) \in Candidate /\ ReplayableNext(Valid(bak).proj)
    BY <1>3, FilesTyped, StaysReplayable
    DEF WriteInv, WriteConversationBackup, Valid, TypeInv, TypeOK
  <2>3. /\ \A h \in ValidFiles' : Replayable(files[h].proj)'
        /\ "backup" \in ValidFiles'
    BY <2>1, <2>2, OneFileChanges DEF Valid
  <2> QED BY <1>1, <2>1, <2>3 DEF DiskInv
<1>4. CASE PromoteConversation \/ (RenameAfterMove /\ pc = "promoteSwap")
  <2>1. files' = [files EXCEPT !["primary"] = Valid(target)] /\ UNCHANGED damages
    BY <1>4 DEF PromoteConversation, RenameAfterMove, ghost
  <2>2. Valid(target) \in Candidate /\ ReplayableNext(Valid(target).proj)
    BY <1>4, FilesTyped, StaysReplayable
    DEF WriteInv, PromoteConversation, Valid, TypeInv, TypeOK, WriteSteps
  <2>3. /\ \A h \in ValidFiles' : Replayable(files[h].proj)'
        /\ "primary" \in ValidFiles'
    BY <2>1, <2>2, OneFileChanges DEF Valid
  <2> QED BY <1>1, <2>1, <2>3 DEF DiskInv
<1>5. CASE MoveAside
  <2>1. /\ files' = [files EXCEPT ![IF pc = "backup" THEN "backup" ELSE "primary"] = MissingFile]
        /\ UNCHANGED damages /\ pc \in {"backup", "promote"}
    BY <1>5 DEF MoveAside, ghost
  <2>2. MissingFile \in Candidate /\ MissingFile.state # "valid"
    BY FilesTyped, EmptyTyped DEF MissingFile
  <2>3. CASE pc = "backup"
    <3>1. /\ \A h \in ValidFiles' : Replayable(files[h].proj)'
          /\ "primary" \in ValidFiles' <=> "primary" \in ValidFiles
      BY <2>1, <2>2, <2>3, OneFileChanges
    <3>2. "primary" \in ValidFiles'
      BY <2>3, <3>1 DEF CopyInv, ValidFiles
    <3> QED BY <1>1, <2>1, <3>1, <3>2 DEF DiskInv
  <2>4. CASE pc = "promote"
    <3>1. /\ \A h \in ValidFiles' : Replayable(files[h].proj)'
          /\ "backup" \in ValidFiles' <=> "backup" \in ValidFiles
      BY <2>1, <2>2, <2>4, OneFileChanges
    <3>2. "backup" \in ValidFiles' \/ Offset = 0
      BY <2>4, <3>1 DEF WriteInv, ValidFiles
    <3> QED BY <1>1, <1>a, <1>b, <2>1, <3>1, <3>2 DEF DiskInv
  <2> QED BY <2>1, <2>3, <2>4
<1>6. CASE RestoreAfterMove
  <2>1. /\ \/ files' = [files EXCEPT ![IF pc = "backupSwap" THEN "backup" ELSE "primary"] = swap]
           \/ files' = files
        /\ UNCHANGED damages /\ pc \in {"backupSwap", "promoteSwap"}
    BY <1>6 DEF RestoreAfterMove
  <2>2. swap \in Candidate /\ (swap.state = "valid" => ReplayableNext(swap.proj))
    BY <2>1, StaysReplayable DEF WriteInv, TypeInv, TypeOK, Candidate
  <2>3. CASE files' = files
    BY <1>2, <2>1, <2>3
  <2>4. CASE files' # files /\ pc = "backupSwap"
    <3>1. /\ \A h \in ValidFiles' : Replayable(files[h].proj)'
          /\ "primary" \in ValidFiles' <=> "primary" \in ValidFiles
      BY <2>1, <2>2, <2>4, OneFileChanges
    <3>2. "primary" \in ValidFiles'
      BY <2>4, <3>1 DEF CopyInv, ValidFiles
    <3> QED BY <1>1, <2>1, <3>1, <3>2 DEF DiskInv
  <2>5. CASE files' # files /\ pc = "promoteSwap"
    <3>1. /\ \A h \in ValidFiles' : Replayable(files[h].proj)'
          /\ "backup" \in ValidFiles' <=> "backup" \in ValidFiles
      BY <2>1, <2>2, <2>5, OneFileChanges
    <3>2. "backup" \in ValidFiles' \/ Offset = 0
      BY <2>5, <3>1 DEF WriteInv, ValidFiles
    <3> QED BY <1>1, <1>a, <1>b, <2>1, <3>1, <3>2 DEF DiskInv
  <2> QED BY <2>1, <2>3, <2>4, <2>5
<1>7. CASE \E f \in F : DamageCheckpoint(f)
  <2>1. PICK f \in F : DamageCheckpoint(f)
    BY <1>7
  <2>2. /\ files' = [files EXCEPT ![f] = CorruptFile] /\ damages' = damages + 1
        /\ ~ Running'
    BY <2>1 DEF DamageCheckpoint, Running
  <2>3. CorruptFile \in Candidate /\ CorruptFile.state = "corrupt"
    BY FilesTyped, EmptyTyped DEF CorruptFile
  <2>4. f \in CorruptFiles'
    BY <1>a, <2>2, <2>3 DEF CorruptFiles
  <2>5. \A h \in ValidFiles' : Replayable(files[h].proj)'
    BY <2>2, <2>3, OneFileChanges
  <2> QED BY <1>1, <1>a, <2>2, <2>4, <2>5 DEF DiskInv
<1>8. RenameAfterMove => pc \in {"backupSwap", "promoteSwap"}
  BY DEF RenameAfterMove
<1> QED BY <1>2, <1>3, <1>4, <1>5, <1>6, <1>7, <1>8, FilesFrame

LEMMA WriteStep ==
  ASSUME IInv, [Next]_vars, ~ spoiled, ~ spoiled'
  PROVE  WriteInv'
<1> USE DEF IInv, CleanInv
<1> DEFINE F == {"primary", "backup"}
<1>a. /\ files \in [F -> Candidate] /\ cont \in Callers
      /\ target \in Projection /\ bak \in Projection /\ conv \in Projection
      /\ next \in Projection /\ swap \in Candidate /\ swap.proj \in Projection
  BY DEF TypeInv, TypeOK, Candidate
<1>b. Offset' = Offset /\ Offset \in {0, 1} /\ Offset <= Len(hist)
  BY HistGrows DEF JournalInv, Offset, TypeInv, TypeOK
<1>c. \A p \in Projection : Replayable(p) => ReplayableNext(p)
  BY StaysReplayable
<1>d. /\ ReplayableNext(target') => Replayable(target)'
      /\ ReplayableNext(bak') => Replayable(bak)'
      /\ ReplayableNext(swap'.proj) => Replayable(swap.proj)'
  BY DEF Replayable, ReplayableNext, Committed, Content
<1>e. \A f \in F : files[f].state = "valid" =>
        files[f].proj \in Projection /\ Replayable(files[f].proj)
  BY <1>a DEF DiskInv, ValidFiles, Candidate
<1>f. pc = "idle" /\ ~ failed /\ needCk => ReplayableNext(Current)
  <2>1. ASSUME pc = "idle", ~ failed, needCk
        PROVE  Current = conv /\ Replayable(conv)
    BY <1>a, <1>b, <2>1
    DEF HolderInv, MemoryInv, Serving, Starting, Running, WriteSteps, Current, Replayable
  <2> QED BY <1>a, <1>c, <2>1
<1>1. CASE pc' \notin WriteSteps
  BY <1>1 DEF WriteInv, WriteSteps
<1>2. CASE UNCHANGED <<files, call, pc>>
  <2>1. UNCHANGED <<files, target, bak, swap, cont, afterBak, pc>>
    BY <1>2 DEF call
  <2> QED BY <1>a, <1>b, <1>c, <1>d, <2>1 DEF WriteInv
<1>3. CASE WriteConversation
  <2>1. /\ pc = "stage" /\ UNCHANGED <<files, target, cont>>
        /\ pc' \in {"backup", "promote"}
    BY <1>3 DEF WriteConversation, disk, ghost
  <2>2. cont # "recoverBackup" /\ Replayable(target)'
    BY <1>a, <1>c, <1>d, <2>1 DEF WriteInv, WriteSteps
  <2>3. CASE files["primary"].state = "valid"
    <3>1. pc' = "backup" /\ bak' = files["primary"].proj
      BY <1>3, <2>3 DEF WriteConversation
    <3>2. Replayable(bak)'
      BY <1>c, <1>d, <1>e, <2>3, <3>1
    <3> QED BY <2>1, <2>2, <2>3, <3>1, <3>2 DEF WriteInv
  <2>4. CASE files["primary"].state # "valid"
    <3>1. pc' = "promote"
      BY <1>3, <2>4 DEF WriteConversation
    <3>2. Running /\ ~ failed /\ loaded
      BY <2>1 DEF HolderInv, Running, WriteSteps
    <3>3. files["backup"].state = "valid" \/ Offset = 0
      BY <1>a, <2>4, <3>2 DEF DiskInv, ValidFiles
    <3> QED BY <1>b, <2>1, <2>2, <3>1, <3>3 DEF WriteInv
  <2> QED BY <2>3, <2>4
<1>4. CASE WriteConversationBackup \/ (RenameAfterMove /\ pc = "backupSwap")
  <2>1. /\ pc \in {"backup", "backupSwap"} /\ UNCHANGED <<target, cont>>
        /\ files' = [files EXCEPT !["backup"] = Valid(bak)]
    BY <1>4 DEF WriteConversationBackup, RenameAfterMove, call
  <2>2. (pc' = "promote" /\ afterBak = "promote") \/ pc' \in {"update", "idle"}
    BY <1>4 DEF WriteConversationBackup, RenameAfterMove, AfterBackup, CheckpointWritten
  <2>3. CASE pc' = "promote" /\ afterBak = "promote"
    <3>1. cont # "recoverBackup" /\ Replayable(target)'
      BY <1>a, <1>c, <1>d, <2>1, <2>3 DEF WriteInv, WriteSteps
    <3>2. files'["backup"].state = "valid"
      BY <1>a, <2>1 DEF Valid
    <3> QED BY <2>1, <2>3, <3>1, <3>2 DEF WriteInv
  <2> QED BY <1>1, <2>2, <2>3 DEF WriteSteps
<1>5. CASE PromoteConversation \/ (RenameAfterMove /\ pc = "promoteSwap")
  <2>1. /\ pc \in {"promote", "promoteSwap"} /\ pc' = "ensureBackup"
        /\ UNCHANGED <<target, cont>>
        /\ files' = [files EXCEPT !["primary"] = Valid(target)]
    BY <1>5 DEF PromoteConversation, RenameAfterMove, call
  <2>2. cont # "recoverBackup" /\ Replayable(target)'
    BY <1>a, <1>c, <1>d, <2>1 DEF WriteInv, WriteSteps
  <2> QED BY <2>1, <2>2 DEF WriteInv
<1>6. CASE EnsureBackup /\ pc' \in WriteSteps
  <2>1. /\ pc = "ensureBackup" /\ pc' = "backup" /\ UNCHANGED <<files, target, cont>>
        /\ bak' = target
    BY <1>6 DEF EnsureBackup, CheckpointWritten, WriteSteps, disk
  <2>2. cont # "recoverBackup" /\ Replayable(target)' /\ Replayable(bak)'
    BY <1>a, <1>c, <1>d, <2>1 DEF WriteInv, WriteSteps
  <2> QED BY <2>1, <2>2 DEF WriteInv
<1>7. CASE MoveAside
  <2>1. UNCHANGED <<target, bak, cont, afterBak>>
    BY <1>7 DEF MoveAside, ghost
  <2>2. pc \in WriteSteps /\ pc \in {"backup", "promote"}
    BY <1>7 DEF MoveAside, WriteSteps
  <2>3. IF cont = "recoverBackup" THEN pc = "backup" /\ afterBak = "done"
        ELSE Replayable(target)'
    BY <1>a, <1>c, <1>d, <2>1, <2>2 DEF WriteInv
  <2>4. CASE pc = "backup"
    <3>1. pc' = "backupSwap" /\ swap' = files["backup"]
      BY <1>7, <1>a, <2>4 DEF MoveAside
    <3>2. Replayable(bak)'
      BY <1>a, <1>c, <1>d, <2>1, <2>4 DEF WriteInv
    <3>3. swap'.state = "valid" => Replayable(swap.proj)'
      BY <1>c, <1>d, <1>e, <3>1
    <3> QED BY <2>1, <2>3, <3>1, <3>2, <3>3 DEF WriteInv
  <2>5. CASE pc = "promote"
    <3>1. /\ pc' = "promoteSwap" /\ swap' = files["primary"]
          /\ files'["backup"] = files["backup"]
      BY <1>7, <1>a, <2>5 DEF MoveAside
    <3>2. files["backup"].state = "valid" \/ Offset = 0
      BY <2>5 DEF WriteInv
    <3>3. swap'.state = "valid" => Replayable(swap.proj)'
      BY <1>c, <1>d, <1>e, <3>1
    <3> QED BY <1>b, <2>1, <2>3, <2>5, <3>1, <3>2, <3>3 DEF WriteInv
  <2> QED BY <2>2, <2>4, <2>5
<1>8. CASE CommitRevision
  <2>1. pc = "append" /\ pc' = "stage" /\ cont' = "commit" /\ target' = next
    BY <1>8 DEF CommitRevision
  <2>2. "full" \in AppendOutcomes
    BY DEF AppendOutcomes
  <2>3. hist' = Append(hist, next.items) /\ next.rev = Len(hist) + 1
    BY <1>8, <2>1, <2>2, AppendEffect, AppendSpoils DEF CommitRevision, MemoryInv
  <2>4. ReplayableNext(next)
    BY <1>a, <1>b, <2>3 DEF ReplayableNext, TypeInv, TypeOK, Projection
  <2> QED BY <1>d, <2>1, <2>4 DEF WriteInv, WriteSteps
<1>9. CASE ReplayDone
  <2>1. ReplayableNext(conv) /\ UNCHANGED files
    BY <1>9, <1>a, <1>c DEF ReplayDone, MemoryInv, Starting, disk
  <2>2. CASE files["primary"].state # "valid" \/ files["primary"].proj.rev # conv.rev
    <3>1. pc' = "stage" /\ cont' = "recover" /\ target' = conv
      BY <1>9, <2>2 DEF ReplayDone
    <3> QED BY <1>d, <2>1, <3>1 DEF WriteInv, WriteSteps
  <2>3. CASE /\ ~ (files["primary"].state # "valid" \/ files["primary"].proj.rev # conv.rev)
             /\ files["backup"].state # "valid"
    <3>1. pc' = "backup" /\ cont' = "recoverBackup" /\ bak' = conv /\ afterBak' = "done"
      BY <1>9, <2>3 DEF ReplayDone
    <3> QED BY <1>d, <2>1, <2>3, <3>1 DEF WriteInv, WriteSteps
  <2>4. CASE /\ ~ (files["primary"].state # "valid" \/ files["primary"].proj.rev # conv.rev)
             /\ files["backup"].state = "valid"
    BY <1>9, <1>1, <2>4 DEF ReplayDone, WriteSteps
  <2> QED BY <2>2, <2>3, <2>4
<1>10. CASE \E kind \in {"reduce", "hydrate", "flush", "timer"} : StartUpdate(kind)
  <2>1. pc = "idle" /\ ~ failed
    BY <1>10 DEF StartUpdate, Idle
  <2>2. CASE needCk /\ pc' = "stage" /\ cont' = "repair" /\ target' = Current
    BY <1>d, <1>f, <2>1, <2>2 DEF WriteInv, WriteSteps
  <2>3. CASE pc' = "update"
    BY <1>1, <2>3 DEF WriteSteps
  <2> QED BY <1>10, <2>2, <2>3 DEF StartUpdate
<1>11. CASE UpdateConversation("reduce") \/ UpdateConversation("hydrate")
            \/ FlushConversation \/ TimerFires
  <2>1. CASE \E kind \in {"reduce", "hydrate", "flush", "timer"} : StartUpdate(kind)
    BY <1>10, <2>1
  <2>2. CASE TimerFires /\ ~ StartUpdate("timer")
    BY <1>2, <2>2 DEF TimerFires, disk, ghost
  <2> QED BY <1>11, <2>1, <2>2 DEF UpdateConversation, FlushConversation
<1>12. CASE ApplyUpdate \/ ReplayPatch \/ Fail \/ Crash \/ Restart \/ RestartThrows
            \/ \E f \in F : DamageCheckpoint(f)
  <2>1. pc' \notin WriteSteps
    BY <1>12 DEF ApplyUpdate, ReplayPatch, Fail, WriteFails, RestoreAfterMove, DiffFails,
      CommitFails, CheckpointFailed, Crash, Restart, RestartThrows, DamageCheckpoint,
      WriteSteps
  <2> QED BY <1>1, <2>1
<1>13. CASE Coalesce \/ Snapshot \/ UNCHANGED vars
  BY <1>13, <1>2 DEF Coalesce, Snapshot, vars, disk, ghost
<1>14. RenameAfterMove => pc \in {"backupSwap", "promoteSwap"}
  BY DEF RenameAfterMove
<1> QED
  BY <1>1, <1>3, <1>4, <1>5, <1>6, <1>7, <1>8, <1>9, <1>11, <1>12, <1>13, <1>14
  DEF Next, Proceed

(* Where a restart begins, the journal can go on.                           *)
LEMMA BaselineReplayable ==
  ASSUME IInv, ~ spoiled, NEW p \in Baseline
  PROVE  p \in Projection /\ Replayable(p)
<1> USE DEF IInv, CleanInv
<1>1. CASE ValidFiles # {}
  <2>1. PICK f \in ValidFiles : p = files[f].proj
    BY <1>1 DEF Baseline, ValidFiles
  <2> QED BY <2>1 DEF DiskInv, ValidFiles, TypeInv, TypeOK, Candidate
<1>2. CASE ValidFiles = {}
  <2>1. p = EmptyProjection /\ (JournalFromOne \/ (NoRecord /\ CorruptFiles = {}))
    BY <1>2 DEF Baseline
  <2>2. Offset = 0
    <3>1. CASE JournalFromOne
      <4>1. journal \in Seq(Patch) /\ journal # <<>> /\ journal[1].rev = 1
        BY <3>1 DEF JournalFromOne, NoRecord, TypeInv, TypeOK
      <4>2. 1 \in 1..Len(journal)
        BY <4>1
      <4>3. journal[1].rev = Offset + 1
        BY <4>2 DEF JournalInv, JournalRecords
      <4> QED BY <4>1, <4>3 DEF JournalInv
    <3>2. CASE NoRecord /\ CorruptFiles = {}
      BY <1>2, <3>2 DEF DiskInv
    <3> QED BY <2>1, <3>1, <3>2
  <2> QED BY <2>1, <2>2, EmptyTyped
          DEF EmptyProjection, Replayable, Committed, Content, TypeInv, TypeOK
<1> QED BY <1>1, <1>2

LEMMA MemoryStep ==
  ASSUME IInv, [Next]_vars, ~ spoiled, ~ spoiled'
  PROVE  MemoryInv'
<1> USE DEF IInv, CleanInv
<1>a. /\ conv \in Projection /\ conv.rev \in Nat /\ next \in Projection
      /\ hist \in Seq(Items) /\ journal \in Seq(Patch) /\ Len(hist) \in Nat
      /\ Len(journal) \in Nat /\ cont \in Callers
  BY DEF TypeInv, TypeOK, Projection
<1>b. Offset' = Offset /\ Offset \in {0, 1} /\ Len(hist) = Offset + Len(journal)
  BY <1>a, HistGrows DEF JournalInv, Offset
<1>c. /\ ReplayableNext(conv') => Replayable(conv)'
      /\ Replayable(conv)' => Committed(conv)'
  BY DEF Replayable, ReplayableNext, Committed, Content
<1>1. CASE ~ loaded'
  <2>1. ~ Starting'
    BY <1>1, HolderStep DEF HolderInv, Starting
  <2> QED BY <1>1, <2>1 DEF MemoryInv
<1>2. CASE failed' /\ pc' = "idle"
  BY <1>2 DEF MemoryInv, Running, Serving, Starting, WriteSteps
<1>3. CASE UNCHANGED <<conv, loaded, failed, next, hist, pc, cont>>
  BY <1>b, <1>3 DEF MemoryInv, Running, Serving, Starting, Committed, Content, Replayable
<1>4. CASE /\ UNCHANGED <<conv, loaded, failed, hist>>
           /\ pc \in WriteSteps
           /\ (pc' \in WriteSteps /\ cont' = cont) \/ pc' \in {"idle", "update"}
  <2>1. ~ failed /\ loaded /\ Committed(conv) /\ conv.rev = Len(hist)
    BY <1>4 DEF HolderInv, MemoryInv, Running, Serving, Starting, WriteSteps, Replayable
  <2>2. Committed(conv)' /\ conv'.rev = Len(hist')
    BY <1>4, <2>1 DEF Committed, Content
  <2>3. conv'.rev >= Offset'
    BY <1>a, <1>b, <1>4, <2>1
  <2> QED BY <1>4, <2>1, <2>2, <2>3
          DEF MemoryInv, Running, Serving, Starting, WriteSteps, Replayable
<1>5. CASE /\ UNCHANGED <<conv, loaded, failed, hist>>
           /\ pc \in {"idle", "update"} /\ ~ failed /\ loaded
           /\ \/ pc' = "stage" /\ cont' = "repair"
              \/ pc' \in {"idle", "update"}
              \/ pc' = "append" /\ next'.rev = Current.rev + 1
  <2>1. loaded /\ Committed(conv) /\ conv.rev = Len(hist) /\ Current = conv
    BY <1>5 DEF MemoryInv, Running, Serving, Starting, WriteSteps, Current
  <2>2. Committed(conv)' /\ conv'.rev = Len(hist')
    BY <1>5, <2>1 DEF Committed, Content
  <2> QED BY <1>5, <2>1, <2>2 DEF MemoryInv, Running, Serving, Starting, WriteSteps
<1>6. CASE WriteConversation \/ WriteConversationBackup \/ PromoteConversation
           \/ RenameAfterMove \/ EnsureBackup \/ MoveAside
  <2>1. UNCHANGED <<conv, loaded, failed, hist, cont>> /\ pc \in WriteSteps
    BY <1>6 DEF WriteConversation, WriteConversationBackup, PromoteConversation,
       RenameAfterMove, EnsureBackup, MoveAside, AfterBackup, CheckpointWritten,
       mem, ghost, call, WriteSteps
  <2>2. pc' \in WriteSteps \/ pc' \in {"idle", "update"}
    BY <1>6 DEF WriteConversation, WriteConversationBackup, PromoteConversation,
       RenameAfterMove, EnsureBackup, MoveAside, AfterBackup, CheckpointWritten, WriteSteps
  <2> QED BY <1>4, <2>1, <2>2
<1>7. CASE ApplyUpdate
  <2>1. UNCHANGED <<conv, loaded, failed, hist>> /\ pc = "update"
    BY <1>7 DEF ApplyUpdate, mem, ghost
  <2>2. ~ failed
    BY <2>1 DEF HolderInv
  <2>3. pc' = "idle" \/ (pc' = "append" /\ next'.rev = Current.rev + 1)
    BY <1>7 DEF ApplyUpdate
  <2> QED BY <1>1, <1>5, <2>1, <2>2, <2>3
<1>8. CASE CommitRevision
  <2>1. /\ pc = "append" /\ pc' = "stage" /\ cont' = "commit" /\ conv' = next
        /\ loaded' /\ failed' = failed
        /\ AppendConversationJournal(conversationPatch(Current, next), "full")
    BY <1>8 DEF CommitRevision
  <2>2. "full" \in AppendOutcomes
    BY DEF AppendOutcomes
  <2>3. hist' = Append(hist, next.items) /\ next.rev = Len(hist) + 1 /\ ~ failed
    BY <2>1, <2>2, AppendEffect DEF HolderInv, MemoryInv
  <2>4. next.items \in Items
    BY <1>a DEF Projection
  <2>5. conv'.rev = Len(hist') /\ Committed(conv)'
    BY <1>a, <2>1, <2>3, <2>4 DEF Committed, Content
  <2> QED BY <2>1, <2>3, <2>5 DEF MemoryInv, Running, Serving, Starting, WriteSteps
<1>9. CASE ReplayPatch
  <2>1. /\ pc = "replay" /\ UNCHANGED <<pc, loaded, failed, hist, journal, cont>>
    BY <1>9 DEF ReplayPatch, disk, ghost, call
  <2>2. PICK i \in 1..Len(journal) :
          journal[i].rev = conv.rev + 1 /\ conv' = applyConversationPatch(conv, journal[i])
    BY <1>9 DEF ReplayPatch
  <2>3. ~ failed /\ loaded /\ Replayable(conv)
    BY <2>1 DEF HolderInv, MemoryInv, Starting
  <2>4. /\ conv.rev = Offset + i - 1 /\ conv.items = Content(Offset + i - 1)
        /\ hist[Offset + i] = IF journal[i].replaceAll THEN journal[i].items
                              ELSE conv.items \cup journal[i].items
    <3>1. /\ journal[i].rev = Offset + i
          /\ hist[Offset + i] = IF journal[i].replaceAll THEN journal[i].items
                                ELSE Content(Offset + i - 1) \cup journal[i].items
      BY <2>2 DEF JournalInv, JournalRecords
    <3>2. conv.rev = Offset + i - 1
      BY <1>a, <1>b, <2>2, <3>1
    <3>3. conv.items = Content(Offset + i - 1)
      BY <2>3, <3>2 DEF Replayable, Committed
    <3> QED BY <3>1, <3>2, <3>3
  <2>5. conv'.rev = Offset + i /\ conv'.items = hist[Offset + i]
    BY <1>a, <1>b, <2>2, <2>4 DEF applyConversationPatch
  <2>6. ReplayableNext(conv')
    BY <1>a, <1>b, <2>1, <2>5 DEF ReplayableNext
  <2> QED BY <1>c, <2>1, <2>3, <2>6 DEF MemoryInv, Running, Serving, Starting, WriteSteps
<1>10. CASE ReplayDone
  <2>1. /\ pc = "replay" /\ UNCHANGED <<conv, loaded, failed, hist>>
        /\ \A i \in 1..Len(journal) : journal[i].rev # conv.rev + 1
    BY <1>10 DEF ReplayDone, mem, ghost
  <2>2. ~ failed /\ loaded /\ Replayable(conv)
    BY <2>1 DEF HolderInv, MemoryInv, Starting
  <2>3. conv.rev = Len(hist)
    <3> SUFFICES ASSUME conv.rev # Len(hist) PROVE FALSE
      OBVIOUS
    <3>1. conv.rev >= Offset /\ conv.rev < Len(hist)
      BY <1>a, <2>2 DEF Replayable, Committed
    <3>2. conv.rev + 1 - Offset \in 1..Len(journal)
      BY <1>a, <1>b, <3>1
    <3>3. journal[conv.rev + 1 - Offset].rev = Offset + (conv.rev + 1 - Offset)
      BY <3>2 DEF JournalInv, JournalRecords
    <3>4. Offset + (conv.rev + 1 - Offset) = conv.rev + 1
      BY <1>a, <1>b
    <3> QED BY <2>1, <3>2, <3>3, <3>4
  <2>4. Replayable(conv)'
    BY <1>b, <2>1, <2>2 DEF Replayable, Committed, Content
  <2>5. \/ pc' \in WriteSteps /\ cont' \in {"recover", "recoverBackup"}
        \/ pc' = "idle"
    BY <1>10 DEF ReplayDone, WriteSteps
  <2> QED BY <1>c, <2>1, <2>2, <2>3, <2>4, <2>5
          DEF MemoryInv, Running, Serving, Starting, WriteSteps
<1>11. CASE WriteFails \/ RestoreAfterMove
  <2>1. /\ pc \in WriteSteps /\ pc' = "idle"
        /\ CheckpointFailed(cont) /\ hist' = hist
    BY <1>11 DEF WriteFails, RestoreAfterMove, CheckpointFailed, WriteSteps
  <2>2. UNCHANGED <<conv, loaded, failed>> \/ ~ loaded'
    BY <2>1 DEF CheckpointFailed
  <2> QED BY <1>1, <1>4, <2>1, <2>2
<1>12. CASE DiffFails
  <2>1. pc = "update" /\ pc' = "idle" /\ UNCHANGED <<conv, loaded, failed, hist>>
    BY <1>12 DEF DiffFails, mem
  <2>2. ~ failed
    BY <2>1 DEF HolderInv
  <2> QED BY <1>1, <1>5, <2>1, <2>2
<1>13. CASE \E kind \in {"reduce", "hydrate", "flush", "timer"} : StartUpdate(kind) /\ UNCHANGED hist
  <2>1. pc = "idle" /\ ~ failed /\ UNCHANGED <<conv, loaded, failed, hist>>
    BY <1>13 DEF StartUpdate, Idle, mem
  <2>2. (pc' = "stage" /\ cont' = "repair") \/ pc' = "update"
    BY <1>13 DEF StartUpdate
  <2> QED BY <1>1, <1>5, <2>1, <2>2
<1>14. CASE UpdateConversation("reduce") \/ UpdateConversation("hydrate")
            \/ FlushConversation \/ TimerFires
  <2>1. CASE TimerFires /\ ~ StartUpdate("timer")
    <3>1. UNCHANGED <<mem, call, pc, hist>>
      BY <2>1 DEF TimerFires, ghost
    <3> QED BY <1>3, <3>1 DEF mem, call
  <2>2. CASE ~ (TimerFires /\ ~ StartUpdate("timer"))
    <3>1. \E kind \in {"reduce", "hydrate", "flush", "timer"} : StartUpdate(kind)
      BY <1>14, <2>2 DEF UpdateConversation, FlushConversation
    <3>2. UNCHANGED hist
      BY <1>14 DEF UpdateConversation, FlushConversation, TimerFires, ghost
    <3> QED BY <1>13, <3>1, <3>2
  <2> QED BY <2>1, <2>2
<1>15. CASE Restart
  <2>1. CASE failed'
    <3>1. pc' = "idle"
      BY <2>1, HolderStep DEF HolderInv
    <3> QED BY <1>2, <2>1, <3>1
  <2>2. CASE ~ failed'
    <3>1. /\ UNCHANGED <<hist, journal>>
          /\ \/ pc' = "replay" /\ loaded' /\ \E p \in Baseline : conv' = p
             \/ failed' /\ pc' = "idle"
      BY <1>15 DEF Restart, ghost
    <3>2. conv' \in Projection /\ Replayable(conv')
      BY <2>2, <3>1, BaselineReplayable
    <3>3. ReplayableNext(conv')
      BY <3>2, StaysReplayable
    <3> QED BY <1>c, <2>2, <3>1, <3>3
            DEF MemoryInv, Running, Serving, Starting, WriteSteps
  <2> QED BY <2>1, <2>2
<1>16. CASE CommitFails
  BY <1>2, <1>16 DEF CommitFails
<1>17. CASE Crash \/ RestartThrows \/ \E f \in {"primary", "backup"} : DamageCheckpoint(f)
  BY <1>1, <1>17 DEF Crash, ForgetMemory, RestartThrows, DamageCheckpoint, HolderInv, mem
<1>18. CASE Coalesce \/ Snapshot \/ UNCHANGED vars
  BY <1>3, <1>18 DEF Coalesce, Snapshot, vars, mem, call, ghost
<1> QED
  BY <1>6, <1>7, <1>8, <1>9, <1>10, <1>11, <1>12, <1>14, <1>15, <1>16, <1>17, <1>18
  DEF Next, Proceed, Fail

LEMMA PendingStep ==
  ASSUME TypeInv, PendingInv, [Next]_vars
  PROVE  PendingInv'
<1>1. CASE ~ hasPending'
  BY <1>1 DEF PendingInv, PendingIsCovered
<1>2. CASE UNCHANGED <<pend, failed, op, pc, cont>>
  BY <1>2 DEF PendingInv, PendingIsCovered, Idle, pend
<1>3. CASE pc \in WriteSteps /\ UNCHANGED <<pend, failed, op, cont>> /\ pc' \in WriteSteps
  BY <1>3 DEF PendingInv, PendingIsCovered, Idle, pend, WriteSteps
<1>4. CASE failed' /\ pc' = "idle"
  BY <1>4 DEF PendingInv, PendingIsCovered, WriteSteps
<1>5. CASE pc' = "idle" /\ flushFailed'
  BY <1>5 DEF PendingInv, PendingIsCovered, WriteSteps
<1>6. ASSUME flushFailed' = (flushFailed \/ op = "timer"), pc # "idle", pc' = "idle",
             UNCHANGED <<hasPending, timer, failed>>
      PROVE  PendingInv'
  <2>1. hasPending' /\ ~ failed' => timer' \/ flushFailed'
    BY Zenon, <1>6 DEF PendingInv, PendingIsCovered, Idle
  <2> QED BY <1>6, <2>1 DEF PendingInv, PendingIsCovered, WriteSteps
<1>7. ASSUME NEW caller, CheckpointWritten(caller), caller = cont, UNCHANGED op,
             pc \in WriteSteps
      PROVE  PendingInv'
  <2>1. CASE caller = "repair"
    <3>1. UNCHANGED <<hasPending, timer, flushFailed, failed>> /\ pc' = "update"
      BY <1>7, <2>1 DEF CheckpointWritten
    <3> QED BY <1>7, <3>1 DEF PendingInv, PendingIsCovered, Idle, WriteSteps
  <2>2. CASE caller # "repair"
    BY <1>1, <1>7, <2>2 DEF CheckpointWritten, PendingInv
  <2> QED BY <2>1, <2>2
<1>8. CASE WriteConversation \/ PromoteConversation \/ MoveAside
  <2>1. pc \in WriteSteps /\ UNCHANGED <<pend, failed, op, cont>> /\ pc' \in WriteSteps
    BY <1>8 DEF WriteConversation, PromoteConversation, MoveAside, mem, call, WriteSteps
  <2> QED BY <1>3, <2>1
<1>9. CASE WriteConversationBackup \/ RenameAfterMove \/ EnsureBackup
  <2>1. pc \in WriteSteps /\ UNCHANGED <<op, cont>>
    BY <1>9 DEF WriteConversationBackup, RenameAfterMove, EnsureBackup, call, WriteSteps
  <2>2. \/ CheckpointWritten(cont)
        \/ UNCHANGED <<pend, failed>> /\ pc' \in WriteSteps
    BY <1>9 DEF WriteConversationBackup, RenameAfterMove, EnsureBackup, AfterBackup,
       mem, pend, WriteSteps
  <2> QED BY <1>3, <1>7, <2>1, <2>2
<1>10. CASE ApplyUpdate
  <2>1. UNCHANGED <<hasPending, timer, failed, op>> /\ pc = "update"
    BY <1>10 DEF ApplyUpdate, mem
  <2>2. CASE pc' = "append" /\ UNCHANGED flushFailed
    BY <2>1, <2>2 DEF PendingInv, PendingIsCovered, Idle, WriteSteps
  <2>3. CASE ~ hasPending
    BY <1>1, <2>1, <2>3
  <2> QED BY <1>10, <2>2, <2>3 DEF ApplyUpdate
<1>11. CASE CommitRevision \/ Crash
  <2>1. hasPending' = FALSE
    BY <1>11 DEF CommitRevision, Crash, ForgetMemory
  <2> QED BY <1>1, <2>1
<1>12. CASE ReplayPatch \/ ReplayDone \/ Restart \/ RestartThrows
            \/ \E f \in {"primary", "backup"} : DamageCheckpoint(f)
  <2>1. pc \in {"down", "replay"} /\ UNCHANGED hasPending
    BY <1>12 DEF ReplayPatch, ReplayDone, Restart, RestartThrows, DamageCheckpoint, pend
  <2> QED BY <1>1, <2>1 DEF PendingInv
<1>13. CASE WriteFails \/ RestoreAfterMove
  <2>1. /\ pc \in WriteSteps /\ pc' = "idle" /\ UNCHANGED <<hasPending, timer, failed>>
        /\ CheckpointFailed(cont)
    BY <1>13 DEF WriteFails, RestoreAfterMove, CheckpointFailed, WriteSteps
  <2>2. CASE cont \in {"repair", "commit"}
    <3>1. flushFailed' = (flushFailed \/ op = "timer")
      BY Zenon, <2>1, <2>2 DEF CheckpointFailed
    <3> QED BY <1>6, <2>1, <3>1 DEF WriteSteps
  <2>3. CASE cont # "repair"
    BY <1>1, <2>1, <2>3 DEF PendingInv
  <2> QED BY <2>2, <2>3
<1>14. CASE DiffFails
  BY Zenon, <1>6, <1>14 DEF DiffFails, mem
<1>15. CASE CommitFails
  BY <1>4, <1>15 DEF CommitFails
<1>16. CASE Coalesce
  BY <1>16 DEF Coalesce, PendingInv, PendingIsCovered, Idle, WriteSteps
<1>17. CASE TimerFires
  <2>1. CASE StartUpdate("timer")
    <3>1. op' = "timer" /\ (pc' = "update" \/ (pc' = "stage" /\ cont' = "repair"))
      BY <2>1 DEF StartUpdate
    <3> QED BY <3>1 DEF PendingInv, PendingIsCovered, Idle, WriteSteps
  <2>2. CASE ~ StartUpdate("timer")
    <3>1. pc' = "idle" /\ flushFailed' = TRUE
      BY <1>17, <2>2 DEF TimerFires, Idle
    <3> QED BY <1>5, <3>1
  <2> QED BY <2>1, <2>2
<1>18. CASE FlushConversation \/ \E kind \in {"reduce", "hydrate"} : UpdateConversation(kind)
  <2>1. /\ UNCHANGED pend /\ \E kind \in {"reduce", "hydrate", "flush"} : StartUpdate(kind)
    BY <1>18 DEF FlushConversation, UpdateConversation
  <2>2. /\ pc = "idle" /\ UNCHANGED <<hasPending, timer, flushFailed, failed>>
        /\ (pc' = "update" \/ (pc' = "stage" /\ cont' = "repair"))
    BY <2>1 DEF StartUpdate, Idle, pend, mem
  <2> QED BY <2>2 DEF PendingInv, PendingIsCovered, Idle, WriteSteps
<1>19. CASE Snapshot \/ UNCHANGED vars
  BY <1>2, <1>19 DEF Snapshot, vars, mem, call
<1> QED
  BY <1>8, <1>9, <1>10, <1>11, <1>12, <1>13, <1>14, <1>15, <1>16, <1>17, <1>18, <1>19
  DEF Next, Proceed, Fail

LEMMA IInit == Init => IInv
<1> SUFFICES ASSUME Init PROVE IInv
  OBVIOUS
<1>1. TypeInv
  BY TypeInit
<1>2. conv \in Projection /\ conv.rev \in {0, 1} /\ (conv.rev = 0 => conv.items = {})
  BY <1>1 DEF Init, Created, Imported, EmptyProjection, TypeInv, TypeOK
<1>3. /\ Len(hist) = conv.rev /\ (conv.rev = 1 => hist[1] = conv.items)
      /\ Len(journal) = 0 /\ Offset = conv.rev
  BY <1>2 DEF Init, Offset
<1>4. Replayable(conv) /\ Committed(conv)
  <2>1. conv.items = Content(conv.rev)
    BY <1>2, <1>3 DEF Content
  <2>2. conv.rev <= Len(hist) /\ conv.rev >= Offset
    BY <1>2, <1>3
  <2> QED BY <2>1, <2>2 DEF Replayable, Committed
<1>5. \A f \in {"primary", "backup"} : files[f].state = "valid" /\ files[f].proj = conv
  BY DEF Init, Valid
<1>6. Committed(published)
  BY <1>3, <1>2 DEF Init, EmptyProjection, Committed, Content
<1>7. JournalInv
  BY <1>2, <1>3 DEF JournalInv, JournalRecords, Init, Running
<1>8. DiskInv /\ CopyInv
  BY <1>4, <1>5, <1>6 DEF DiskInv, CopyInv, ValidFiles, OneCheckpointSurvives
<1>9. WriteInv /\ PendingInv /\ HolderInv
  BY DEF Init, WriteInv, PendingInv, PendingIsCovered, HolderInv, Starting, WriteSteps
<1>10. MemoryInv
  BY <1>3, <1>4 DEF Init, MemoryInv, Running, Serving, Starting, WriteSteps
<1> QED BY <1>1, <1>7, <1>8, <1>9, <1>10 DEF IInv, CleanInv

LEMMA Invariance == Spec => []IInv
<1>1. ASSUME IInv, [Next]_vars, ~ spoiled'
      PROVE  CleanInv'
  BY <1>1, SpoiledStays, JournalStep, DiskStep, WriteStep, MemoryStep DEF CleanInv
<1>2. IInv /\ [Next]_vars => IInv'
  BY <1>1, TypeStep, HolderStep, CopyStep, PendingStep DEF IInv
<1> QED BY IInit, <1>2, PTL DEF Spec

-----------------------------------------------------------------------------
(* What follows from the invariant *)

(* From every checkpoint recovery may start from, the journal goes on.      *)
LEMMA ReplayableContinues ==
  ASSUME IInv, ~ spoiled, NEW p \in Projection, Replayable(p)
  PROVE  Continues(p)
<1> USE DEF IInv, CleanInv
<1>1. /\ p.rev \in Nat /\ p.rev >= Offset /\ p.rev <= Len(hist)
      /\ journal \in Seq(Patch) /\ Len(journal) \in Nat /\ Len(hist) \in Nat
      /\ Offset \in {0, 1} /\ Len(hist) = Offset + Len(journal)
  BY DEF Replayable, Committed, JournalInv, Offset, TypeInv, TypeOK, Projection
<1>2. \A i \in 1..Len(journal) : journal[i].rev = Offset + i
  BY DEF JournalInv, JournalRecords
<1>3. NoRecord \/ p.rev <= Latest
  <2>1. CASE ~ NoRecord
    <3>1. Len(journal) \in 1..Len(journal)
      BY <1>1, <2>1 DEF NoRecord
    <3>2. Latest = Offset + Len(journal)
      BY <1>2, <3>1 DEF Latest
    <3> QED BY <1>1, <3>2
  <2> QED BY <2>1
<1>4. ASSUME NEW j \in 1..Len(journal), journal[j].rev > p.rev
      PROVE  \E i \in 1..Len(journal) : journal[i].rev > p.rev /\ journal[i].rev = p.rev + 1
  <2>1. p.rev + 1 - Offset \in 1..Len(journal)
    BY <1>1, <1>2, <1>4
  <2>2. journal[p.rev + 1 - Offset].rev = p.rev + 1
    BY <1>1, <1>2, <2>1
  <2>3. p.rev + 1 > p.rev
    BY <1>1
  <2> QED BY <2>1, <2>2, <2>3
<1> QED BY <1>3, <1>4 DEF Continues

(* Whatever files and renames fail and wherever the process crashes, until  *)
(* an append takes a record along or is made without a conversation, a      *)
(* client or an update of a loaded job sees the last committed revision     *)
(* with its content (readConversation, updateConversation).                 *)
THEOREM ServesCommittedAlways == Spec => []ServesCommitted
<1>1. IInv => ServesCommitted
  BY DEF IInv, CleanInv, MemoryInv, ServesCommitted
<1> QED BY <1>1, Invariance, PTL

(* No cursor handed to a client is ahead of the server, and none changes    *)
(* its meaning, until such an append (snapshot, initialize).                *)
THEOREM ClientsViewSurvivesAlways == Spec => []ClientsViewSurvives
<1>1. IInv => ClientsViewSurvives
  <2> SUFFICES ASSUME IInv, Serving, loaded, ~ spoiled PROVE ClientsViewSurvives
    BY DEF ClientsViewSurvives
  <2>1. Committed(conv) /\ conv.rev = Len(hist) /\ Committed(published)
    BY DEF IInv, CleanInv, MemoryInv, DiskInv
  <2>2. conv \in Projection /\ published \in Projection
    BY DEF IInv, TypeInv, TypeOK
  <2>3. published.rev = conv.rev => published.items = conv.items
    BY <2>1 DEF Committed
  <2>4. published.rev = conv.rev => published = conv
    BY <2>2, <2>3 DEF Projection
  <2> QED BY <2>1, <2>4 DEF ClientsViewSurvives, Committed
<1> QED BY <1>1, Invariance, PTL

(* A readable checkpoint never holds anything but a committed revision      *)
(* (writeConversation after the append, promoteConversationFile).           *)
THEOREM CheckpointsCommittedAlways == Spec => []CheckpointsCommitted
<1>1. IInv => CheckpointsCommitted
  BY DEF IInv, CleanInv, DiskInv, CheckpointsCommitted, Replayable
<1> QED BY <1>1, Invariance, PTL

(* Undamaged files always include a readable checkpoint, also between the   *)
(* two renames of promoteConversationFile.                                  *)
THEOREM OneCheckpointSurvivesAlways == Spec => []OneCheckpointSurvives
<1>1. IInv => OneCheckpointSurvives
  BY DEF IInv, CopyInv
<1> QED BY <1>1, Invariance, PTL

(* Streamed content waits with an armed timer or a reported failure         *)
(* (applyConversationNotification, scheduleConversationFlush).              *)
THEOREM PendingIsCoveredAlways == Spec => []PendingIsCovered
<1>1. IInv => PendingIsCovered
  BY DEF IInv, PendingInv
<1> QED BY <1>1, Invariance, PTL

(* A restart that finds one readable checkpoint, or a journal from its      *)
(* first revision, recovers the conversation, unless a file operation fails *)
(* or a whole record was written after one without newline                  *)
(* (readConversation).                                                      *)
THEOREM EvidenceRecoversAlways == Spec => EvidenceRecovers
<1> DEFINE A == pc = "down" /\ pc' # "down" /\ Evidence /\ tail # "glued" /\ ~ spoiled
                => ~ failed' /\ (loaded' \/ faults' # faults)
<1>1. IInv /\ [Next]_vars => [A]_vars
  <2> SUFFICES ASSUME IInv, [Next]_vars, pc = "down", pc' # "down", Evidence,
                      tail # "glued", ~ spoiled
               PROVE  ~ failed' /\ (loaded' \/ faults' # faults)
    OBVIOUS
  <2> USE DEF IInv, CleanInv
  <2>1. Restart \/ RestartThrows
    <3> USE DEF disk, pend, mem, call, ghost, Running, Idle
    <3>1. ~ Proceed
      BY DEF Proceed, WriteConversation, WriteConversationBackup, PromoteConversation,
         RenameAfterMove, EnsureBackup, ApplyUpdate, CommitRevision, ReplayPatch, ReplayDone
    <3>2. ~ Fail
      BY DEF Fail, WriteFails, RestoreAfterMove, DiffFails, CommitFails
    <3>3. ~ (MoveAside \/ Coalesce \/ TimerFires \/ FlushConversation \/ Snapshot \/ Crash)
      BY DEF MoveAside, Coalesce, TimerFires, FlushConversation, Snapshot, Crash, StartUpdate
    <3>4. /\ ~ \E kind \in {"reduce", "hydrate"} : UpdateConversation(kind)
          /\ ~ \E f \in {"primary", "backup"} : DamageCheckpoint(f)
      BY DEF UpdateConversation, StartUpdate, DamageCheckpoint
    <3>5. ~ UNCHANGED vars
      BY DEF vars
    <3> QED BY <3>1, <3>2, <3>3, <3>4, <3>5 DEF Next
  <2>2. PICK p : p \in Baseline
    BY DEF Baseline, Evidence
  <2>3. \E q \in Baseline : Continues(q)
    BY <2>2, BaselineReplayable, ReplayableContinues
  <2>4. Readable
    <3>1. /\ tail \notin {"glued", "broken"} /\ journal \in Seq(Patch) /\ Offset \in {0, 1}
          /\ \A i \in 1..Len(journal) : journal[i].rev = Offset + i
      BY DEF JournalInv, JournalRecords, TypeInv, TypeOK
    <3>2. ASSUME NEW i \in 1..(Len(journal) - 1)
          PROVE  journal[i + 1].rev = journal[i].rev + 1
      <4>1. i \in 1..Len(journal) /\ i + 1 \in 1..Len(journal)
        BY <3>1
      <4> QED BY <3>1, <4>1
    <3> QED BY <3>1, <3>2 DEF Readable, Contiguous
  <2>5. ~ failed
    BY DEF HolderInv
  <2>6. CASE Restart
    BY <2>3, <2>4, <2>5, <2>6 DEF Restart
  <2>7. CASE RestartThrows
    BY <2>5, <2>7 DEF RestartThrows, FileFault, mem, TypeInv, TypeOK
  <2> QED BY <2>1, <2>6, <2>7
<1> QED BY <1>1, Invariance, PTL DEF EvidenceRecovers, Spec
=============================================================================

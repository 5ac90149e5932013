---------------------------- MODULE PollerProofs ----------------------------
(* The invariants of Poller for every set of channels.                      *)
EXTENDS Poller, TLAPS, FiniteSetTheorems, SequenceTheorems

(* A channel outside the poller is either untouched or gone for good.       *)
OutsideConsistent ==
    \A c \in Channel : /\ c \in removed => c \notin Registered
                       /\ c \notin Registered => c \in removed \/ index_[c] = -1

ActiveOnlyInHandle == phase # "handle" => activeChannels_ = <<>>

CountConsistent == /\ IsFiniteSet(Mapped)
                   /\ Cardinality(Mapped) = Len(pollfds_)

IInv == /\ Types
        /\ MapConsistent
        /\ IndexConsistent
        /\ OutsideConsistent
        /\ NoneEventIgnored
        /\ ActiveOnlyInHandle
        /\ ActiveRegistered
        /\ CountConsistent
-----------------------------------------------------------------------------
(* Decoding an entry gives one descriptor: two registered channels never    *)
(* share an index.                                                          *)
LEMMA IndexInjective ==
    ASSUME Types, IndexConsistent,
           NEW c \in Registered, NEW d \in Registered, index_[c] = index_[d]
    PROVE  c = d
  <1>1. c \in Channel /\ d \in Channel
    BY DEF Registered
  <1>2. FdOf[c] \in Nat /\ FdOf[d] \in Nat
    BY <1>1, FdAssumption
  <1>3. /\ Entry(c).fd \in {FdOf[c], Ignored(FdOf[c])}
        /\ Entry(d).fd \in {FdOf[d], Ignored(FdOf[d])}
    BY DEF IndexConsistent
  <1>4. Entry(c).fd = Entry(d).fd
    BY DEF Entry
  <1>5. FdOf[c] = FdOf[d]
    BY <1>2, <1>3, <1>4 DEF Ignored
  <1> QED BY <1>1, <1>5, FdAssumption

(* The first update of a channel appends an entry.                          *)
LEMMA AddPreserves ==
    ASSUME IInv, NEW c \in Channel \ removed, NEW ev \in SUBSET Event, ev # kNoneEvent,
           index_[c] < 0, updateChannel(c, ev),
           UNCHANGED <<activeChannels_, phase, removed>>
    PROVE  IInv'
  <1> DEFINE p == [fd |-> FdOf[c], events |-> ev]
             n == Len(pollfds_)
  <1>1. /\ channels_[FdOf[c]] = NoChannel
        /\ pollfds_' = Append(pollfds_, p)
        /\ index_' = [index_ EXCEPT ![c] = n]
        /\ channels_' = [channels_ EXCEPT ![FdOf[c]] = c]
        /\ events_' = [events_ EXCEPT ![c] = ev]
    BY DEF updateChannel, UpdateAsserts, AddPollFd
  <1>2. /\ FdOf[c] \in Nat /\ FdOf[c] \in Fd /\ c # NoChannel
        /\ p \in PollFd
    BY FdAssumption, NoChannelAssumption DEF Fd, PollFd
  <1>3. /\ n \in Nat
        /\ pollfds_' \in Seq(PollFd)
        /\ Len(pollfds_') = n + 1
        /\ DOMAIN pollfds_ = 1 .. n /\ DOMAIN pollfds_' = 1 .. n + 1
        /\ \A i \in 1 .. n : pollfds_'[i] = pollfds_[i]
        /\ pollfds_'[n + 1] = p
    BY <1>1, <1>2 DEF IInv, Types
  <1>4. Types'
    BY <1>1, <1>2, <1>3 DEF IInv, Types
  <1>5. c \notin Registered /\ Registered' = Registered \cup {c}
    <2>1. c \notin Registered
      BY <1>1, <1>2 DEF Registered
    <2>2. \A d \in Channel \ {c} : FdOf[d] # FdOf[c] /\ FdOf[d] \in Fd
      BY FdAssumption DEF Fd
    <2>3. \A d \in Channel \ {c} : channels_'[FdOf[d]] = channels_[FdOf[d]]
      BY <1>1, <2>2 DEF IInv, Types
    <2>4. channels_'[FdOf[c]] = c
      BY <1>1, <1>2 DEF IInv, Types
    <2> QED BY <2>1, <2>3, <2>4 DEF Registered
  <1>6. MapConsistent'
    BY <1>1, <1>2 DEF IInv, Types, MapConsistent, Fd
  <1>7. \A d \in Registered : /\ index_'[d] = index_[d] /\ index_[d] + 1 \in 1 .. n
                              /\ Entry(d)' = Entry(d) /\ events_'[d] = events_[d]
    BY <1>1, <1>3, <1>5 DEF IInv, Types, IndexConsistent, Entry, Registered
  <1>8. index_'[c] = n /\ Entry(c)' = p /\ events_'[c] = ev
    BY <1>1, <1>3 DEF IInv, Types, Entry
  <1>9. IndexConsistent'
    <2>1. ASSUME NEW d \in Registered'
          PROVE  /\ index_'[d] + 1 \in DOMAIN pollfds_'
                 /\ Entry(d)'.fd \in {FdOf[d], Ignored(FdOf[d])}
                 /\ Entry(d)'.events = events_'[d]
      <3>1. CASE d = c
        BY <1>3, <1>8, <3>1
      <3>2. CASE d # c
        BY <1>3, <1>5, <1>7, <3>2 DEF IInv, IndexConsistent
      <3> QED BY <3>1, <3>2
    <2>2. ASSUME NEW i \in DOMAIN pollfds_'
          PROVE  \E d \in Registered' : index_'[d] = i - 1
      <3>1. CASE i = n + 1
        BY <1>3, <1>5, <1>8, <3>1
      <3>2. CASE i # n + 1
        <4>1. i \in DOMAIN pollfds_
          BY <1>3, <3>2
        <4>2. PICK d \in Registered : index_[d] = i - 1
          BY <4>1 DEF IInv, IndexConsistent
        <4> QED BY <1>5, <1>7, <4>2
      <3> QED BY <3>1, <3>2
    <2> QED BY <2>1, <2>2 DEF IndexConsistent
  <1>10. OutsideConsistent'
    <2>1. ASSUME NEW d \in Channel
          PROVE  /\ d \in removed' => d \notin Registered'
                 /\ d \notin Registered' => d \in removed' \/ index_'[d] = -1
      <3>1. CASE d = c
        BY <1>5, <3>1
      <3>2. CASE d # c
        BY <1>1, <1>5, <3>2 DEF IInv, Types, OutsideConsistent
      <3> QED BY <3>1, <3>2
    <2> QED BY <2>1 DEF OutsideConsistent
  <1>11. NoneEventIgnored'
    BY <1>5, <1>7, <1>8 DEF IInv, NoneEventIgnored, isNoneEvent
  <1>12. ActiveOnlyInHandle' /\ ActiveRegistered'
    BY <1>5 DEF IInv, ActiveOnlyInHandle, ActiveRegistered
  <1>13. CountConsistent'
    <2>1. Mapped' = Mapped \cup {FdOf[c]} /\ FdOf[c] \notin Mapped
      BY <1>1, <1>2 DEF IInv, Types, Mapped
    <2>2. IsFiniteSet(Mapped') /\ Cardinality(Mapped') = Cardinality(Mapped) + 1
      BY <2>1, FS_AddElement DEF IInv, CountConsistent
    <2> QED BY <1>3, <2>2 DEF IInv, CountConsistent
  <1> QED BY <1>4, <1>6, <1>9, <1>10, <1>11, <1>12, <1>13 DEF IInv

(* Every later update rewrites the channel's own entry and no other.        *)
LEMMA ChangePreserves ==
    ASSUME IInv, NEW c \in Channel \ removed, NEW ev \in SUBSET Event,
           index_[c] >= 0, updateChannel(c, ev),
           UNCHANGED <<activeChannels_, phase, removed>>
    PROVE  IInv'
  <1> DEFINE k == index_[c] + 1
             n == Len(pollfds_)
             f == IF ev = kNoneEvent THEN Ignored(FdOf[c]) ELSE pollfds_[k].fd
             p == [fd |-> f, events |-> ev]
  <1>1. index_[c] \in Int /\ ~(index_[c] < 0)
    BY DEF IInv, Types
  <1>2. /\ channels_[FdOf[c]] = c /\ k \in DOMAIN pollfds_
        /\ pollfds_[k].fd \in {FdOf[c], Ignored(FdOf[c])}
        /\ pollfds_' = [pollfds_ EXCEPT ![k] = p]
        /\ index_' = index_ /\ channels_' = channels_
        /\ events_' = [events_ EXCEPT ![c] = ev]
    BY <1>1 DEF updateChannel, UpdateAsserts, ChangePollFd, Entry
  <1>3. c \in Registered /\ Registered' = Registered /\ Mapped' = Mapped
    BY <1>2 DEF Registered, Mapped
  <1>4. f \in {FdOf[c], Ignored(FdOf[c])} /\ f \in Int
    BY <1>2, FdAssumption DEF Ignored
  <1>5. /\ pollfds_' \in Seq(PollFd)
        /\ Len(pollfds_') = n /\ DOMAIN pollfds_' = DOMAIN pollfds_
        /\ \A i \in DOMAIN pollfds_ : i # k => pollfds_'[i] = pollfds_[i]
        /\ pollfds_'[k] = p
    <2>1. p \in PollFd
      BY <1>4 DEF PollFd
    <2> HIDE DEF p
    <2> QED BY <1>2, <2>1 DEF IInv, Types
  <1>6. Types'
    BY <1>2, <1>5 DEF IInv, Types
  <1>7. \A d \in Registered : d # c => Entry(d)' = Entry(d) /\ events_'[d] = events_[d]
    <2>1. ASSUME NEW d \in Registered, d # c
          PROVE  Entry(d)' = Entry(d)
      <3>1. index_[d] # index_[c]
        BY <1>3, <2>1, IndexInjective DEF IInv
      <3>2. index_[d] + 1 \in DOMAIN pollfds_ /\ index_[d] + 1 # k
        BY <1>1, <3>1 DEF IInv, Types, IndexConsistent, Registered
      <3> QED BY <1>2, <1>5, <3>2 DEF Entry
    <2>2. ASSUME NEW d \in Registered, d # c
          PROVE  events_'[d] = events_[d]
      BY <1>2, <2>2 DEF IInv, Types, Registered
    <2> QED BY <2>1, <2>2
  <1>8. Entry(c)' = p /\ events_'[c] = ev
    BY <1>2, <1>5 DEF IInv, Types, Entry
  <1>9. IndexConsistent'
    <2>1. ASSUME NEW d \in Registered
          PROVE  /\ index_'[d] + 1 \in DOMAIN pollfds_'
                 /\ Entry(d)'.fd \in {FdOf[d], Ignored(FdOf[d])}
                 /\ Entry(d)'.events = events_'[d]
      <3>1. CASE d = c
        BY <1>2, <1>4, <1>5, <1>8, <3>1
      <3>2. CASE d # c
        BY <1>2, <1>5, <1>7, <3>2 DEF IInv, IndexConsistent
      <3> QED BY <3>1, <3>2
    <2> QED BY <1>2, <1>3, <1>5, <2>1 DEF IInv, IndexConsistent
  <1>10. NoneEventIgnored'
    <2>1. ASSUME NEW d \in Registered, events_'[d] = kNoneEvent
          PROVE  Entry(d)'.fd = Ignored(FdOf[d])
      <3>1. CASE d = c
        BY <1>8, <2>1, <3>1
      <3>2. CASE d # c
        BY <1>7, <2>1, <3>2 DEF IInv, NoneEventIgnored, isNoneEvent
      <3> QED BY <3>1, <3>2
    <2> QED BY <1>3, <2>1 DEF NoneEventIgnored, isNoneEvent
  <1>11. MapConsistent' /\ OutsideConsistent'
    BY <1>2, <1>3 DEF IInv, MapConsistent, OutsideConsistent
  <1>12. ActiveOnlyInHandle' /\ ActiveRegistered'
    BY <1>3 DEF IInv, ActiveOnlyInHandle, ActiveRegistered
  <1>13. CountConsistent'
    BY <1>3, <1>5 DEF IInv, CountConsistent
  <1> QED BY <1>6, <1>9, <1>10, <1>11, <1>12, <1>13 DEF IInv

(* Dropping the last element keeps the others where they are.               *)
LEMMA DropLast ==
    ASSUME NEW S, NEW s \in Seq(S), NEW n \in Nat, Len(s) = n, n > 0
    PROVE  /\ SubSeq(s, 1, n - 1) \in Seq(S)
           /\ Len(SubSeq(s, 1, n - 1)) = n - 1
           /\ \A j \in 1 .. n - 1 : SubSeq(s, 1, n - 1)[j] = s[j]
  <1>1. \A j \in 1 .. n - 1 : s[j] \in S
    OBVIOUS
  <1> QED BY <1>1, SubSeqProperties

(* Removal moves the last entry, if any other, into the gap, and its        *)
(* channel's index with it, ignored or not.                                 *)
LEMMA RemovePreserves ==
    ASSUME IInv, NEW c \in Channel, removeChannel(c)
    PROVE  /\ IInv'
           /\ pollfds_ # <<>>
           /\ Registered' = Registered \ {c}
           /\ \A d \in Registered' : index_[d] = 0 => index_'[d] = 0
  <1> DEFINE n == Len(pollfds_)
             i == index_[c] + 1
  <1>1. /\ phase = "functors" /\ c \notin removed /\ events_[c] = kNoneEvent
        /\ channels_[FdOf[c]] = c /\ c \in Registered
        /\ channels_' = [channels_ EXCEPT ![FdOf[c]] = NoChannel]
        /\ removed' = removed \cup {c}
        /\ UNCHANGED <<events_, activeChannels_, phase>>
        /\ DropPollFd(c)
    BY DEF removeChannel, InUse, isNoneEvent, RemoveAsserts, Registered
  <1>2. /\ n \in Nat /\ DOMAIN pollfds_ = 1 .. n /\ i \in 1 .. n
        /\ pollfds_ # <<>>
        /\ index_ \in [Channel -> Int]
        /\ FdOf[c] \in Fd /\ c # NoChannel
    BY <1>1, NoChannelAssumption DEF IInv, Types, IndexConsistent, Fd
  <1>3. Registered' = Registered \ {c}
    <2>1. \A d \in Channel \ {c} : FdOf[d] # FdOf[c] /\ FdOf[d] \in Fd
      BY FdAssumption DEF Fd
    <2>2. \A d \in Channel \ {c} : channels_'[FdOf[d]] = channels_[FdOf[d]]
      BY <1>1, <2>1 DEF IInv, Types
    <2>3. channels_'[FdOf[c]] # c
      BY <1>1, <1>2 DEF IInv, Types
    <2> QED BY <2>2, <2>3 DEF Registered
  <1>4. \A d \in Registered : /\ d \in Channel /\ index_[d] + 1 \in 1 .. n
                              /\ d # c => index_[d] # index_[c]
    BY <1>1, <1>2, IndexInjective DEF IInv, IndexConsistent, Registered
  <1>4a. \A j \in 1 .. n : \E d \in Registered : index_[d] = j - 1
    BY <1>2 DEF IInv, IndexConsistent
  <1>5. PICK l \in Registered : index_[l] = n - 1
    BY <1>2, <1>4a
  (* What the vector and the indices become, last entry or not.             *)
  <1>6. /\ pollfds_' \in Seq(PollFd)
        /\ Len(pollfds_') = n - 1
        /\ DOMAIN pollfds_' = 1 .. n - 1
        /\ index_' \in [Channel -> Int]
        /\ \A d \in Registered \ {c} : /\ index_'[d] + 1 \in 1 .. n - 1
                                       /\ pollfds_'[index_'[d] + 1] = Entry(d)
                                       /\ index_[d] = 0 => index_'[d] = 0
        /\ \A d \in Channel \ Registered : index_'[d] = index_[d]
        /\ \A j \in 1 .. n - 1 : \E d \in Registered \ {c} : index_'[d] = j - 1
    <2>1. CASE i = n
      <3>1. pollfds_' = SubSeq(pollfds_, 1, n - 1) /\ index_' = index_
        BY <1>1, <2>1 DEF DropPollFd
      <3>2. /\ pollfds_' \in Seq(PollFd)
            /\ Len(pollfds_') = n - 1 /\ DOMAIN pollfds_' = 1 .. n - 1
            /\ \A j \in 1 .. n - 1 : pollfds_'[j] = pollfds_[j]
        BY <1>2, <3>1, DropLast DEF IInv, Types
      <3>3. \A d \in Registered \ {c} : index_[d] + 1 \in 1 .. n - 1
        BY <1>2, <1>4, <2>1
      <3>4. \A j \in 1 .. n - 1 : \E d \in Registered \ {c} : index_[d] = j - 1
        <4>1. TAKE j \in 1 .. n - 1
        <4>2. PICK d \in Registered : index_[d] = j - 1
          BY <1>2, <1>4a, <4>1
        <4>3. d # c
          BY <1>2, <2>1, <4>1, <4>2
        <4> QED BY <4>2, <4>3
      <3> QED BY <1>2, <3>1, <3>2, <3>3, <3>4 DEF Entry
    <2>2. CASE i # n
      <3>1. FdAtEnd = FdOf[l]
        <4>1. Entry(l).fd \in {FdOf[l], Ignored(FdOf[l])} /\ FdOf[l] \in Nat
          BY <1>4, FdAssumption DEF IInv, IndexConsistent
        <4>2. Entry(l) = pollfds_[n]
          BY <1>2, <1>5 DEF Entry
        <4> QED BY <4>1, <4>2 DEF FdAtEnd, Ignored
      <3>2. channels_[FdAtEnd] = l /\ l # c /\ l \in Channel
        BY <1>2, <1>4, <1>5, <2>2, <3>1 DEF Registered
      <3>3. /\ pollfds_' = SubSeq([pollfds_ EXCEPT ![i] = pollfds_[n]], 1, n - 1)
            /\ index_' = [index_ EXCEPT ![l] = index_[c]]
        BY <1>1, <2>2, <3>2 DEF DropPollFd
      <3>4. /\ pollfds_' \in Seq(PollFd)
            /\ Len(pollfds_') = n - 1 /\ DOMAIN pollfds_' = 1 .. n - 1
            /\ \A j \in 1 .. n - 1 : j # i => pollfds_'[j] = pollfds_[j]
            /\ i \in 1 .. n - 1 /\ pollfds_'[i] = pollfds_[n]
        <4> DEFINE q == [pollfds_ EXCEPT ![i] = pollfds_[n]]
        <4>1. /\ q \in Seq(PollFd) /\ Len(q) = n
              /\ \A j \in 1 .. n : j # i => q[j] = pollfds_[j]
              /\ q[i] = pollfds_[n]
          BY <1>2, ExceptSeq DEF IInv, Types
        <4> HIDE DEF q
        <4>2. pollfds_' = SubSeq(q, 1, n - 1)
          BY <3>3 DEF q
        <4>3. /\ pollfds_' \in Seq(PollFd)
              /\ Len(pollfds_') = n - 1
              /\ \A j \in 1 .. n - 1 : pollfds_'[j] = q[j]
          BY <1>2, <4>1, <4>2, DropLast
        <4>4. i \in 1 .. n - 1 /\ n \in 1 .. n
          BY <1>2, <2>2
        <4> HIDE DEF n, i
        <4> QED BY <4>1, <4>3, <4>4
      <3>5. ASSUME NEW d \in Registered \ {c}
            PROVE  /\ index_'[d] + 1 \in 1 .. n - 1
                   /\ pollfds_'[index_'[d] + 1] = Entry(d)
                   /\ index_[d] = 0 => index_'[d] = 0
        <4>1. CASE d = l
          <5>1. index_'[d] = index_[c] /\ index_[d] # 0
            BY <1>2, <1>4, <1>5, <2>2, <3>2, <3>3, <4>1
          <5> QED BY <1>2, <1>5, <3>4, <4>1, <5>1 DEF Entry
        <4>2. CASE d # l
          <5>1. index_'[d] = index_[d]
            BY <1>2, <1>4, <3>3, <4>2
          <5>2. index_[d] # index_[l]
            BY <4>2, IndexInjective DEF IInv
          <5>3. index_[d] + 1 \in 1 .. n - 1 /\ index_[d] + 1 # i
            BY <1>2, <1>4, <1>5, <5>2
          <5> QED BY <3>4, <5>1, <5>3 DEF Entry
        <4> QED BY <4>1, <4>2
      <3>6. \A j \in 1 .. n - 1 : \E d \in Registered \ {c} : index_'[d] = j - 1
        <4>1. TAKE j \in 1 .. n - 1
        <4>2. CASE j = i
          BY <1>2, <1>5, <3>2, <3>3, <4>2
        <4>3. CASE j # i
          <5>1. PICK d \in Registered : index_[d] = j - 1
            BY <1>2, <1>4a, <4>1
          <5>2. d # c /\ d # l /\ d \in Channel
            BY <1>2, <1>4, <1>5, <4>1, <4>3, <5>1
          <5> QED BY <1>2, <3>3, <5>1, <5>2
        <4> QED BY <4>2, <4>3
      <3>7. /\ index_' \in [Channel -> Int]
            /\ \A d \in Channel \ Registered : index_'[d] = index_[d]
        BY <1>2, <1>5, <3>2, <3>3
      <3> QED BY <3>4, <3>5, <3>6, <3>7
    <2> QED BY <2>1, <2>2
  <1>6a. DOMAIN pollfds_' = 1 .. n - 1 /\ Len(pollfds_') = n - 1
    BY <1>6
  <1>6b. \A d \in Registered \ {c} : index_'[d] + 1 \in 1 .. n - 1
    BY <1>6
  <1>6c. \A d \in Registered \ {c} : pollfds_'[index_'[d] + 1] = Entry(d)
    BY <1>6
  <1>6d. \A d \in Registered \ {c} : index_[d] = 0 => index_'[d] = 0
    BY <1>6
  <1>6e. \A j \in 1 .. n - 1 : \E d \in Registered' : index_'[d] = j - 1
    BY <1>3, <1>6
  <1>7. Types'
    BY <1>1, <1>2, <1>6 DEF IInv, Types
  <1>8. MapConsistent'
    BY <1>1, <1>2 DEF IInv, Types, MapConsistent, Fd
  <1>9. \A d \in Registered' : Entry(d)' = Entry(d)
    BY <1>3, <1>6c DEF Entry
  <1>10. IndexConsistent'
    <2>1. ASSUME NEW d \in Registered'
          PROVE  /\ index_'[d] + 1 \in DOMAIN pollfds_'
                 /\ Entry(d)'.fd \in {FdOf[d], Ignored(FdOf[d])}
                 /\ Entry(d)'.events = events_'[d]
      BY <1>1, <1>3, <1>6a, <1>6b, <1>9 DEF IInv, IndexConsistent
    <2>2. ASSUME NEW j \in DOMAIN pollfds_'
          PROVE  \E d \in Registered' : index_'[d] = j - 1
      BY <1>6a, <1>6e
    <2> QED BY <2>1, <2>2 DEF IndexConsistent
  <1>11. OutsideConsistent'
    BY <1>1, <1>3, <1>6 DEF IInv, OutsideConsistent
  <1>12. NoneEventIgnored'
    BY <1>1, <1>3, <1>9 DEF IInv, NoneEventIgnored, isNoneEvent
  <1>13. ActiveOnlyInHandle' /\ ActiveRegistered'
    BY <1>1 DEF IInv, ActiveOnlyInHandle, ActiveRegistered
  <1>14. CountConsistent'
    <2>1. Mapped' = Mapped \ {FdOf[c]} /\ FdOf[c] \in Mapped
      BY <1>1, <1>2 DEF IInv, Types, Mapped
    <2>2. IsFiniteSet(Mapped') /\ Cardinality(Mapped') = Cardinality(Mapped) - 1
      BY <2>1, FS_RemoveElement DEF IInv, CountConsistent
    <2> QED BY <1>6, <2>2 DEF IInv, CountConsistent
  <1> QED BY <1>2, <1>3, <1>7, <1>8, <1>10, <1>11, <1>12, <1>13, <1>14, <1>6d DEF IInv

-----------------------------------------------------------------------------
(* The invariant holds initially and is kept by every step.                 *)
LEMMA InitInv == Init => IInv
  <1> SUFFICES ASSUME Init PROVE IInv
    OBVIOUS
  <1>1. /\ Types /\ ActiveOnlyInHandle /\ ActiveRegistered
    BY FdAssumption DEF Init, Types, Fd, kNoneEvent, ActiveOnlyInHandle, ActiveRegistered
  <1>2. Registered = {}
    BY NoChannelAssumption DEF Init, Registered, Fd
  <1>3. MapConsistent /\ IndexConsistent /\ OutsideConsistent /\ NoneEventIgnored
    BY <1>2 DEF Init, MapConsistent, IndexConsistent, OutsideConsistent, NoneEventIgnored
  <1>4. CountConsistent
    <2>1. Mapped = {}
      BY DEF Init, Mapped
    <2> QED BY <2>1, FS_EmptySet DEF Init, CountConsistent
  <1> QED BY <1>1, <1>3, <1>4 DEF IInv

(* Updates, in one lemma: which channels stay registered, and where.        *)
LEMMA UpdatePreserves ==
    ASSUME IInv, NEW c \in Channel \ removed, NEW ev \in SUBSET Event,
           index_[c] < 0 => ev # kNoneEvent, updateChannel(c, ev),
           UNCHANGED <<activeChannels_, phase, removed>>
    PROVE  /\ IInv'
           /\ \A d \in Registered : d \in Registered' /\ index_'[d] = index_[d]
  <1>1. index_[c] \in Int
    BY DEF IInv, Types
  <1>2. CASE index_[c] < 0
    <2>1. IInv'
      BY <1>2, AddPreserves
    <2>2. /\ channels_[FdOf[c]] = NoChannel
          /\ index_' = [index_ EXCEPT ![c] = Len(pollfds_)]
          /\ channels_' = [channels_ EXCEPT ![FdOf[c]] = c]
      BY <1>2 DEF updateChannel, UpdateAsserts, AddPollFd
    <2>3. ASSUME NEW d \in Registered
          PROVE  d \in Registered' /\ index_'[d] = index_[d]
      <3>1. d \in Channel /\ channels_[FdOf[d]] = d /\ d # c /\ FdOf[d] # FdOf[c]
        BY <2>2, NoChannelAssumption, FdAssumption DEF Registered
      <3>2. channels_'[FdOf[d]] = d
        BY <2>2, <3>1 DEF IInv, Types, Fd
      <3>3. index_'[d] = index_[d]
        BY <2>2, <3>1 DEF IInv, Types
      <3> QED BY <3>1, <3>2, <3>3 DEF Registered
    <2> QED BY <2>1, <2>3
  <1>3. CASE index_[c] >= 0
    <2>1. IInv'
      BY <1>3, ChangePreserves
    <2>2. index_' = index_ /\ channels_' = channels_
      BY <1>1, <1>3 DEF updateChannel, ChangePollFd
    <2> QED BY <2>1, <2>2 DEF Registered
  <1> QED BY <1>1, <1>2, <1>3

(* What a step does to the channels that are not removed by it.             *)
LEMMA StepPreserves ==
    ASSUME IInv, [Next]_vars
    PROVE  /\ IInv'
           /\ \A d \in Registered : d \notin removed' =>
                 /\ d \in Registered'
                 /\ index_[d] = 0 => index_'[d] = 0
  <1> DEFINE Goal == /\ IInv'
                     /\ \A d \in Registered : d \notin removed' =>
                           /\ d \in Registered'
                           /\ index_[d] = 0 => index_'[d] = 0
  <1>1. ASSUME NEW c \in Channel, enableReading(c) PROVE Goal
    <2>1. /\ c \in Channel \ removed /\ events_[c] \cup {"IN"} \in SUBSET Event
          /\ events_[c] \cup {"IN"} # kNoneEvent
          /\ updateChannel(c, events_[c] \cup {"IN"})
          /\ UNCHANGED <<activeChannels_, phase, removed>>
      BY <1>1 DEF enableReading, IInv, Types, Event, kNoneEvent
    <2> QED BY <2>1, UpdatePreserves
  <1>2. ASSUME NEW c \in Channel, NEW ev \in SUBSET Event, InUse(c), updateChannel(c, ev),
               UNCHANGED <<activeChannels_, phase, removed>>
        PROVE Goal
    <2>1. c \in Channel \ removed /\ ~(index_[c] < 0)
      BY <1>2 DEF InUse, IInv, Types
    <2> QED BY <1>2, <2>1, UpdatePreserves
  <1>3. ASSUME NEW c \in Channel, enableWriting(c) PROVE Goal
    <2>1. events_[c] \cup {"OUT"} \in SUBSET Event
      BY DEF IInv, Types, Event
    <2> QED BY <1>2, <1>3, <2>1 DEF enableWriting
  <1>4. ASSUME NEW c \in Channel, disableWriting(c) PROVE Goal
    <2>1. events_[c] \ {"OUT"} \in SUBSET Event
      BY DEF IInv, Types
    <2> QED BY <1>2, <1>4, <2>1 DEF disableWriting
  <1>5. ASSUME NEW c \in Channel, disableAll(c) PROVE Goal
    <2>1. kNoneEvent \in SUBSET Event
      BY DEF kNoneEvent
    <2> QED BY <1>2, <1>5, <2>1 DEF disableAll
  <1>6. ASSUME NEW c \in Channel, removeChannel(c) PROVE Goal
    <2>1. removed' = removed \cup {c}
      BY <1>6 DEF removeChannel
    <2> QED BY <1>6, <2>1, RemovePreserves
  <1>7. ASSUME UNCHANGED <<pollfds_, channels_, index_, events_, removed>>,
               Types', ActiveOnlyInHandle', ActiveRegistered'
        PROVE Goal
    <2>1. Registered' = Registered /\ Mapped' = Mapped /\ removed' = removed /\ index_' = index_
      BY <1>7 DEF Registered, Mapped
    <2>2. /\ MapConsistent' /\ IndexConsistent' /\ OutsideConsistent'
          /\ NoneEventIgnored' /\ CountConsistent'
      BY <1>7, <2>1 DEF IInv, MapConsistent, IndexConsistent, OutsideConsistent,
                        NoneEventIgnored, CountConsistent, Entry, isNoneEvent
    <2> QED BY <1>7, <2>1, <2>2 DEF IInv
  <1>8. ASSUME poll PROVE Goal
    <2>0. PICK k \in 0 .. Len(pollfds_) : \E pos \in [1 .. k -> 1 .. Len(pollfds_)] :
             /\ \A j \in 1 .. k : FillAsserts(pos[j])
             /\ activeChannels_' = [j \in 1 .. k |-> channels_[pollfds_[pos[j]].fd]]
      BY <1>8 DEF poll
    <2>1. PICK pos \in [1 .. k -> 1 .. Len(pollfds_)] :
             /\ \A j \in 1 .. k : FillAsserts(pos[j])
             /\ activeChannels_' = [j \in 1 .. k |-> channels_[pollfds_[pos[j]].fd]]
      BY <2>0
    <2>2. /\ phase' = "handle"
          /\ UNCHANGED <<pollfds_, channels_, index_, events_, removed>>
      BY <1>8 DEF poll
    <2>3. \A j \in 1 .. k : channels_[pollfds_[pos[j]].fd] \in Registered
      BY <2>1 DEF FillAsserts, Registered, IInv, Types
    <2>4. activeChannels_' \in Seq(Channel)
      BY <2>1, <2>3 DEF Registered
    <2>5. Types' /\ ActiveOnlyInHandle'
      BY <2>2, <2>4 DEF IInv, Types, ActiveOnlyInHandle
    <2>6. ActiveRegistered'
      BY <2>1, <2>2, <2>3 DEF ActiveRegistered, Registered
    <2> QED BY <1>7, <2>2, <2>5, <2>6
  <1>9. ASSUME handlerReturns PROVE Goal
    <2>1. /\ activeChannels_ \in Seq(Channel) /\ activeChannels_ # <<>>
          /\ activeChannels_' = Tail(activeChannels_) /\ phase = "handle"
          /\ UNCHANGED <<pollfds_, channels_, index_, events_, phase, removed>>
      BY <1>9 DEF handlerReturns, IInv, Types
    <2>2. /\ activeChannels_' \in Seq(Channel)
          /\ \A i \in DOMAIN activeChannels_' : /\ i + 1 \in DOMAIN activeChannels_
                                               /\ activeChannels_'[i] = activeChannels_[i + 1]
      BY <2>1
    <2>3. Types' /\ ActiveOnlyInHandle'
      BY <2>1, <2>2 DEF IInv, Types, ActiveOnlyInHandle
    <2>4. ActiveRegistered'
      BY <2>1, <2>2 DEF IInv, ActiveRegistered, Registered
    <2> QED BY <1>7, <2>1, <2>3, <2>4
  <1>10. ASSUME doPendingFunctors \/ nextIteration PROVE Goal
    <2>1. /\ activeChannels_ = <<>> /\ phase' \in {"functors", "poll"}
          /\ UNCHANGED <<pollfds_, channels_, index_, events_, activeChannels_, removed>>
      BY <1>10 DEF doPendingFunctors, nextIteration, IInv, ActiveOnlyInHandle
    <2>2. Types' /\ ActiveOnlyInHandle' /\ ActiveRegistered'
      BY <2>1 DEF IInv, Types, ActiveOnlyInHandle, ActiveRegistered
    <2> QED BY <1>7, <2>1, <2>2
  <1>11. ASSUME UNCHANGED vars PROVE Goal
    <2>1. UNCHANGED <<pollfds_, channels_, index_, events_, activeChannels_, phase, removed>>
      BY <1>11 DEF vars
    <2>2. Types' /\ ActiveOnlyInHandle' /\ ActiveRegistered'
      BY <2>1 DEF IInv, Types, ActiveOnlyInHandle, ActiveRegistered, Registered
    <2> QED BY <1>7, <2>1, <2>2
  <1> QED
    BY <1>1, <1>3, <1>4, <1>5, <1>6, <1>8, <1>9, <1>10, <1>11 DEF Next

LEMMA Invariance == Spec => []IInv
  <1>1. IInv /\ [Next]_vars => IInv'
    BY StepPreserves
  <1> QED BY <1>1, InitInv, PTL DEF Spec

-----------------------------------------------------------------------------
(* The theorems.                                                            *)

(* The variables keep their types and the map files every channel under     *)
(* its own descriptor, whatever the channels do.                            *)
THEOREM TypeSafety == Spec => []TypeOK
  <1>1. IInv => TypeOK
    BY DEF IInv, TypeOK
  <1> QED BY <1>1, Invariance, PTL

(* updateChannel and removeChannel keep every index pointing at its own     *)
(* entry, through any sequence of registrations, changes and removals.      *)
THEOREM IndexSafety == Spec => []IndexConsistent
  <1>1. IInv => IndexConsistent
    BY DEF IInv
  <1> QED BY <1>1, Invariance, PTL

(* A channel that asks for nothing is hidden from ::poll.                   *)
THEOREM NoneEventSafety == Spec => []NoneEventIgnored
  <1>1. IInv => NoneEventIgnored
    BY DEF IInv
  <1> QED BY <1>1, Invariance, PTL

(* The pointers collected by fillActiveChannels stay valid while the        *)
(* handlers run.                                                            *)
THEOREM ActiveSafety == Spec => []ActiveRegistered
  <1>1. IInv => ActiveRegistered
    BY DEF IInv
  <1> QED BY <1>1, Invariance, PTL

(* No assert of the poller can abort the program.                           *)
THEOREM AssertSafety == Spec => []AssertsHold
  <1>1. ASSUME IInv PROVE AssertsHold
    <2>1. ASSUME NEW c \in Channel \ removed
          PROVE  /\ UpdateAsserts(c)
                 /\ InUse(c) => RemoveAsserts(c)
      <3>1. FdOf[c] \in Fd /\ index_[c] \in Int
        BY <1>1, <2>1 DEF IInv, Types, Fd
      <3>2. CASE c \in Registered
        <4>1. /\ channels_[FdOf[c]] = c /\ index_[c] + 1 \in DOMAIN pollfds_
              /\ Entry(c).fd \in {FdOf[c], Ignored(FdOf[c])}
          BY <1>1, <3>2 DEF IInv, IndexConsistent, Registered
        <4>2. DOMAIN pollfds_ = 1 .. Len(pollfds_) /\ Cardinality(Mapped) = Len(pollfds_)
          BY <1>1 DEF IInv, Types, CountConsistent
        <4>3. index_[c] \in 0 .. Cardinality(Mapped) - 1 /\ ~(index_[c] < 0)
          BY <3>1, <4>1, <4>2
        <4> QED BY <4>1, <4>3 DEF UpdateAsserts, RemoveAsserts
      <3>3. CASE c \notin Registered
        <4>1. index_[c] = -1
          BY <1>1, <2>1, <3>3 DEF IInv, OutsideConsistent
        <4>2. channels_[FdOf[c]] = NoChannel
          BY <1>1, <2>1, <3>1, <3>3, FdAssumption DEF IInv, Types, MapConsistent, Registered
        <4> QED BY <4>1, <4>2 DEF UpdateAsserts, InUse
      <3> QED BY <3>2, <3>3
    <2>2. ASSUME NEW i \in DOMAIN pollfds_, pollfds_[i].fd >= 0
          PROVE  FillAsserts(i)
      <3>1. PICK c \in Registered : index_[c] = i - 1
        BY <1>1, <2>2 DEF IInv, IndexConsistent
      <3>2. Entry(c) = pollfds_[i] /\ c \in Channel /\ channels_[FdOf[c]] = c
        BY <1>1, <3>1 DEF IInv, Types, Entry, Registered
      <3>3. FdOf[c] \in Nat /\ FdOf[c] \in Fd /\ c # NoChannel
        BY <3>2, FdAssumption, NoChannelAssumption DEF Fd
      <3>4. pollfds_[i].fd \in {FdOf[c], Ignored(FdOf[c])}
        BY <1>1, <3>2 DEF IInv, IndexConsistent
      <3>5. pollfds_[i].fd = FdOf[c]
        BY <2>2, <3>3, <3>4 DEF Ignored
      <3> QED BY <3>2, <3>3, <3>5 DEF FillAsserts
    <2> QED BY <2>1, <2>2 DEF AssertsHold
  <1> QED BY <1>1, Invariance, PTL

(* The channel at the front is the only one whose index is 0.               *)
LEMMA FrontUnique ==
    ASSUME Types, IndexConsistent
    PROVE  /\ pollfds_ # <<>> => ChannelAt(1) \in Registered /\ index_[ChannelAt(1)] = 0
           /\ \A c \in Registered : index_[c] = 0 => pollfds_ # <<>> /\ ChannelAt(1) = c
  <1> DEFINE F(c) == index_[c] = 1 - 1 /\ c \in Registered
  <1>1. ASSUME NEW c \in Registered, index_[c] = 0
        PROVE  c \in Channel /\ F(c) /\ F(ChannelAt(1)) /\ ChannelAt(1) = c
    <2>1. c \in Channel /\ F(c)
      BY <1>1 DEF Registered
    <2>2. F(ChannelAt(1))
      BY <2>1 DEF ChannelAt
    <2>3. ChannelAt(1) = c
      BY <1>1, <2>2, IndexInjective
    <2> QED BY <2>1, <2>2, <2>3
  <1>2. ASSUME pollfds_ # <<>>
        PROVE  \E c \in Registered : index_[c] = 0
    <2>1. 1 \in DOMAIN pollfds_
      BY <1>2 DEF Types
    <2> QED BY <2>1 DEF IndexConsistent
  <1>3. ASSUME NEW c \in Registered, index_[c] = 0
        PROVE  pollfds_ # <<>>
    <2>1. 1 \in DOMAIN pollfds_
      BY <1>3 DEF IndexConsistent
    <2> QED BY <2>1
  <1> QED BY <1>1, <1>2, <1>3

(* The first registered channel, the timerfd's, is polled and handled first *)
(* in every iteration until it is removed.                                  *)
THEOREM FrontSafety == Spec => FrontStays
  <1>1. IInv => Types /\ IndexConsistent
    BY DEF IInv
  <1>2. /\ Types /\ IndexConsistent =>
              \A c \in Registered : index_[c] = 0 => pollfds_ # <<>> /\ ChannelAt(1) = c
    BY FrontUnique
  <1>3. (Types /\ IndexConsistent =>
              \A c \in Registered : index_[c] = 0 => pollfds_ # <<>> /\ ChannelAt(1) = c)'
    BY <1>2, PTL
  <1>4. IInv /\ [Next]_vars =>
          [pollfds_ # <<>> /\ ChannelAt(1) \notin removed'
             => pollfds_' # <<>> /\ ChannelAt(1)' = ChannelAt(1)]_vars
    <2> SUFFICES ASSUME IInv, [Next]_vars, pollfds_ # <<>>, ChannelAt(1) \notin removed'
                 PROVE  pollfds_' # <<>> /\ ChannelAt(1)' = ChannelAt(1)
      OBVIOUS
    <2> DEFINE c == ChannelAt(1)
    <2>1. c \in Registered /\ index_[c] = 0
      BY <1>1, FrontUnique
    <2> HIDE DEF c
    <2>2. IInv' /\ c \in Registered' /\ index_'[c] = 0
      BY <2>1, StepPreserves DEF c
    <2>3. Types' /\ IndexConsistent'
      BY <2>2 DEF IInv
    <2>4. pollfds_' # <<>> /\ ChannelAt(1)' = c
      BY <1>3, <2>2, <2>3
    <2> QED BY <2>4 DEF c
  <1> QED BY <1>4, Invariance, PTL DEF Spec, FrontStays
=============================================================================

-------------------------- MODULE RaftLogMatching --------------------------
(***************************************************************************)
(* Without snapshots any two logs agree up to an entry they share, every   *)
(* log is numbered from 1, and what a leader counts as stored is on the    *)
(* disk of the peer, for any finite set of peers, any number of terms,     *)
(* commands and crashes, and calls that are lost, delayed or repeated.     *)
(***************************************************************************)
EXTENDS RaftElectionSafety

-----------------------------------------------------------------------------
(* What handleAppendEntries makes of a log *)

\* The first k entries of two logs are the same.
Agree(s, c, k) == k <= Len(s) /\ k <= Len(c) /\ \A n \in 1 .. k : s[n] = c[n]

\* The front and the back of a log.
LEMMA Slices ==
  ASSUME NEW s \in Seq(Entry), NEW n \in 0 .. Len(s)
  PROVE  /\ SubSeq(s, 1, n) \in Seq(Entry) /\ Len(SubSeq(s, 1, n)) = n
         /\ \A k \in 1 .. n : SubSeq(s, 1, n)[k] = s[k]
         /\ SubSeq(s, n + 1, Len(s)) \in Seq(Entry) /\ Len(SubSeq(s, n + 1, Len(s))) = Len(s) - n
         /\ \A k \in 1 .. Len(s) - n : SubSeq(s, n + 1, Len(s))[k] = s[n + k]
<1>1. Len(s) \in Nat /\ n \in Nat /\ n <= Len(s)
  BY LenProperties
<1>2. \A k \in 1 .. Len(s) : s[k] \in Entry
  BY Zenon, ElementOfSeq
<1>3. \A k \in 1 .. n : s[k] \in Entry
  BY <1>1, <1>2
<1>4. \A k \in n + 1 .. Len(s) : s[k] \in Entry
  BY <1>1, <1>2
<1>5. /\ SubSeq(s, 1, n) \in Seq(Entry) /\ Len(SubSeq(s, 1, n)) = IF 1 <= n THEN n - 1 + 1 ELSE 0
      /\ \A k \in 1 .. n - 1 + 1 : SubSeq(s, 1, n)[k] = s[1 + k - 1]
  BY <1>1, <1>3, SubSeqProperties
<1>6. /\ SubSeq(s, n + 1, Len(s)) \in Seq(Entry)
      /\ Len(SubSeq(s, n + 1, Len(s))) = IF n + 1 <= Len(s) THEN Len(s) - (n + 1) + 1 ELSE 0
      /\ \A k \in 1 .. Len(s) - (n + 1) + 1 : SubSeq(s, n + 1, Len(s))[k] = s[(n + 1) + k - 1]
  BY <1>1, <1>4, SubSeqProperties
<1>7. QED
  BY <1>1, <1>5, <1>6

\* The first loop: either no entry of the call conflicts with the log, or the log is cut
\* at the first one that does.
LEMMA TruncateCases ==
  ASSUME Background, NEW log \in Seq(Entry), NEW entries \in Seq(Entry), NEW prev \in Nat, prev <= Len(log),
         \A k \in 1 .. Len(entries) : entries[k].Index = prev + k
  PROVE  \/ /\ Truncate(log, 0, entries) = log
            /\ \A k \in 1 .. Len(entries) :
                 prev + k <= Len(log) => log[prev + k].Term = entries[k].Term
         \/ \E cut \in 1 .. Len(entries) :
              /\ prev + cut <= Len(log) /\ log[prev + cut].Term # entries[cut].Term
              /\ Truncate(log, 0, entries) = SubSeq(log, 1, prev + cut - 1)
              /\ \A k \in 1 .. cut - 1 : log[prev + k].Term = entries[k].Term
<1> DEFINE pos(k) == entries[k].Index - 0
           stop == {k \in DOMAIN entries :
                      pos(k) \notin DOMAIN log \/ log[pos(k)].Term # entries[k].Term}
<1>1. DOMAIN log = 1 .. Len(log) /\ Len(log) \in Nat /\ DOMAIN entries = 1 .. Len(entries) /\ Len(entries) \in Nat
  BY Zenon, LenProperties
<1>2. \A k \in 1 .. Len(entries) : pos(k) = prev + k
  OBVIOUS
<1>3. stop = {k \in 1 .. Len(entries) : prev + k > Len(log) \/ log[prev + k].Term # entries[k].Term}
  BY <1>1, <1>2
<1>4. Truncate(log, 0, entries) =
        IF stop = {} \/ pos(Least(stop)) \notin DOMAIN log THEN log
        ELSE SubSeq(log, 1, pos(Least(stop)) - 1)
  BY Zenon DEF Truncate
<1> HIDE DEF stop, pos
<1>5. CASE stop = {}
  BY Zenon, <1>3, <1>4, <1>5
<1>6. CASE stop # {}
  <2>1. Least(stop) \in stop /\ \A k \in stop : Least(stop) <= k
    <3>1. stop \in SUBSET Nat
      BY <1>1, <1>3
    <3>2. QED
      BY Zenon, <1>6, <3>1, LeastInSet
  <2>2. PICK cut \in 1 .. Len(entries) : cut = Least(stop)
    BY Zenon, <1>3, <2>1
  <2>3. \A k \in 1 .. cut - 1 : prev + k <= Len(log) /\ log[prev + k].Term = entries[k].Term
    <3> SUFFICES ASSUME NEW k \in 1 .. cut - 1
                 PROVE  prev + k <= Len(log) /\ log[prev + k].Term = entries[k].Term
      BY Zenon
    <3>1. k \in 1 .. Len(entries) /\ k < cut
      BY <1>1
    <3>2. k \notin stop
      BY <1>1, <2>1, <2>2, <3>1
    <3>3. ~(prev + k > Len(log)) /\ log[prev + k].Term = entries[k].Term
      BY Zenon, <1>3, <3>1, <3>2
    <3>4. QED
      BY <1>1, <3>1, <3>3
  <2>4. pos(Least(stop)) = prev + cut
    BY Zenon, <1>2, <2>2
  <2>5. cut \in Nat /\ cut >= 1 /\ prev + cut \in Nat
    BY <1>1, <2>2
  <2>6. CASE prev + cut > Len(log)
    <3>1. prev + cut \notin DOMAIN log
      BY <1>1, <2>5, <2>6
    <3>2. Truncate(log, 0, entries) = log
      BY Zenon, <1>4, <2>4, <3>1
    <3>3. \A k \in 1 .. Len(entries) : prev + k <= Len(log) => k <= cut - 1
      BY <1>1, <2>5, <2>6
    <3>4. \A k \in 1 .. Len(entries) :
            prev + k <= Len(log) => log[prev + k].Term = entries[k].Term
      BY <2>3, <2>5, <3>3
    <3>5. QED
      BY Zenon, <3>2, <3>4
  <2>7. CASE prev + cut <= Len(log)
    <3>1. log[prev + cut].Term # entries[cut].Term
      BY <1>1, <1>3, <2>1, <2>2, <2>7
    <3>2. prev + cut \in DOMAIN log
      BY <1>1, <2>5, <2>7
    <3>3. Truncate(log, 0, entries) = SubSeq(log, 1, prev + cut - 1)
      BY <1>4, <1>6, <2>4, <3>2
    <3>4. QED
      BY Zenon, <2>3, <2>7, <3>1, <3>3
  <2>8. prev + cut > Len(log) \/ prev + cut <= Len(log)
    BY <1>1, <2>5
  <2>9. QED
    BY Zenon, <2>6, <2>7, <2>8
<1>7. QED
  BY Zenon, <1>5, <1>6

\* The second loop: what lies beyond the end of the log.
LEMMA ExtensionCases ==
  ASSUME Background, NEW log \in Seq(Entry), NEW entries \in Seq(Entry), NEW prev \in Nat, prev <= Len(log),
         \A k \in 1 .. Len(entries) : entries[k].Index = prev + k
  PROVE  \/ Len(log) >= prev + Len(entries) /\ Extension(log, 0, entries) = <<>>
         \/ /\ Len(log) < prev + Len(entries)
            /\ Extension(log, 0, entries) = SubSeq(entries, Len(log) - prev + 1, Len(entries))
<1> DEFINE new == {k \in DOMAIN entries : entries[k].Index > Len(log) + 0}
<1>1. Len(log) \in Nat /\ DOMAIN entries = 1 .. Len(entries) /\ Len(entries) \in Nat
  BY Zenon, LenProperties
<1>2. new = {k \in 1 .. Len(entries) : prev + k > Len(log)}
  BY <1>1
<1>3. Extension(log, 0, entries) = IF new = {} THEN <<>> ELSE SubSeq(entries, Least(new), Len(entries))
  BY Zenon DEF Extension
<1> HIDE DEF new
<1>4. CASE Len(log) >= prev + Len(entries)
  BY <1>1, <1>2, <1>3, <1>4
<1>5. CASE Len(log) < prev + Len(entries)
  <2>1. Len(log) - prev + 1 \in new /\ new \in SUBSET Nat
    BY <1>1, <1>2, <1>5
  <2>2. Least(new) \in new /\ \A k \in new : Least(new) <= k
    BY Zenon, <2>1, LeastInSet
  <2>3. Least(new) = Len(log) - prev + 1
    BY <1>1, <1>2, <2>1, <2>2
  <2>4. QED
    BY Zenon, <1>3, <1>5, <2>1, <2>3
<1>6. QED
  BY <1>1, <1>4, <1>5

\* new is log after a peer has taken entries of the log c: it still agrees with c as far as
\* it did, and beyond the old log it only holds what c holds.
Spliced(log, c, new) ==
  /\ new \in Seq(Entry)
  /\ \A k \in Nat : Agree(log, c, k) => Agree(new, c, k)
  /\ new = log \/ Agree(new, c, Len(new))

\* Taking entries of c, to the end or, with a crash, only the first n of them: when equal
\* terms mean equal logs so far, no entry that agrees with c is lost.
LEMMA AcceptedLog ==
  ASSUME Background, NEW log \in Seq(Entry), NEW c \in Seq(Entry), NEW entries \in Seq(Entry),
         NEW prev \in Nat, prev <= Len(log), prev + Len(entries) <= Len(c),
         \A k \in 1 .. Len(entries) : entries[k] = c[prev + k],
         \A k \in 1 .. Len(c) : c[k].Index = k,
         Agree(log, c, prev),
         \A k \in 1 .. Len(log) : k <= Len(c) /\ log[k].Term = c[k].Term => Agree(log, c, k),
         NEW n \in 0 .. Len(Extension(Truncate(log, 0, entries), 0, entries))
  PROVE  LET kept == Truncate(log, 0, entries)
             ext  == Extension(kept, 0, entries)
             new  == kept \o SubSeq(ext, 1, n)
         IN /\ Spliced(log, c, kept) /\ Spliced(log, c, new)
            /\ n = Len(ext) => new = kept \o ext /\ Agree(new, c, prev + Len(entries))
<1> DEFINE kept == Truncate(log, 0, entries)
           ext  == Extension(kept, 0, entries)
           new  == kept \o SubSeq(ext, 1, n)
<1>1. Len(log) \in Nat /\ Len(c) \in Nat /\ Len(entries) \in Nat
  BY Zenon, LenProperties
<1>2. \A k \in 1 .. Len(entries) : entries[k].Index = prev + k
  BY <1>1
<1>3. kept \in Seq(Entry) /\ Len(kept) \in Nat
  BY Zenon, TruncateIsSeq, LenProperties
<1>4. /\ prev <= Len(kept)
      /\ \A k \in Nat : Agree(log, c, k) => Agree(kept, c, k)
      /\ kept = log \/ Agree(kept, c, Len(kept))
      /\ \A k \in Nat : prev <= k /\ k <= prev + Len(entries) /\ k <= Len(kept) => Agree(kept, c, k)
  <2>1. CASE /\ kept = log
             /\ \A k \in 1 .. Len(entries) :
                  prev + k <= Len(log) => log[prev + k].Term = entries[k].Term
    <3> SUFFICES ASSUME NEW k \in Nat, prev <= k, k <= prev + Len(entries), k <= Len(log)
                 PROVE  Agree(log, c, k)
      BY Zenon, <2>1
    <3>1. CASE k = prev
      BY Zenon, <3>1
    <3>2. CASE k # prev
      <4>1. k - prev \in 1 .. Len(entries) /\ prev + (k - prev) = k /\ k \in 1 .. Len(log) /\ k <= Len(c)
        BY <1>1, <3>2
      <4>2. log[k].Term = entries[k - prev].Term /\ entries[k - prev] = c[k]
        BY Zenon, <2>1, <4>1
      <4>3. QED
        BY Zenon, <4>1, <4>2
    <3>3. QED
      BY Zenon, <3>1, <3>2
  <2>2. ASSUME NEW cut \in 1 .. Len(entries),
               prev + cut <= Len(log), log[prev + cut].Term # entries[cut].Term,
               kept = SubSeq(log, 1, prev + cut - 1),
               \A k \in 1 .. cut - 1 : log[prev + k].Term = entries[k].Term
        PROVE  <1>4!1 /\ <1>4!2 /\ <1>4!3 /\ <1>4!4
    <3> DEFINE l == prev + cut - 1
    <3>1. cut \in Nat /\ cut >= 1 /\ l \in 0 .. Len(log) /\ l \in Nat /\ l <= Len(c) /\ prev <= l
      BY <1>1, <2>2
    <3>2. Len(kept) = l /\ \A k \in 1 .. l : kept[k] = log[k]
      <4>1. Len(SubSeq(log, 1, l)) = l /\ \A k \in 1 .. l : SubSeq(log, 1, l)[k] = log[k]
        BY Zenon, <3>1, Slices
      <4>2. kept = SubSeq(log, 1, l)
        BY Zenon, <2>2
      <4>3. QED
        BY Zenon, <4>1, <4>2
    <3>3. Agree(log, c, l)
      <4>1. CASE cut = 1
        BY <1>1, <4>1
      <4>2. CASE cut # 1
        <5>1. cut - 1 \in 1 .. Len(entries) /\ cut - 1 \in 1 .. cut - 1 /\ prev + (cut - 1) = l /\ l \in 1 .. Len(log)
          BY <1>1, <3>1, <4>2
        <5>2. log[l].Term = entries[cut - 1].Term /\ entries[cut - 1] = c[l]
          BY Zenon, <2>2, <5>1
        <5>3. QED
          BY Zenon, <3>1, <5>1, <5>2
      <4>3. QED
        BY Zenon, <4>1, <4>2
    <3>4. Agree(kept, c, l)
      BY <3>1, <3>2, <3>3 DEF Agree
    <3>5. ASSUME NEW k \in Nat, Agree(log, c, k) PROVE k <= l
      <4>1. log[prev + cut] # c[prev + cut]
        BY Zenon, <2>2
      <4>2. ~(prev + cut \in 1 .. k)
        BY Zenon, <3>5, <4>1 DEF Agree
      <4>3. QED
        BY <3>1, <4>2
    <3>6. \A k \in Nat : k <= l => Agree(kept, c, k)
      BY <1>1, <3>1, <3>2, <3>4 DEF Agree
    <3>7. QED
      BY Zenon, <3>1, <3>2, <3>4, <3>5, <3>6
  <2>3. QED
    BY Zenon, <1>2, <2>1, <2>2, TruncateCases
<1>5. ext \in Seq(Entry) /\ Len(ext) \in Nat
  BY Zenon, ExtensionIsSeq, LenProperties
<1>6. Spliced(log, c, kept)
  BY Zenon, <1>3, <1>4 DEF Spliced
<1>7. CASE Len(kept) >= prev + Len(entries) /\ ext = <<>>
  <2>1. n = 0 /\ Len(ext) = 0 /\ SubSeq(ext, 1, n) = ext
    <3>1. Len(ext) = 0
      BY Zenon, <1>7, EmptySeq
    <3>2. n \in 0 .. 0
      BY Zenon, <3>1
    <3>3. n = 0
      BY <3>2
    <3>4. SubSeq(ext, 1, 0) = <<>>
      BY SubSeqEmpty
    <3>5. QED
      BY Zenon, <1>7, <3>1, <3>3, <3>4
  <2>2. new = kept /\ kept \o ext = kept
    BY <1>3, <1>7, <2>1, ConcatEmptySeq
  <2>3. Agree(kept, c, prev + Len(entries))
    BY <1>1, <1>4, <1>7
  <2>4. QED
    BY Zenon, <1>6, <2>2, <2>3
<1>8. CASE Len(kept) < prev + Len(entries) /\ ext = SubSeq(entries, Len(kept) - prev + 1, Len(entries))
  <2> DEFINE l == Len(kept)
             got == SubSeq(ext, 1, n)
  <2>1. l - prev \in 0 .. Len(entries) /\ l \in Nat /\ l < Len(c)
    BY <1>1, <1>3, <1>4, <1>8
  <2>2. Len(ext) = Len(entries) - (l - prev) /\ \A k \in 1 .. Len(ext) : ext[k] = entries[(l - prev) + k]
    <3> DEFINE d == l - prev
    <3>1. d \in 0 .. Len(entries)
      BY Zenon, <2>1
    <3> HIDE DEF d
    <3>2. /\ Len(SubSeq(entries, d + 1, Len(entries))) = Len(entries) - d
          /\ \A k \in 1 .. Len(entries) - d : SubSeq(entries, d + 1, Len(entries))[k] = entries[d + k]
      BY Zenon, <3>1, Slices
    <3>3. ext = SubSeq(entries, d + 1, Len(entries))
      BY Zenon, <1>8 DEF d
    <3>4. Len(ext) = Len(entries) - d /\ \A k \in 1 .. Len(ext) : ext[k] = entries[d + k]
      BY Zenon, <3>2, <3>3
    <3>5. QED
      BY Zenon, <3>4 DEF d
  <2>3. \A k \in 1 .. Len(ext) : ext[k] = c[l + k]
    BY SMTT(30), <1>1, <2>1, <2>2
  <2>4. got \in Seq(Entry) /\ Len(got) = n /\ \A k \in 1 .. n : got[k] = ext[k]
    BY Zenon, <1>5, Slices
  <2>5. /\ new \in Seq(Entry) /\ Len(new) = l + n
        /\ \A k \in 1 .. l + n : new[k] = IF k <= l THEN kept[k] ELSE got[k - l]
    BY <1>3, <2>4, ConcatProperties
  <2>6. Agree(kept, c, l)
    BY <1>1, <1>4, <1>8, <2>1
  <2>7. Agree(new, c, l + n)
    <3>1. l + n \in Nat /\ l + n <= Len(c) /\ n \in Nat /\ n <= Len(ext)
      BY <1>1, <1>5, <2>1, <2>2
    <3>2. ASSUME NEW k \in 1 .. l + n PROVE new[k] = c[k]
      <4>1. CASE k <= l
        BY <2>1, <2>5, <2>6, <4>1 DEF Agree
      <4>2. CASE ~(k <= l)
        <5>1. k - l \in 1 .. n /\ k - l \in 1 .. Len(ext) /\ l + (k - l) = k
          BY <2>1, <3>1, <4>2
        <5>2. new[k] = got[k - l] /\ got[k - l] = ext[k - l] /\ ext[k - l] = c[k]
          BY Zenon, <2>3, <2>4, <2>5, <4>2, <5>1
        <5>3. QED
          BY Zenon, <5>2
      <4>3. QED
        BY Zenon, <4>1, <4>2
    <3>3. QED
      BY <2>5, <3>1, <3>2 DEF Agree
  <2>8. \A k \in Nat : Agree(log, c, k) => Agree(new, c, k)
    <3>1. \A k \in Nat : Agree(kept, c, k) => k <= l
      BY Zenon DEF Agree
    <3>2. \A k \in Nat : k <= l => Agree(new, c, k)
      BY <1>5, <2>1, <2>5, <2>7 DEF Agree
    <3>3. QED
      BY Zenon, <1>4, <3>1, <3>2
  <2>9. Spliced(log, c, new)
    BY Zenon, <2>5, <2>7, <2>8 DEF Spliced
  <2>10. n = Len(ext) => new = kept \o ext /\ Agree(new, c, prev + Len(entries))
    BY SMTT(30), <1>1, <1>5, <2>1, <2>2, <2>7, SubSeqFull
  <2>11. QED
    BY Zenon, <1>6, <2>9, <2>10
<1>9. QED
  <2>1. \/ Len(kept) >= prev + Len(entries) /\ ext = <<>>
        \/ Len(kept) < prev + Len(entries) /\ ext = SubSeq(entries, Len(kept) - prev + 1, Len(entries))
    BY Zenon, <1>2, <1>3, <1>4, ExtensionCases
  <2>2. QED
    BY Zenon, <1>7, <1>8, <2>1

-----------------------------------------------------------------------------
(* A service that takes no snapshots *)

\* With SnapShotInterval 0 no peer ever holds a snapshot, and the stored log is always the
\* one in memory: every handler that changes the log calls persist before it answers.
NoSnapshots ==
  /\ \A i \in Server :
       /\ snapshot[i] = <<>> /\ snapshotIndex[i] = 0 /\ snapshotTerm[i] <= 0 /\ snapshotReqs[i] = {}
       /\ persister[i].Logs = logs[i] /\ persister[i].Snapshot = <<>>
       /\ persister[i].SnapshotIndex = 0 /\ persister[i].SnapshotTerm <= 0
  /\ \A m \in isArgs : m.Data = <<>>

\* persist stores no snapshot where there is none.
LEMMA PlainPersisted ==
  ASSUME NEW i, NEW t, NEW v, NEW log, snapshot[i] = <<>>
  PROVE  Persisted(i, t, v, log) = [CurrentTerm |-> t, VotedFor |-> v, Logs |-> log, SnapshotIndex |-> 0,
                                    SnapshotTerm |-> 0, Snapshot |-> <<>>]
BY Zenon DEF Persisted

\* No step of a peer or its service brings a snapshot in.
LEMMA NextNoSnapshots ==
  ASSUME SnapShotInterval = 0, TypeOK, NoSnapshots, [Next]_vars
  PROVE  NoSnapshots'
\* A peer keeps its log and what it stored, or stores the log it has then.
<1>SaveStep.
  ASSUME NoSnapshots, UNCHANGED <<snapshotVars, snapshotReqs, isArgs>>, NEW i \in Server,
         \A j \in Server \ {i} : logs'[j] = logs[j] /\ persister'[j] = persister[j],
         \/ logs'[i] = logs[i] /\ persister'[i] = persister[i]
         \/ \E t, v : persister'[i] = Persisted(i, t, v, logs'[i])
  PROVE  NoSnapshots'
  <2> USE <1>SaveStep
  <2>1. UNCHANGED <<snapshot, snapshotIndex, snapshotTerm, snapshotReqs, isArgs>>
    BY Zenon DEF snapshotVars
  <2>2. ASSUME NEW t, NEW v, persister'[i] = Persisted(i, t, v, logs'[i])
        PROVE  /\ persister'[i].Logs = logs'[i] /\ persister'[i].Snapshot = <<>>
               /\ persister'[i].SnapshotIndex = 0 /\ persister'[i].SnapshotTerm <= 0
    <3>1. snapshot[i] = <<>>
      BY Zenon DEF NoSnapshots
    <3>2. QED
      BY <2>2, <3>1, PlainPersisted
  <2>3. ASSUME NEW j \in Server
        PROVE  /\ persister'[j].Logs = logs'[j] /\ persister'[j].Snapshot = <<>>
               /\ persister'[j].SnapshotIndex = 0 /\ persister'[j].SnapshotTerm <= 0
    BY <2>2 DEF NoSnapshots
  <2>4. QED
    BY Zenon, <2>1, <2>3 DEF NoSnapshots
\* A peer starts again from a store without a snapshot.
<1>BootSave.
  ASSUME TypeOK, NoSnapshots, NEW i \in Server, NEW d, Boot(i, d), d.Snapshot = <<>>,
         d.SnapshotIndex = 0, d.SnapshotTerm <= 0
  PROVE  NoSnapshots'
  <2> USE <1>BootSave
  <2>1. /\ persister' = [persister EXCEPT ![i] = d] /\ logs' = [logs EXCEPT ![i] = d.Logs]
        /\ snapshot' = [snapshot EXCEPT ![i] = d.Snapshot]
        /\ snapshotIndex' = [snapshotIndex EXCEPT ![i] = d.SnapshotIndex]
        /\ snapshotTerm' = [snapshotTerm EXCEPT ![i] = d.SnapshotTerm]
        /\ snapshotReqs' = [snapshotReqs EXCEPT ![i] = {}] /\ isArgs' = isArgs
    BY Zenon DEF Boot, installNet
  <2>2. /\ DOMAIN persister = Server /\ DOMAIN logs = Server /\ DOMAIN snapshot = Server
        /\ DOMAIN snapshotIndex = Server /\ DOMAIN snapshotTerm = Server /\ DOMAIN snapshotReqs = Server
    BY Zenon DEF TypeOK
  <2>3. ASSUME NEW j \in Server, j # i
        PROVE  /\ persister'[j] = persister[j] /\ logs'[j] = logs[j] /\ snapshot'[j] = snapshot[j]
               /\ snapshotIndex'[j] = snapshotIndex[j] /\ snapshotTerm'[j] = snapshotTerm[j]
               /\ snapshotReqs'[j] = snapshotReqs[j]
    BY Zenon, <2>1, <2>2, <2>3
  <2>4. /\ persister'[i] = d /\ logs'[i] = d.Logs /\ snapshot'[i] = <<>>
        /\ snapshotIndex'[i] = 0 /\ snapshotTerm'[i] = d.SnapshotTerm /\ snapshotReqs'[i] = {}
    BY Zenon, <2>1, <2>2
  <2>5. QED
    BY <2>1, <2>3, <2>4 DEF NoSnapshots
\* The three ways to crash keep what the peer has stored; a crash in the middle of
\* handleAppendEntries leaves a part of the new log.
<1>CrashSave.
  ASSUME TypeOK, NoSnapshots, NEW i \in Server,
         \/ Restart(i)
         \/ \E m \in rvArgs \cup aeArgs \cup isArgs : CrashAfterTerm(i, m)
         \/ \E m \in aeArgs : \E n \in 0 .. Len(m.Entries) : CrashInAppend(i, m, n)
  PROVE  NoSnapshots'
  <2> USE <1>CrashSave
  <2>1. snapshot[i] = <<>> /\ persister[i].Snapshot = <<>> /\ persister[i].SnapshotIndex = 0
        /\ persister[i].SnapshotTerm <= 0
    BY Zenon DEF NoSnapshots
  <2>2. CASE Restart(i)
    BY Zenon, <2>1, <2>2, <1>BootSave DEF Restart
  <2>3. ASSUME NEW t, NEW v, NEW log, Boot(i, Persisted(i, t, v, log)) PROVE NoSnapshots'
    <3>1. /\ Persisted(i, t, v, log).Snapshot = <<>> /\ Persisted(i, t, v, log).SnapshotIndex = 0
          /\ Persisted(i, t, v, log).SnapshotTerm = 0
      BY <2>1, PlainPersisted
    <3>2. QED
      BY <2>3, <3>1, <1>BootSave
  <2>4. ASSUME NEW m, CrashAfterTerm(i, m) PROVE NoSnapshots'
    BY Zenon, <2>3, <2>4 DEF CrashAfterTerm
  <2>5. ASSUME NEW m, NEW n, CrashInAppend(i, m, n) PROVE NoSnapshots'
    BY Zenon, <2>3, <2>5 DEF CrashInAppend
  <2>6. QED
    BY Zenon, <2>2, <2>4, <2>5
\* Handlers that leave the log and the store alone.
<1>IdleSave.
  ASSUME NoSnapshots, NEW i \in Server,
         \/ sendHeartBeat(i) \/ broadcastAppendEntries(i)
         \/ \E m : \/ DeclineVote(i, m) \/ CountVote(i, m) \/ RefuseStaleAppend(i, m)
                  \/ AppendSucceeded(i, m) \/ RefuseInstall(i, m)
  PROVE  NoSnapshots'
  <2> USE <1>IdleSave
  <2>1. UNCHANGED <<logs, persister>>
    BY Zenon DEF sendHeartBeat, broadcastAppendEntries, DeclineVote, CountVote, RefuseStaleAppend,
           AppendSucceeded, RefuseInstall, logVars
  <2>2. UNCHANGED <<snapshotVars, snapshotReqs, isArgs>>
    BY Zenon DEF sendHeartBeat, broadcastAppendEntries, DeclineVote, CountVote, RefuseStaleAppend,
           AppendSucceeded, RefuseInstall, serviceVars, installNet
  <2>3. QED
    BY Zenon, <2>1, <2>2, <1>SaveStep
\* Handlers that store the log they leave behind.
<1>PersistSave.
  ASSUME TypeOK, NoSnapshots, NEW i \in Server,
         \/ startElection(i) \/ \E c \in Command : handleCommand(i, c)
         \/ \E m : \/ \E vote : CastVote(i, m, vote)
                  \/ VoteOfHigherTerm(i, m) \/ AppendReplyOfHigherTerm(i, m) \/ InstallReplyOfHigherTerm(i, m)
                  \/ RejectAppend(i, m) \/ AcceptAppend(i, m),
         UNCHANGED isArgs
  PROVE  NoSnapshots'
  <2> USE <1>PersistSave
  <2>1. UNCHANGED <<snapshotVars, snapshotReqs>>
    BY Zenon DEF startElection, handleCommand, CastVote, VoteOfHigherTerm, AppendReplyOfHigherTerm,
           InstallReplyOfHigherTerm, RejectAppend, AcceptAppend, serviceVars
  <2>2. DOMAIN logs = Server /\ DOMAIN persister = Server
    BY Zenon DEF TypeOK
  <2>3. ASSUME NEW t, NEW v, NEW log, logs' = [logs EXCEPT ![i] = log] \/ (logs' = logs /\ log = logs[i]),
               persister' = [persister EXCEPT ![i] = Persisted(i, t, v, log)]
        PROVE  NoSnapshots'
    <3>1. logs'[i] = log /\ persister'[i] = Persisted(i, t, v, log)
      BY Zenon, <2>2, <2>3
    <3>2. \A j \in Server \ {i} : logs'[j] = logs[j] /\ persister'[j] = persister[j]
      BY Zenon, <2>2, <2>3
    <3>3. QED
      BY Zenon, <2>1, <3>1, <3>2, <1>SaveStep
  <2>4. CASE startElection(i)
    BY Zenon, <2>3, <2>4 DEF startElection, logVars
  <2>5. ASSUME NEW c \in Command, handleCommand(i, c) PROVE NoSnapshots'
    BY Zenon, <2>3, <2>5 DEF handleCommand
  <2>6. ASSUME NEW m, NEW vote, CastVote(i, m, vote) PROVE NoSnapshots'
    BY Zenon, <2>3, <2>6 DEF CastVote, logVars
  <2>7. ASSUME NEW m, VoteOfHigherTerm(i, m) \/ AppendReplyOfHigherTerm(i, m) \/ InstallReplyOfHigherTerm(i, m)
        PROVE  NoSnapshots'
    BY ZenonT(30), <2>3, <2>7 DEF VoteOfHigherTerm, AppendReplyOfHigherTerm, InstallReplyOfHigherTerm,
           handleHigherTermFound, logVars
  <2>8. ASSUME UNCHANGED <<logs, persister>> PROVE NoSnapshots'
    BY Zenon, <2>1, <2>8, <1>SaveStep
  <2>9. ASSUME NEW m, RejectAppend(i, m) PROVE NoSnapshots'
    BY Zenon, <2>3, <2>8, <2>9 DEF RejectAppend, logVars
  <2>10. ASSUME NEW m, AcceptAppend(i, m) PROVE NoSnapshots'
    <3> DEFINE kept == Truncate(logs[i], snapshotIndex[i], m.Entries)
               new  == kept \o Extension(kept, snapshotIndex[i], m.Entries)
    <3>1. /\ logs' = [logs EXCEPT ![i] = new]
          /\ \/ persister' = [persister EXCEPT ![i] = Persisted(i, m.Term, VoteAfter(i, m.Term), new)]
             \/ new = logs[i] /\ persister' = persister
      BY Zenon, <2>10 DEF AcceptAppend
    <3> HIDE DEF kept, new
    <3>2. new = logs[i] => logs' = logs
      <4>1. logs \in [Server -> Seq(Entry)]
        BY Zenon DEF TypeOK
      <4>2. QED
        BY Zenon, <3>1, <4>1
    <3>3. QED
      BY Zenon, <2>3, <2>8, <3>1, <3>2
  <2>11. QED
    BY Zenon, <2>4, <2>5, <2>6, <2>7, <2>9, <2>10
\* A rejection may make the leader send its snapshot, which is nil; the handler of a nil
\* snapshot returns early.
<1>NilSnapshotSteps.
  ASSUME TypeOK, NoSnapshots, NEW i \in Server,
         (\E m : AppendFailed(i, m)) \/ \E m \in isArgs : ReceiveNilSnapshot(i, m) \/ InstallSnapshot(i, m)
  PROVE  NoSnapshots'
  <2> USE <1>NilSnapshotSteps
  <2>1. \A m \in isArgs : ~InstallSnapshot(i, m)
    BY Zenon DEF NoSnapshots, InstallSnapshot
  <2>2. ASSUME NEW m, AppendFailed(i, m) PROVE NoSnapshots'
    <3>1. UNCHANGED <<logs, persister, snapshot, snapshotIndex, snapshotTerm, snapshotReqs>>
      BY Zenon, <2>2 DEF AppendFailed, logVars, snapshotVars, serviceVars
    <3>2. \A n \in isArgs' : n \in isArgs \/ n.Data = snapshot[i]
      BY <2>2 DEF AppendFailed
    <3>3. QED
      BY Zenon, <3>1, <3>2 DEF NoSnapshots
  <2>3. ASSUME NEW m \in isArgs, ReceiveNilSnapshot(i, m) PROVE NoSnapshots'
    <3> DEFINE d == [CurrentTerm |-> m.Term, VotedFor |-> VoteAfter(i, m.Term), Logs |-> logs[i],
                     SnapshotIndex |-> 0, SnapshotTerm |-> 0, Snapshot |-> m.Data]
    <3>1. /\ UNCHANGED <<logs, snapshotIndex, snapshotTerm, snapshotReqs, isArgs>>
          /\ snapshot' = [snapshot EXCEPT ![i] = m.Data] /\ persister' = [persister EXCEPT ![i] = d]
          /\ m.Data = <<>>
      BY Zenon, <2>3 DEF ReceiveNilSnapshot, SaveReceived
    <3>2. DOMAIN snapshot = Server /\ DOMAIN persister = Server
      BY Zenon DEF TypeOK
    <3>3. /\ d.Logs = logs[i] /\ d.SnapshotIndex = 0 /\ d.SnapshotTerm = 0 /\ d.Snapshot = <<>>
      BY Zenon, <3>1
    <3> HIDE DEF d
    <3>4. /\ snapshot'[i] = <<>> /\ persister'[i] = d
          /\ \A j \in Server \ {i} : snapshot'[j] = snapshot[j] /\ persister'[j] = persister[j]
      BY Zenon, <3>1, <3>2
    <3>5. QED
      BY <3>1, <3>3, <3>4 DEF NoSnapshots
  <2>4. QED
    BY Zenon, <2>1, <2>2, <2>3
\* The service asks for no snapshot.
<1>ApplySave.
  ASSUME SnapShotInterval = 0, TypeOK, NoSnapshots, NEW i \in Server, applyToClient(i)
  PROVE  NoSnapshots'
  <2> USE <1>ApplySave
  <2>1. \A n : ~TakesSnapshot(n)
    BY DEF TakesSnapshot
  <2>2. snapshotReqs' = snapshotReqs
    <3> DEFINE sent  == Applicable(i)
               msgs  == [k \in 1 .. Len(sent) |-> [Index |-> sent[k].Index, Command |-> sent[k].Command]]
               taken == service[i] \o msgs
               due   == {n \in Len(service[i]) + 1 .. Len(taken) : TakesSnapshot(taken[n].Index)}
               reqs  == {[index |-> taken[k].Index, snapshot |-> SubSeq(taken, 1, k)] : k \in due}
    <3>1. snapshotReqs' = [snapshotReqs EXCEPT ![i] = @ \cup reqs]
      BY Zenon DEF applyToClient
    <3>2. due = {}
      BY Zenon, <2>1
    <3>3. reqs = {}
      BY Zenon, <3>2
    <3> HIDE DEF reqs
    <3>4. QED
      BY Zenon, <3>1, <3>3 DEF TypeOK
  <2>3. UNCHANGED <<logs, persister, snapshotVars, isArgs>>
    BY Zenon DEF applyToClient, logVars, installNet
  <2>4. QED
    BY Zenon, <2>2, <2>3, <1>SaveStep
<1>1. CASE UNCHANGED vars
  <2>1. UNCHANGED <<logs, persister, snapshot, snapshotIndex, snapshotTerm, snapshotReqs, isArgs>>
    BY Zenon, <1>1 DEF vars, logVars, snapshotVars, serviceVars, installNet
  <2>2. QED
    BY Zenon, <2>1 DEF NoSnapshots
<1>2. ASSUME NEW i \in Server, Timer(i) \/ ReceiveSnapshotRequest(i) \/ Restart(i) PROVE NoSnapshots'
  <2>1. ~ReceiveSnapshotRequest(i)
    BY Zenon DEF NoSnapshots, ReceiveSnapshotRequest
  <2>2. CASE startElection(i)
    <3>1. UNCHANGED isArgs
      BY Zenon, <2>2 DEF startElection, installNet
    <3>2. QED
      BY Zenon, <2>2, <3>1, <1>PersistSave
  <2>3. CASE sendHeartBeat(i) \/ broadcastAppendEntries(i)
    BY Zenon, <2>3, <1>IdleSave
  <2>4. CASE applyToClient(i)
    BY Zenon, <2>4, <1>ApplySave
  <2>5. CASE Restart(i)
    BY Zenon, <2>5, <1>CrashSave
  <2>6. QED
    BY Zenon, <1>2, <2>1, <2>2, <2>3, <2>4, <2>5 DEF Timer
<1>3. ASSUME NEW i \in Server, NEW c \in Command, handleCommand(i, c) PROVE NoSnapshots'
  <2>1. UNCHANGED isArgs
    BY Zenon, <1>3 DEF handleCommand, installNet
  <2>2. QED
    BY Zenon, <1>3, <2>1, <1>PersistSave
<1>4. ASSUME NEW m \in rvArgs, ReceiveVoteRequest(m) PROVE NoSnapshots'
  <2>1. m.dst \in Server
    BY Zenon, VoteFields
  <2>2. CASE DeclineVote(m.dst, m)
    BY Zenon, <2>1, <2>2, <1>IdleSave
  <2>3. CASE GrantVote(m.dst, m) \/ RefuseVote(m.dst, m)
    <3>1. (\E vote : CastVote(m.dst, m, vote)) /\ UNCHANGED isArgs
      BY Zenon, <2>3 DEF GrantVote, RefuseVote, CastVote, installNet
    <3>2. QED
      BY Zenon, <2>1, <3>1, <1>PersistSave
  <2>4. CASE CrashAfterTerm(m.dst, m)
    BY Zenon, <2>1, <2>4, <1>CrashSave
  <2>5. QED
    BY Zenon, <1>4, <2>2, <2>3, <2>4 DEF ReceiveVoteRequest
<1>5. ASSUME NEW m \in rvReplies, ReceiveVote(m) PROVE NoSnapshots'
  <2>1. m.dst \in Server
    BY Zenon, TypeGroups DEF VoteTypes, RequestVoteReply
  <2>2. CASE CountVote(m.dst, m)
    BY Zenon, <2>1, <2>2, <1>IdleSave
  <2>3. CASE VoteOfHigherTerm(m.dst, m)
    <3>1. UNCHANGED isArgs
      BY Zenon, <2>3 DEF VoteOfHigherTerm, installNet
    <3>2. QED
      BY Zenon, <2>1, <2>3, <3>1, <1>PersistSave
  <2>4. QED
    BY Zenon, <1>5, <2>2, <2>3 DEF ReceiveVote
<1>6. ASSUME NEW m \in aeArgs, ReceiveAppend(m) PROVE NoSnapshots'
  <2>1. m.dst \in Server
    BY Zenon, AppendFields
  <2>2. CASE RefuseStaleAppend(m.dst, m)
    BY Zenon, <2>1, <2>2, <1>IdleSave
  <2>3. CASE RejectAppend(m.dst, m) \/ AcceptAppend(m.dst, m)
    <3>1. UNCHANGED isArgs
      BY Zenon, <2>3 DEF RejectAppend, AcceptAppend, installNet
    <3>2. QED
      BY Zenon, <2>1, <2>3, <3>1, <1>PersistSave
  <2>4. CASE CrashAfterTerm(m.dst, m) \/ \E n \in 0 .. Len(m.Entries) : CrashInAppend(m.dst, m, n)
    BY Zenon, <2>1, <2>4, <1>CrashSave
  <2>5. QED
    BY Zenon, <1>6, <2>2, <2>3, <2>4 DEF ReceiveAppend
<1>7. ASSUME NEW m \in aeReplies, ReceiveAppendReply(m) PROVE NoSnapshots'
  <2>1. m.dst \in Server
    BY Zenon, AppendReplyFields
  <2>2. CASE AppendSucceeded(m.dst, m)
    BY Zenon, <2>1, <2>2, <1>IdleSave
  <2>3. CASE AppendFailed(m.dst, m)
    BY Zenon, <2>1, <2>3, <1>NilSnapshotSteps
  <2>4. CASE AppendReplyOfHigherTerm(m.dst, m)
    <3>1. UNCHANGED isArgs
      BY Zenon, <2>4 DEF AppendReplyOfHigherTerm, installNet
    <3>2. QED
      BY Zenon, <2>1, <2>4, <3>1, <1>PersistSave
  <2>5. QED
    BY Zenon, <1>7, <2>2, <2>3, <2>4 DEF ReceiveAppendReply
<1>8. ASSUME NEW m \in isArgs, ReceiveInstall(m) PROVE NoSnapshots'
  <2>1. m.dst \in Server
    BY Zenon, InstallFields
  <2>2. CASE RefuseInstall(m.dst, m)
    BY Zenon, <2>1, <2>2, <1>IdleSave
  <2>3. CASE ReceiveNilSnapshot(m.dst, m) \/ InstallSnapshot(m.dst, m)
    BY Zenon, <2>1, <2>3, <1>NilSnapshotSteps
  <2>4. CASE CrashAfterTerm(m.dst, m)
    BY Zenon, <2>1, <2>4, <1>CrashSave
  <2>5. QED
    BY Zenon, <1>8, <2>2, <2>3, <2>4 DEF ReceiveInstall
<1>9. ASSUME NEW m \in isReplies, InstallReplyOfHigherTerm(m.dst, m) PROVE NoSnapshots'
  <2>1. m.dst \in Server
    BY Zenon, TypeGroups DEF InstallTypes, InstallSnapshotReply
  <2>2. UNCHANGED isArgs
    BY Zenon, <1>9 DEF InstallReplyOfHigherTerm, installNet
  <2>3. QED
    BY Zenon, <1>9, <2>1, <2>2, <1>PersistSave
<1>10. QED
  BY Zenon, <1>1, <1>2, <1>3, <1>4, <1>5, <1>6, <1>7, <1>8, <1>9 DEF Next

\* At first both logs are empty.
LEMMA InitNoSnapshots == Init => NoSnapshots
BY DEF Init, NoSnapshots, Fresh

-----------------------------------------------------------------------------
(* The inductive invariant *)

\* canon[t] is the log of the leader of term t, as far as that leader got.  A log is backed
\* when each of its entries came, with all before it, from the leader of the entry's term.
Backed(log, canon) == \A k \in 1 .. Len(log) : Agree(log, canon[log[k].Term], k)

Consistent(canon) ==
  \A t \in Nat : /\ Backed(canon[t], canon)
                 /\ \A k \in 1 .. Len(canon[t]) : canon[t][k].Index = k /\ canon[t][k].Term \in 1 .. t

\* The leader of term t has sent its first calls, and who voted for c in term t.
Elected(t) == \E m \in aeArgs : m.Term = t
VotersIn(c, t) == {v \in Server : Vote(v, t, c) \in ballots}

LogsBacked(canon) ==
  \A i \in Server : /\ Backed(logs[i], canon)
                    /\ \A k \in 1 .. Len(logs[i]) : logs[i][k].Term <= currentTerm[i]

\* A leader holds the log of its term and has told so; a candidate's log is of earlier terms.
LeadersHold(canon) ==
  \A i \in Server : status[i] = "LEADER" =>
    logs[i] = canon[currentTerm[i]] /\ \E m \in aeArgs : m.src = i /\ m.Term = currentTerm[i]

CandidatesBehind ==
  \A i \in Server : status[i] = "CANDIDATE" =>
    currentTerm[i] >= 1 /\ \A k \in 1 .. Len(logs[i]) : logs[i][k].Term < currentTerm[i]

\* A call carries a part of its leader's log, and the leader was elected.
CallsFromLeaders(canon) ==
  \A m \in aeArgs :
    /\ m.Term >= 1 /\ m.Term <= currentTerm[m.src]
    /\ m.Term = currentTerm[m.src] => status[m.src] # "CANDIDATE"
    /\ Majority(Cardinality(VotersIn(m.src, m.Term)))
    /\ m.PrevLogIndex + Len(m.Entries) <= Len(canon[m.Term])
    /\ \A k \in 1 .. Len(m.Entries) : m.Entries[k] = canon[m.Term][m.PrevLogIndex + k]
    /\ m.PrevLogIndex > 0 => m.PrevLogTerm = canon[m.Term][m.PrevLogIndex].Term

\* A peer that reported success holds what it reported for as long as it is in that term.
RepliesKept(canon) ==
  \A r \in aeReplies : r.Success =>
    /\ r.reqTerm <= currentTerm[r.src] /\ Elected(r.reqTerm)
    /\ r.PrevLogIndex + r.NumEntries <= Len(canon[r.reqTerm])
    /\ r.reqTerm = currentTerm[r.src] =>
         Agree(logs[r.src], canon[r.reqTerm], r.PrevLogIndex + r.NumEntries)

\* matchIndex is what the peer reported in this term.
Reported(i, j, n) ==
  \E r \in aeReplies : /\ r.Success /\ r.src = j /\ r.reqTerm = currentTerm[i]
                       /\ r.PrevLogIndex + r.NumEntries = n

MatchReported ==
  \A i, j \in Server :
    status[i] = "LEADER" /\ i # j /\ matchIndex[i][j] > 0 => Reported(i, j, matchIndex[i][j])

\* No peer answers itself.
VotesTravel == \A r \in rvReplies : r.src # r.dst

LogInvOf(canon) ==
  /\ Consistent(canon) /\ \A t \in Nat : canon[t] # <<>> => Elected(t)
  /\ LogsBacked(canon) /\ LeadersHold(canon) /\ CandidatesBehind
  /\ CallsFromLeaders(canon) /\ RepliesKept(canon) /\ MatchReported /\ VotesTravel

Canons == [Nat -> Seq(Entry)]

LogInv == \E canon \in Canons : LogInvOf(canon)

-----------------------------------------------------------------------------
(* Facts about logs that agree *)

LEMMA AgreeDown ==
  ASSUME NEW s, NEW c, NEW k \in Nat, NEW n \in Nat, n <= k, Agree(s, c, k), Len(s) \in Nat, Len(c) \in Nat
  PROVE  Agree(s, c, n)
BY DEF Agree

LEMMA AgreeTrans ==
  ASSUME NEW s, NEW c, NEW d, NEW k \in Nat, Agree(s, c, k), Agree(c, d, k)
  PROVE  Agree(s, d, k)
BY Zenon DEF Agree

LEMMA AgreeSym ==
  ASSUME NEW s, NEW c, NEW k \in Nat, Agree(s, c, k)
  PROVE  Agree(c, s, k)
BY Zenon DEF Agree

LEMMA AgreeSame ==
  ASSUME NEW s \in Seq(Entry), NEW c \in Seq(Entry), Agree(s, c, Len(s)), Agree(s, c, Len(c))
  PROVE  s = c
<1>1. Len(s) \in Nat /\ Len(c) \in Nat
  BY Zenon, LenProperties
<1>2. Len(s) = Len(c) /\ \A k \in 1 .. Len(s) : s[k] = c[k]
  BY <1>1 DEF Agree
<1>3. QED
  BY Zenon, <1>2, SeqEqual

\* The entries of a log and their terms.
LEMMA LogEntries ==
  ASSUME NEW s \in Seq(Entry)
  PROVE  /\ Len(s) \in Nat
         /\ \A k \in 1 .. Len(s) : s[k] \in Entry /\ s[k].Term \in Nat /\ s[k].Index \in Nat
<1>1. \A e \in Entry : e.Term \in Nat /\ e.Index \in Nat
  BY Zenon DEF Entry
<1>2. Len(s) \in Nat /\ \A k \in 1 .. Len(s) : s[k] \in Entry
  BY Zenon, LenProperties, ElementOfSeq
<1>3. QED
  BY Zenon, <1>1, <1>2

\* Equal terms at a position mean equal logs up to it.
LEMMA BackedMatches ==
  ASSUME NEW canon \in Canons, Consistent(canon), NEW s \in Seq(Entry), NEW c \in Seq(Entry),
         Backed(s, canon), Backed(c, canon),
         NEW k \in Nat, k >= 1, k <= Len(s), k <= Len(c), s[k].Term = c[k].Term
  PROVE  Agree(s, c, k)
<1>1. k \in 1 .. Len(s) /\ k \in 1 .. Len(c)
  BY LogEntries
<1>2. Agree(s, canon[s[k].Term], k) /\ Agree(c, canon[s[k].Term], k)
  BY Zenon, <1>1 DEF Backed
<1>3. QED
  BY <1>2, AgreeSym, AgreeTrans

\* A spliced log is backed, and by entries of terms up to that of its leader.
LEMMA SplicedBacked ==
  ASSUME NEW canon \in Canons, Consistent(canon), NEW t \in Nat, NEW u \in Nat, u <= t,
         NEW log \in Seq(Entry), NEW new, Backed(log, canon), Spliced(log, canon[t], new),
         \A k \in 1 .. Len(log) : log[k].Term <= u
  PROVE  Backed(new, canon) /\ \A k \in 1 .. Len(new) : new[k].Term <= t
<1> DEFINE c == canon[t]
<1>1. c \in Seq(Entry) /\ new \in Seq(Entry)
  BY Zenon DEF Canons, Spliced
<1>2. CASE new = log
  BY <1>2, LogEntries
<1>3. CASE Agree(new, c, Len(new))
  <2> SUFFICES ASSUME NEW k \in 1 .. Len(new)
               PROVE  Agree(new, canon[new[k].Term], k) /\ new[k].Term <= t
    BY Zenon DEF Backed
  <2>1. Len(new) \in Nat /\ Len(c) \in Nat /\ k \in Nat /\ k <= Len(new)
    BY <1>1, LogEntries
  <2>2. k \in 1 .. Len(c) /\ new[k] = c[k]
    BY <1>3, <2>1 DEF Agree
  <2>3. Agree(c, canon[c[k].Term], k) /\ c[k].Term \in 1 .. t
    BY Zenon, <2>2 DEF Consistent, Backed
  <2>4. Agree(new, c, k)
    BY Zenon, <1>3, <2>1, AgreeDown
  <2>5. QED
    BY <2>1, <2>2, <2>3, <2>4, AgreeTrans
<1>4. QED
  BY Zenon, <1>2, <1>3 DEF Spliced

-----------------------------------------------------------------------------
(* Steps in which no leader's log grows *)

\* A call is sent from the log of a leader.
SentFrom(m, log) ==
  /\ m.PrevLogIndex + Len(m.Entries) <= Len(log)
  /\ \A k \in 1 .. Len(m.Entries) : m.Entries[k] = log[m.PrevLogIndex + k]
  /\ m.PrevLogIndex > 0 => m.PrevLogTerm = log[m.PrevLogIndex].Term

TermStep(j) ==
  /\ currentTerm'[j] >= currentTerm[j]
  /\ status'[j] = "LEADER" => status[j] = "LEADER" /\ currentTerm'[j] = currentTerm[j]
  /\ status'[j] = "CANDIDATE" =>
       /\ logs'[j] = logs[j]
       /\ (status[j] = "CANDIDATE" /\ currentTerm'[j] = currentTerm[j]) \/ currentTerm'[j] > currentTerm[j]

\* Any number of peers move to later terms and take entries of the leaders of those terms;
\* leaders send parts of their logs; what is reported is there.
SteadyStep(canon) ==
  /\ \A j \in Server : TermStep(j)
  /\ \A j \in Server : \/ logs'[j] = logs[j]
                       \/ Elected(currentTerm'[j]) /\ Spliced(logs[j], canon[currentTerm'[j]], logs'[j])
  /\ ballots \subseteq ballots' /\ aeArgs \subseteq aeArgs' /\ aeReplies \subseteq aeReplies'
  /\ \A m \in aeArgs' \ aeArgs :
       /\ status[m.src] = "LEADER" /\ status'[m.src] = "LEADER"
       /\ m.Term = currentTerm[m.src] /\ SentFrom(m, logs[m.src])
  /\ \A r \in aeReplies' \ aeReplies : r.Success =>
       /\ r.reqTerm = currentTerm'[r.src] /\ Elected(r.reqTerm)
       /\ Agree(logs'[r.src], canon[r.reqTerm], r.PrevLogIndex + r.NumEntries)
  /\ \A i, j \in Server : status'[i] = "LEADER" /\ i # j =>
       matchIndex'[i][j] = matchIndex[i][j] \/ Reported(i, j, matchIndex'[i][j])
  /\ \A r \in rvReplies' \ rvReplies : r.src # r.dst

\* Votes are never taken back.
LEMMA VotersKept ==
  ASSUME Background, ballots \subseteq ballots', NEW c, NEW t, Majority(Cardinality(VotersIn(c, t)))
  PROVE  Majority(Cardinality(VotersIn(c, t)'))
<1>1. VotersIn(c, t) \subseteq VotersIn(c, t)' /\ VotersIn(c, t)' \in SUBSET Server /\ VotersIn(c, t) \in SUBSET Server
  BY Zenon DEF VotersIn, Vote
<1>2. QED
  BY Zenon, <1>1, PeerSets, PeerSetsGrow, MajorityGrows

LEMMA SteadyKeeps ==
  ASSUME Background, ElectionInv, TypeOK', NEW canon \in Canons, LogInvOf(canon), SteadyStep(canon)
  PROVE  LogInvOf(canon)'
<1>0. \A j \in Server : TermStep(j)
  BY Zenon DEF SteadyStep
<1>1. /\ TypeOK /\ \A j \in Server : /\ currentTerm[j] \in Nat /\ currentTerm'[j] \in Nat
                                      /\ logs[j] \in Seq(Entry) /\ logs'[j] \in Seq(Entry)
      /\ \A j \in Server : Len(logs[j]) \in Nat /\ Len(logs'[j]) \in Nat
  <2>1. TypeOK /\ \A j \in Server : /\ currentTerm[j] \in Nat /\ currentTerm'[j] \in Nat
                                      /\ logs[j] \in Seq(Entry) /\ logs'[j] \in Seq(Entry)
    BY Zenon DEF ElectionInv, TypeOK
  <2>2. QED
    BY Zenon, <2>1, LogEntries
<1>2. \A t \in Nat : canon[t] \in Seq(Entry) /\ Len(canon[t]) \in Nat
  BY Zenon, LogEntries DEF Canons
<1>3. Consistent(canon) /\ LogsBacked(canon) /\ LeadersHold(canon) /\ CandidatesBehind
      /\ CallsFromLeaders(canon) /\ RepliesKept(canon) /\ MatchReported /\ VotesTravel
  BY Zenon DEF LogInvOf
<1>4. \A t : Elected(t) => Elected(t)'
  BY Zenon DEF SteadyStep, Elected
<1>5. \A t \in Nat : canon[t] # <<>> => Elected(t)'
  BY Zenon, <1>4 DEF LogInvOf
<1>6. LogsBacked(canon)'
  <2> SUFFICES ASSUME NEW j \in Server
               PROVE  Backed(logs'[j], canon) /\ \A k \in 1 .. Len(logs'[j]) : logs'[j][k].Term <= currentTerm'[j]
    BY Zenon DEF LogsBacked
  <2>1. Backed(logs[j], canon) /\ \A k \in 1 .. Len(logs[j]) : logs[j][k].Term <= currentTerm[j]
    BY Zenon, <1>3 DEF LogsBacked
  <2>2. currentTerm[j] <= currentTerm'[j]
    BY Zenon, <1>0, <1>1 DEF TermStep
  <2>3. CASE logs'[j] = logs[j]
    BY <1>1, <2>1, <2>2, <2>3, LogEntries
  <2>4. CASE Spliced(logs[j], canon[currentTerm'[j]], logs'[j])
    BY Zenon, <1>1, <1>3, <2>1, <2>2, <2>4, SplicedBacked
  <2>5. QED
    BY Zenon, <2>3, <2>4 DEF SteadyStep
<1>7. LeadersHold(canon)'
  <2> SUFFICES ASSUME NEW j \in Server, status'[j] = "LEADER"
               PROVE  /\ logs'[j] = canon[currentTerm'[j]]
                      /\ \E m \in aeArgs' : m.src = j /\ m.Term = currentTerm'[j]
    BY Zenon DEF LeadersHold
  <2>1. status[j] = "LEADER" /\ currentTerm'[j] = currentTerm[j]
    BY Zenon, <1>0 DEF TermStep
  <2>2. logs[j] = canon[currentTerm[j]] /\ \E m \in aeArgs : m.src = j /\ m.Term = currentTerm[j]
    BY Zenon, <1>3, <2>1 DEF LeadersHold
  <2>3. CASE Spliced(logs[j], canon[currentTerm'[j]], logs'[j])
    <3>1. Agree(logs[j], logs[j], Len(logs[j]))
      BY <1>1 DEF Agree
    <3>2. Agree(logs'[j], logs[j], Len(logs[j]))
      BY Zenon, <1>1, <2>1, <2>2, <2>3, <3>1 DEF Spliced
    <3>3. logs'[j] = logs[j] \/ Agree(logs'[j], logs[j], Len(logs'[j]))
      BY Zenon, <2>1, <2>2, <2>3 DEF Spliced
    <3>4. logs'[j] = logs[j]
      BY Zenon, <1>1, <3>2, <3>3, AgreeSame
    <3>5. QED
      BY Zenon, <2>1, <2>2, <3>4 DEF SteadyStep
  <2>4. QED
    BY Zenon, <2>1, <2>2, <2>3 DEF SteadyStep
<1>8. CandidatesBehind'
  <2> SUFFICES ASSUME NEW j \in Server, status'[j] = "CANDIDATE"
               PROVE  /\ currentTerm'[j] >= 1
                      /\ \A k \in 1 .. Len(logs'[j]) : logs'[j][k].Term < currentTerm'[j]
    BY Zenon DEF CandidatesBehind
  <2>1. /\ logs'[j] = logs[j]
        /\ (status[j] = "CANDIDATE" /\ currentTerm'[j] = currentTerm[j]) \/ currentTerm'[j] > currentTerm[j]
    BY Zenon, <1>0 DEF TermStep
  <2>2. CASE status[j] = "CANDIDATE" /\ currentTerm'[j] = currentTerm[j]
    BY Zenon, <1>3, <2>1, <2>2 DEF CandidatesBehind
  <2>3. CASE currentTerm'[j] > currentTerm[j]
    <3>1. \A k \in 1 .. Len(logs[j]) : logs[j][k].Term <= currentTerm[j]
      BY Zenon, <1>3 DEF LogsBacked
    <3>2. QED
      BY <1>1, <2>1, <2>3, <3>1, LogEntries
  <2>4. QED
    BY Zenon, <2>1, <2>2, <2>3
<1>9. CallsFromLeaders(canon)'
  <2> SUFFICES ASSUME NEW m \in aeArgs'
               PROVE  /\ m.Term >= 1 /\ m.Term <= currentTerm'[m.src]
                      /\ m.Term = currentTerm'[m.src] => status'[m.src] # "CANDIDATE"
                      /\ Majority(Cardinality(VotersIn(m.src, m.Term)'))
                      /\ SentFrom(m, canon[m.Term])
    BY Zenon DEF CallsFromLeaders, SentFrom
  <2>1. m.src \in Server /\ m.Term \in Nat
    <3>1. aeArgs' \subseteq AppendEntriesArgs
      BY Zenon DEF TypeOK
    <3>2. QED
      BY Zenon, <3>1 DEF AppendEntriesArgs
  <2>2. currentTerm'[m.src] >= currentTerm[m.src]
    BY Zenon, <1>0, <2>1 DEF TermStep
  <2>3. CASE m \in aeArgs
    <3>1. /\ m.Term >= 1 /\ m.Term <= currentTerm[m.src]
          /\ m.Term = currentTerm[m.src] => status[m.src] # "CANDIDATE"
          /\ Majority(Cardinality(VotersIn(m.src, m.Term)))
          /\ SentFrom(m, canon[m.Term])
      BY Zenon, <1>3, <2>3 DEF CallsFromLeaders, SentFrom
    <3>2. Majority(Cardinality(VotersIn(m.src, m.Term)'))
      BY Zenon, <3>1, VotersKept DEF SteadyStep
    <3>3. m.Term = currentTerm'[m.src] => status'[m.src] # "CANDIDATE"
      BY <1>0, <1>1, <2>1, <2>2, <3>1 DEF TermStep
    <3>4. QED
      BY <1>1, <2>1, <2>2, <3>1, <3>2, <3>3
  <2>4. CASE m \notin aeArgs
    <3>1. /\ status[m.src] = "LEADER" /\ status'[m.src] = "LEADER"
          /\ m.Term = currentTerm[m.src] /\ SentFrom(m, logs[m.src])
      BY Zenon, <2>4 DEF SteadyStep
    <3>2. logs[m.src] = canon[m.Term] /\ \E n \in aeArgs : n.Term = m.Term
      BY <1>3, <2>1, <3>1 DEF LeadersHold
    <3>3. m.Term >= 1
      BY Zenon, <1>3, <3>2 DEF CallsFromLeaders
    <3>4. Majority(Cardinality(Voters(m.src))) /\ Voters(m.src) = VotersIn(m.src, m.Term)
      BY Zenon, <2>1, <3>1 DEF ElectionInv, LeaderElected, Voters, VotersIn
    <3>5. Majority(Cardinality(VotersIn(m.src, m.Term)'))
      BY Zenon, <3>4, VotersKept DEF SteadyStep
    <3>6. QED
      BY Zenon, <1>1, <2>1, <2>2, <3>1, <3>2, <3>3, <3>5
  <2>5. QED
    BY Zenon, <2>3, <2>4
<1>10. RepliesKept(canon)'
  <2> SUFFICES ASSUME NEW r \in aeReplies', r.Success
               PROVE  /\ r.reqTerm <= currentTerm'[r.src] /\ Elected(r.reqTerm)'
                      /\ r.PrevLogIndex + r.NumEntries <= Len(canon[r.reqTerm])
                      /\ r.reqTerm = currentTerm'[r.src] =>
                           Agree(logs'[r.src], canon[r.reqTerm], r.PrevLogIndex + r.NumEntries)
    BY Zenon DEF RepliesKept
  <2> DEFINE n == r.PrevLogIndex + r.NumEntries
  <2>1. r.src \in Server /\ r.reqTerm \in Nat /\ n \in Nat
    <3>1. aeReplies' \subseteq AppendEntriesReply
      BY Zenon DEF TypeOK
    <3>2. QED
      BY <3>1 DEF AppendEntriesReply
  <2>2. currentTerm'[r.src] >= currentTerm[r.src]
    BY Zenon, <1>0, <2>1 DEF TermStep
  <2>3. CASE r \in aeReplies
    <3>1. /\ r.reqTerm <= currentTerm[r.src] /\ Elected(r.reqTerm) /\ n <= Len(canon[r.reqTerm])
          /\ r.reqTerm = currentTerm[r.src] => Agree(logs[r.src], canon[r.reqTerm], n)
      BY Zenon, <1>3, <2>3 DEF RepliesKept
    <3>2. ASSUME r.reqTerm = currentTerm'[r.src] PROVE Agree(logs'[r.src], canon[r.reqTerm], n)
      <4>1. Agree(logs[r.src], canon[r.reqTerm], n)
        BY <1>1, <2>1, <2>2, <3>1, <3>2
      <4>2. logs'[r.src] = logs[r.src] \/ Spliced(logs[r.src], canon[r.reqTerm], logs'[r.src])
        BY Zenon, <2>1, <3>2 DEF SteadyStep
      <4>3. QED
        BY Zenon, <2>1, <4>1, <4>2 DEF Spliced
    <3>3. QED
      BY <1>1, <1>4, <2>1, <2>2, <3>1, <3>2
  <2>4. CASE r \notin aeReplies
    <3>1. r.reqTerm = currentTerm'[r.src] /\ Elected(r.reqTerm) /\ Agree(logs'[r.src], canon[r.reqTerm], n)
      BY Zenon, <2>4 DEF SteadyStep
    <3>2. n <= Len(canon[r.reqTerm])
      BY Zenon, <3>1 DEF Agree
    <3>3. QED
      BY <1>1, <1>4, <2>1, <3>1, <3>2
  <2>5. QED
    BY Zenon, <2>3, <2>4
<1>11. MatchReported'
  <2> SUFFICES ASSUME NEW i \in Server, NEW j \in Server, status'[i] = "LEADER", i # j, matchIndex'[i][j] > 0,
                      NEW n, n = matchIndex'[i][j]
               PROVE  Reported(i, j, n)'
    BY DEF MatchReported, Reported
  <2>1. status[i] = "LEADER" /\ currentTerm'[i] = currentTerm[i]
    BY Zenon, <1>0 DEF TermStep
  <2>2. n = matchIndex[i][j] \/ Reported(i, j, n)
    BY Zenon DEF SteadyStep
  <2>3. Reported(i, j, n)
    BY Zenon, <1>3, <2>1, <2>2 DEF MatchReported
  <2>4. aeReplies \subseteq aeReplies'
    BY Zenon DEF SteadyStep
  <2>5. QED
    BY Zenon, <2>1, <2>3, <2>4 DEF Reported
<1>12. VotesTravel'
  BY Zenon, <1>3 DEF VotesTravel, SteadyStep
<1>13. QED
  BY Zenon, <1>3, <1>5, <1>6, <1>7, <1>8, <1>9, <1>10, <1>11, <1>12 DEF LogInvOf

-----------------------------------------------------------------------------
(* Steps in which the log of a leader begins or grows *)

\* Peer i, leader of term t then, has the log new; only it sends calls.
GrowStep(i, t, new) ==
  /\ currentTerm' = currentTerm /\ currentTerm[i] = t /\ t >= 1 /\ ballots' = ballots
  /\ rvReplies' \subseteq rvReplies /\ aeReplies' = aeReplies /\ aeArgs \subseteq aeArgs'
  /\ \A j \in Server \ {i} : /\ status'[j] = status[j] /\ logs'[j] = logs[j]
                             /\ matchIndex'[j] = matchIndex[j]
  /\ status'[i] = "LEADER" /\ logs'[i] = new
  /\ status[i] = "LEADER" \/ (status[i] = "CANDIDATE" /\ new = logs[i])
  /\ \A j \in Server : matchIndex'[i][j] = 0 \/ (status[i] = "LEADER" /\ matchIndex'[i][j] = matchIndex[i][j])
  /\ \A m \in aeArgs' \ aeArgs : m.src = i /\ m.Term = t /\ SentFrom(m, new)
  /\ \E m \in aeArgs' : m.src = i /\ m.Term = t

\* The entries of new are of terms up to t, numbered, and came from their leaders.
GrownLog(new, t, canon) ==
  /\ new \in Seq(Entry) /\ Agree(new, canon[t], Len(canon[t]))
  /\ \A k \in 1 .. Len(new) :
       /\ new[k].Index = k /\ new[k].Term \in 1 .. t
       /\ new[k].Term # t => Agree(new, canon[new[k].Term], k)

LEMMA GrowKeeps ==
  ASSUME Background, ElectionInv, ElectionInv', NEW canon \in Canons, LogInvOf(canon),
         NEW i \in Server, NEW t \in Nat, NEW new, GrowStep(i, t, new), GrownLog(new, t, canon),
         NEW grown \in Canons, grown = [canon EXCEPT ![t] = new]
  PROVE  LogInvOf(grown)'
<1>1. /\ TypeOK /\ TypeOK'
      /\ \A j \in Server : currentTerm[j] \in Nat /\ logs[j] \in Seq(Entry) /\ Len(logs[j]) \in Nat
  <2>1. TypeOK /\ TypeOK' /\ \A j \in Server : currentTerm[j] \in Nat /\ logs[j] \in Seq(Entry)
    BY Zenon DEF ElectionInv, TypeOK
  <2>2. QED
    BY Zenon, <2>1, LogEntries
<1>2. /\ \A u \in Nat : canon[u] \in Seq(Entry) /\ Len(canon[u]) \in Nat
      /\ \A u \in Nat : grown[u] \in Seq(Entry) /\ Len(grown[u]) \in Nat
      /\ grown[t] = new /\ \A u \in Nat \ {t} : grown[u] = canon[u]
  BY Zenon, LogEntries DEF Canons
<1>3. Consistent(canon) /\ LogsBacked(canon) /\ LeadersHold(canon) /\ CandidatesBehind
      /\ CallsFromLeaders(canon) /\ RepliesKept(canon) /\ MatchReported /\ VotesTravel
  BY Zenon DEF LogInvOf
<1>4. \A u \in Nat : Agree(grown[u], canon[u], Len(canon[u])) /\ Len(canon[u]) <= Len(grown[u])
  BY <1>2 DEF GrownLog, Agree
<1>5. \A s : \A u, k \in Nat : Agree(s, canon[u], k) => Agree(s, grown[u], k)
  BY <1>2, <1>4 DEF Agree
<1>6. \A u : Elected(u) => Elected(u)'
  BY Zenon DEF GrowStep, Elected
<1>7. Elected(t)'
  BY Zenon DEF GrowStep, Elected
<1>8. \A u \in Nat : grown[u] # <<>> => Elected(u)'
  BY Zenon, <1>2, <1>6, <1>7 DEF LogInvOf
<1>9. Backed(new, grown) /\ \A k \in 1 .. Len(new) : new[k].Index = k /\ new[k].Term \in 1 .. t
  <2> SUFFICES ASSUME NEW k \in 1 .. Len(new)
               PROVE  Agree(new, grown[new[k].Term], k) /\ new[k].Index = k /\ new[k].Term \in 1 .. t
    BY Zenon DEF Backed
  <2>1. /\ new[k].Index = k /\ new[k].Term \in 1 .. t /\ Len(new) \in Nat
        /\ new[k].Term # t => Agree(new, canon[new[k].Term], k)
    BY Zenon, <1>2 DEF GrownLog
  <2>2. CASE new[k].Term = t
    BY <1>2, <2>1, <2>2 DEF Agree
  <2>3. CASE new[k].Term # t
    BY <1>2, <2>1, <2>3
  <2>4. QED
    BY Zenon, <2>1, <2>2, <2>3
<1>10. \A s \in Seq(Entry) : Backed(s, canon) => Backed(s, grown)
  <2> SUFFICES ASSUME NEW s \in Seq(Entry), Backed(s, canon), NEW k \in 1 .. Len(s)
               PROVE  Agree(s, grown[s[k].Term], k)
    BY Zenon DEF Backed
  <2>1. s[k].Term \in Nat /\ k \in Nat /\ Agree(s, canon[s[k].Term], k)
    BY LogEntries DEF Backed
  <2>2. QED
    BY Zenon, <1>5, <2>1
<1>11. Consistent(grown)
  <2> SUFFICES ASSUME NEW u \in Nat
               PROVE  /\ Backed(grown[u], grown)
                      /\ \A k \in 1 .. Len(grown[u]) : grown[u][k].Index = k /\ grown[u][k].Term \in 1 .. u
    BY Zenon DEF Consistent
  <2>1. CASE u = t
    BY Zenon, <1>2, <1>9, <2>1
  <2>2. CASE u # t
    <3>1. /\ Backed(canon[u], canon) /\ canon[u] \in Seq(Entry) /\ grown[u] = canon[u]
          /\ \A k \in 1 .. Len(canon[u]) : canon[u][k].Index = k /\ canon[u][k].Term \in 1 .. u
      BY Zenon, <1>2, <1>3, <2>2 DEF Consistent
    <3>2. QED
      BY Zenon, <1>10, <3>1
  <2>3. QED
    BY Zenon, <2>1, <2>2
<1>12. LogsBacked(grown)'
  <2> SUFFICES ASSUME NEW j \in Server
               PROVE  Backed(logs'[j], grown) /\ \A k \in 1 .. Len(logs'[j]) : logs'[j][k].Term <= currentTerm'[j]
    BY Zenon DEF LogsBacked
  <2>1. CASE j = i
    <3>1. logs'[j] = new /\ currentTerm'[j] = t
      BY Zenon, <2>1 DEF GrowStep
    <3>2. \A k \in 1 .. Len(new) : new[k].Term <= t
      BY <1>9
    <3>3. QED
      BY Zenon, <1>9, <3>1, <3>2
  <2>2. CASE j # i
    <3>1. logs'[j] = logs[j] /\ currentTerm'[j] = currentTerm[j]
      BY Zenon, <2>2 DEF GrowStep
    <3>2. QED
      BY Zenon, <1>1, <1>3, <1>10, <3>1 DEF LogsBacked
  <2>3. QED
    BY Zenon, <2>1, <2>2
<1>13. LeadersHold(grown)'
  <2> SUFFICES ASSUME NEW j \in Server, status'[j] = "LEADER"
               PROVE  /\ logs'[j] = grown[currentTerm'[j]]
                      /\ \E m \in aeArgs' : m.src = j /\ m.Term = currentTerm'[j]
    BY Zenon DEF LeadersHold
  <2>1. CASE j = i
    BY Zenon, <1>2, <2>1 DEF GrowStep
  <2>2. CASE j # i
    <3>1. /\ status[j] = "LEADER" /\ logs'[j] = logs[j] /\ currentTerm'[j] = currentTerm[j]
          /\ status'[i] = "LEADER" /\ currentTerm'[i] = t /\ aeArgs \subseteq aeArgs'
      BY Zenon, <2>2 DEF GrowStep
    <3>2. ElectionSafety'
      BY OneLeader, PTL
    <3>3. currentTerm[j] # t
      BY Zenon, <2>2, <3>1, <3>2 DEF ElectionSafety
    <3>4. logs[j] = canon[currentTerm[j]] /\ \E m \in aeArgs : m.src = j /\ m.Term = currentTerm[j]
      BY Zenon, <1>3, <3>1 DEF LeadersHold
    <3>5. QED
      BY Zenon, <1>1, <1>2, <3>1, <3>3, <3>4
  <2>3. QED
    BY Zenon, <2>1, <2>2
<1>14. CandidatesBehind'
  <2>1. ASSUME NEW j \in Server, status'[j] = "CANDIDATE"
        PROVE  status[j] = "CANDIDATE" /\ logs'[j] = logs[j] /\ currentTerm'[j] = currentTerm[j]
    BY Zenon, <2>1 DEF GrowStep
  <2>2. QED
    BY Zenon, <1>3, <2>1 DEF CandidatesBehind
<1>15. CallsFromLeaders(grown)'
  <2> SUFFICES ASSUME NEW m \in aeArgs'
               PROVE  /\ m.Term >= 1 /\ m.Term <= currentTerm'[m.src]
                      /\ m.Term = currentTerm'[m.src] => status'[m.src] # "CANDIDATE"
                      /\ Majority(Cardinality(VotersIn(m.src, m.Term)'))
                      /\ SentFrom(m, grown[m.Term])
    BY Zenon DEF CallsFromLeaders, SentFrom
  <2>1. m.src \in Server /\ m.Term \in Nat /\ m.PrevLogIndex \in Nat /\ Len(m.Entries) \in Nat
    <3>1. aeArgs' \subseteq AppendEntriesArgs
      BY Zenon, <1>1 DEF TypeOK
    <3>2. QED
      BY Zenon, <3>1, LenProperties DEF AppendEntriesArgs
  <2>2. CASE m \in aeArgs
    <3>1. /\ m.Term >= 1 /\ m.Term <= currentTerm[m.src]
          /\ m.Term = currentTerm[m.src] => status[m.src] # "CANDIDATE"
          /\ Majority(Cardinality(VotersIn(m.src, m.Term)))
          /\ SentFrom(m, canon[m.Term])
      BY Zenon, <1>3, <2>2 DEF CallsFromLeaders, SentFrom
    <3>2. VotersIn(m.src, m.Term)' = VotersIn(m.src, m.Term)
      BY Zenon DEF VotersIn, Vote, GrowStep
    <3>3. m.Term = currentTerm'[m.src] => status'[m.src] # "CANDIDATE"
      BY Zenon, <2>1, <3>1 DEF GrowStep
    <3>4. SentFrom(m, grown[m.Term])
      <4>1. Agree(grown[m.Term], canon[m.Term], Len(canon[m.Term])) /\ Len(canon[m.Term]) <= Len(grown[m.Term])
            /\ Len(canon[m.Term]) \in Nat /\ Len(grown[m.Term]) \in Nat
        BY Zenon, <1>2, <1>4, <2>1
      <4>2. QED
        <5> DEFINE p == m.PrevLogIndex
                   l == Len(canon[m.Term])
        <5>1. /\ p + Len(m.Entries) <= l
              /\ \A k \in 1 .. Len(m.Entries) : m.Entries[k] = canon[m.Term][p + k]
              /\ p > 0 => m.PrevLogTerm = canon[m.Term][p].Term
          BY Zenon, <3>1 DEF SentFrom
        <5>2. \A k \in 1 .. l : grown[m.Term][k] = canon[m.Term][k]
          BY Zenon, <4>1 DEF Agree
        <5>3. \A k \in 1 .. Len(m.Entries) : p + k \in 1 .. l
          BY SMTT(30), <2>1, <4>1, <5>1
        <5>4. p > 0 => p \in 1 .. l
          BY <2>1, <4>1, <5>1
        <5>5. p + Len(m.Entries) <= Len(grown[m.Term])
          BY <2>1, <4>1, <5>1
        <5>6. QED
          <6>1. \A k \in 1 .. Len(m.Entries) : m.Entries[k] = grown[m.Term][p + k]
            BY Zenon, <5>1, <5>2, <5>3
          <6>2. p > 0 => m.PrevLogTerm = grown[m.Term][p].Term
            BY Zenon, <5>1, <5>2, <5>4
          <6>3. QED
            BY Zenon, <5>5, <6>1, <6>2 DEF SentFrom
    <3>5. QED
      BY Zenon, <3>1, <3>2, <3>3, <3>4 DEF GrowStep
  <2>3. CASE m \notin aeArgs
    <3>1. m.src = i /\ m.Term = t /\ SentFrom(m, new) /\ currentTerm'[i] = t /\ status'[i] = "LEADER" /\ t >= 1
      BY Zenon, <2>3 DEF GrowStep
    <3>2. Majority(Cardinality(Voters(i)')) /\ Voters(i)' = VotersIn(i, t)'
      BY Zenon, <3>1 DEF ElectionInv, LeaderElected, Voters, VotersIn
    <3>3. QED
      BY <1>2, <3>1, <3>2
  <2>4. QED
    BY Zenon, <2>2, <2>3
<1>16. RepliesKept(grown)'
  <2> SUFFICES ASSUME NEW r \in aeReplies, r.Success
               PROVE  /\ r.reqTerm <= currentTerm'[r.src] /\ Elected(r.reqTerm)'
                      /\ r.PrevLogIndex + r.NumEntries <= Len(grown[r.reqTerm])
                      /\ r.reqTerm = currentTerm'[r.src] =>
                           Agree(logs'[r.src], grown[r.reqTerm], r.PrevLogIndex + r.NumEntries)
    BY Zenon DEF RepliesKept, GrowStep
  <2> DEFINE n == r.PrevLogIndex + r.NumEntries
  <2>1. r.src \in Server /\ r.reqTerm \in Nat /\ n \in Nat
    <3>1. aeReplies \subseteq AppendEntriesReply
      BY Zenon, <1>1 DEF TypeOK
    <3>2. QED
      BY <3>1 DEF AppendEntriesReply
  <2>2. /\ r.reqTerm <= currentTerm[r.src] /\ Elected(r.reqTerm) /\ n <= Len(canon[r.reqTerm])
        /\ r.reqTerm = currentTerm[r.src] => Agree(logs[r.src], canon[r.reqTerm], n)
    BY Zenon, <1>3 DEF RepliesKept
  <2> HIDE DEF n
  <2>3. currentTerm'[r.src] = currentTerm[r.src]
    BY Zenon DEF GrowStep
  <2>4. n <= Len(grown[r.reqTerm])
    BY <1>2, <1>4, <2>1, <2>2
  <2>5. ASSUME r.reqTerm = currentTerm[r.src] PROVE Agree(logs'[r.src], grown[r.reqTerm], n)
    <3>1. CASE r.src = i
      <4>1. logs'[r.src] = new /\ grown[r.reqTerm] = new
        BY <1>2, <2>5, <3>1 DEF GrowStep
      <4>2. QED
        BY Zenon, <2>4, <4>1 DEF Agree
    <3>2. CASE r.src # i
      <4>1. logs'[r.src] = logs[r.src]
        BY Zenon, <2>1, <3>2 DEF GrowStep
      <4>2. QED
        BY Zenon, <1>5, <2>1, <2>2, <2>5, <4>1
    <3>3. QED
      BY Zenon, <3>1, <3>2
  <2>6. QED
    BY Zenon, <1>6, <2>2, <2>3, <2>4, <2>5 DEF n
<1>17. MatchReported'
  <2> SUFFICES ASSUME NEW a \in Server, NEW b \in Server, status'[a] = "LEADER", a # b, matchIndex'[a][b] > 0,
                      NEW n, n = matchIndex'[a][b]
               PROVE  Reported(a, b, n)'
    BY SMTT(30) DEF MatchReported, Reported
  <2>1. status[a] = "LEADER" /\ n = matchIndex[a][b]
    BY DEF GrowStep
  <2>2. Reported(a, b, n)
    BY Zenon, <1>3, <2>1 DEF MatchReported
  <2>3. QED
    BY Zenon, <2>2 DEF Reported, GrowStep
<1>18. VotesTravel'
  BY Zenon, <1>3 DEF VotesTravel, GrowStep
<1>19. QED
  BY Zenon, <1>3, <1>8, <1>11, <1>12, <1>13, <1>14, <1>15, <1>16, <1>17, <1>18 DEF LogInvOf

-----------------------------------------------------------------------------
(* Which handler takes which kind of step *)

\* Nothing that the logs rest on changes but terms and roles.
QuietStep ==
  /\ NoVote /\ logs' = logs /\ aeArgs' = aeArgs /\ aeReplies \subseteq aeReplies'
  /\ \A r \in aeReplies' \ aeReplies : ~r.Success
  /\ \A j \in Server : status'[j] = "LEADER" => matchIndex'[j] = matchIndex[j]
  /\ \A r \in rvReplies' \ rvReplies : r.src # r.dst

\* A step without a vote leaves candidates and leaders in their terms or makes followers.
LEMMA NoVoteTerms ==
  ASSUME NoVote, TypeOK, TypeOK', \A j \in Server : status'[j] = "CANDIDATE" => logs'[j] = logs[j]
  PROVE  \A j \in Server : TermStep(j)
<1>1. \A j \in Server : currentTerm[j] \in Nat /\ currentTerm'[j] \in Nat
  BY Zenon DEF TypeOK
<1>2. \A j \in Server : /\ currentTerm'[j] >= currentTerm[j]
                        /\ status'[j] # "FOLLOWER" => status'[j] = status[j] /\ currentTerm'[j] = currentTerm[j]
  BY Zenon DEF NoVote
<1>3. QED
  BY Zenon, <1>1, <1>2 DEF TermStep

\* Without snapshots entry k of a log has index k and a term of at least 1, and the last
\* entry is where the log ends.
LEMMA LogNumbered ==
  ASSUME TypeOK, NoSnapshots, NEW canon \in Canons, LogInvOf(canon), NEW i \in Server
  PROVE  /\ \A k \in 1 .. Len(logs[i]) : /\ logs[i][k].Index = k /\ logs[i][k].Term \in Nat
                                         /\ logs[i][k].Term >= 1
         /\ logs[i] \in Seq(Entry) /\ Len(logs[i]) \in Nat
         /\ LastLogIndex(i) = Len(logs[i]) /\ LogEnd(i) = Len(logs[i]) /\ snapshotIndex[i] = 0
         /\ Len(logs[i]) > 0 => LastLogTerm(i) = logs[i][Len(logs[i])].Term
         /\ Len(logs[i]) = 0 => LastLogTerm(i) <= 0
<1>1. logs[i] \in Seq(Entry) /\ Len(logs[i]) \in Nat
  BY ZenonT(30), LogEntries DEF TypeOK
<1>2. ASSUME NEW k \in 1 .. Len(logs[i])
      PROVE  logs[i][k].Index = k /\ logs[i][k].Term \in Nat /\ logs[i][k].Term >= 1
  <2> DEFINE t == logs[i][k].Term
  <2>1. t \in Nat /\ Agree(logs[i], canon[t], k)
    BY Zenon, <1>1, LogEntries DEF LogInvOf, LogsBacked, Backed
  <2>2. k \in 1 .. Len(canon[t]) /\ logs[i][k] = canon[t][k]
    <3>1. canon[t] \in Seq(Entry)
      BY Zenon, <2>1 DEF Canons
    <3>2. QED
      BY <2>1, <3>1, LogEntries DEF Agree
  <2>3. canon[t][k].Index = k /\ canon[t][k].Term \in 1 .. t
    BY Zenon, <2>1, <2>2 DEF LogInvOf, Consistent
  <2>4. QED
    BY <2>1, <2>2, <2>3
<1>3. snapshotIndex[i] = 0 /\ snapshotTerm[i] <= 0
  BY Zenon DEF NoSnapshots
<1>4. CASE logs[i] = <<>>
  <2>1. Len(logs[i]) = 0
    BY Zenon, <1>4, EmptySeq
  <2>2. QED
    BY <1>1, <1>2, <1>3, <1>4, <2>1 DEF LastLogIndex, LastLogTerm, LogEnd
<1>5. CASE logs[i] # <<>>
  <2>1. Len(logs[i]) \in 1 .. Len(logs[i])
    BY <1>1, <1>5, EmptySeq
  <2>2. QED
    BY <1>1, <1>2, <1>3, <1>5, <2>1 DEF LastLogIndex, LastLogTerm, LogEnd
<1>6. QED
  BY Zenon, <1>4, <1>5

\* appendEntries sends parts of the log that follow PrevLogIndex, to their end.
LEMMA SentCalls ==
  ASSUME TypeOK, NoSnapshots, NEW canon \in Canons, LogInvOf(canon), NEW i \in Server, NEW j \in Server
  PROVE  /\ \A t : /\ SentFrom(Heartbeat(i, j, t), logs[i])
                   /\ Heartbeat(i, j, t).PrevLogIndex + Len(Heartbeat(i, j, t).Entries) = Len(logs[i])
         /\ nextIndex[i][j] >= 1 =>
              /\ SentFrom(Broadcast(i, j), logs[i])
              /\ Broadcast(i, j).PrevLogIndex + Len(Broadcast(i, j).Entries) = Len(logs[i])
         /\ Broadcast(i, j).src = i /\ Broadcast(i, j).Term = currentTerm[i]
         /\ Broadcast(i, j).LeaderCommit = commitIndex[i]
<1>1. /\ \A k \in 1 .. Len(logs[i]) : logs[i][k].Index = k
      /\ logs[i] \in Seq(Entry) /\ Len(logs[i]) \in Nat
      /\ LastLogIndex(i) = Len(logs[i]) /\ snapshotIndex[i] = 0
      /\ Len(logs[i]) > 0 => LastLogTerm(i) = logs[i][Len(logs[i])].Term
  BY Zenon, LogNumbered
<1>2. ASSUME NEW t
      PROVE  /\ SentFrom(Heartbeat(i, j, t), logs[i])
             /\ Heartbeat(i, j, t).PrevLogIndex + Len(Heartbeat(i, j, t).Entries) = Len(logs[i])
  <2> DEFINE h == Heartbeat(i, j, t)
  <2>1. h.Entries = <<>> /\ h.PrevLogIndex = Len(logs[i]) /\ h.PrevLogTerm = LastLogTerm(i)
    BY Zenon, <1>1 DEF Heartbeat
  <2> HIDE DEF h
  <2>2. Len(h.Entries) = 0
    BY Zenon, <2>1, EmptySeq
  <2>3. QED
    BY <1>1, <2>1, <2>2 DEF SentFrom, h
<1>3. Broadcast(i, j).src = i /\ Broadcast(i, j).Term = currentTerm[i] /\ Broadcast(i, j).LeaderCommit = commitIndex[i]
  BY Zenon DEF Broadcast, Heartbeat
<1>4. ASSUME nextIndex[i][j] >= 1
      PROVE  /\ SentFrom(Broadcast(i, j), logs[i])
             /\ Broadcast(i, j).PrevLogIndex + Len(Broadcast(i, j).Entries) = Len(logs[i])
  <2> DEFINE b == Broadcast(i, j)
             n == nextIndex[i][j]
             pos == n - snapshotIndex[i]
  <2>1. n \in Nat /\ pos = n
    BY SMTT(30), <1>1 DEF TypeOK
  <2>2. CASE n > Len(logs[i])
    <3>1. b = Heartbeat(i, j, currentTerm[i])
      BY Zenon, <2>1, <2>2 DEF Broadcast
    <3>2. QED
      BY Zenon, <1>2, <3>1
  <2>3. CASE n <= Len(logs[i])
    <3>1. n - 1 \in 0 .. Len(logs[i]) /\ n = (n - 1) + 1 /\ n \in 1 .. Len(logs[i])
      BY <1>1, <1>4, <2>1, <2>3
    <3>2. /\ b.Entries = SubSeq(logs[i], n, Len(logs[i]))
          /\ b.PrevLogIndex = IF n <= 1 THEN snapshotIndex[i] ELSE logs[i][n - 1].Index
          /\ b.PrevLogTerm = IF n <= 1 THEN snapshotTerm[i] ELSE logs[i][n - 1].Term
      <4>1. ~(pos > Len(logs[i]))
        BY <1>1, <2>1, <2>3
      <4>2. b = [src |-> i, dst |-> j, Term |-> currentTerm[i],
                 PrevLogIndex |-> IF pos <= 1 THEN snapshotIndex[i] ELSE logs[i][pos - 1].Index,
                 PrevLogTerm  |-> IF pos <= 1 THEN snapshotTerm[i]  ELSE logs[i][pos - 1].Term,
                 Entries |-> SubSeq(logs[i], pos, Len(logs[i])), LeaderCommit |-> commitIndex[i]]
        BY Zenon, <4>1 DEF Broadcast
      <4> HIDE DEF b
      <4>3. /\ b.Entries = SubSeq(logs[i], pos, Len(logs[i]))
            /\ b.PrevLogIndex = IF pos <= 1 THEN snapshotIndex[i] ELSE logs[i][pos - 1].Index
            /\ b.PrevLogTerm = IF pos <= 1 THEN snapshotTerm[i] ELSE logs[i][pos - 1].Term
        BY Zenon, <4>2
      <4> HIDE DEF pos, n
      <4>4. QED
        BY Zenon, <2>1, <4>3
    <3> HIDE DEF b, pos, n
    <3>3. b.PrevLogIndex = n - 1 /\ (n > 1 => b.PrevLogTerm = logs[i][n - 1].Term)
      BY <1>1, <2>1, <3>1, <3>2
    <3>4. /\ Len(SubSeq(logs[i], n, Len(logs[i]))) = Len(logs[i]) - (n - 1)
          /\ \A k \in 1 .. Len(logs[i]) - (n - 1) : SubSeq(logs[i], n, Len(logs[i]))[k] = logs[i][(n - 1) + k]
      BY <1>1, <3>1, Slices
    <3>5. /\ Len(b.Entries) = Len(logs[i]) - (n - 1)
          /\ \A k \in 1 .. Len(b.Entries) : b.Entries[k] = logs[i][(n - 1) + k]
      BY Zenon, <3>2, <3>4
    <3>6. SentFrom(b, logs[i]) /\ b.PrevLogIndex + Len(b.Entries) = Len(logs[i])
      BY <1>1, <2>1, <3>3, <3>5 DEF SentFrom
    <3>7. QED
      BY ZenonT(30), <3>6 DEF b
  <2>4. QED
    BY SMTT(30), <1>1, <2>1, <2>2, <2>3
<1>5. QED
  BY Zenon, <1>2, <1>3, <1>4

\* matchIndex follows a report of the leader's own term.
LEMMA SucceededSteady ==
  ASSUME ElectionInv, TypeOK', NEW canon, NEW i \in Server, NEW m \in aeReplies, AppendSucceeded(i, m)
  PROVE  SteadyStep(canon)
<1>1. TypeOK /\ NoVote
  BY Zenon, ReplySteps DEF ElectionInv
<1>2. /\ UNCHANGED <<logs, aeArgs, aeReplies, rvReplies, status, currentTerm, ballots>> /\ m.Success
      /\ m.reqTerm = currentTerm[i]
  BY Zenon DEF AppendSucceeded, Answers, voteNet, appendNet, electionVars
<1>3. \A j \in Server : TermStep(j)
  BY Zenon, <1>1, <1>2, NoVoteTerms
<1> DEFINE last  == m.PrevLogIndex + m.NumEntries
           moved == m.NumEntries # 0 /\ last > matchIndex[i][m.src]
           match == IF moved THEN [matchIndex[i] EXCEPT ![m.src] = last] ELSE matchIndex[i]
<1>4. matchIndex' = [matchIndex EXCEPT ![i] = match]
  BY Zenon DEF AppendSucceeded
<1>5. matchIndex \in [Server -> [Server -> Nat]] /\ m.src \in Server
  BY Zenon, <1>1, AppendReplyFields DEF TypeOK
<1>6. ASSUME NEW a \in Server, NEW b \in Server
      PROVE  matchIndex'[a][b] = matchIndex[a][b] \/ (a = i /\ b = m.src /\ matchIndex'[a][b] = last)
  <2>1. matchIndex'[a] = IF a = i THEN match ELSE matchIndex[a]
    BY Zenon, <1>4, <1>5
  <2>2. match[b] = matchIndex[i][b] \/ (b = m.src /\ match[b] = last)
    <3> HIDE DEF last, moved
    <3>1. matchIndex[i] \in [Server -> Nat]
      BY Zenon, <1>5
    <3>2. match = matchIndex[i] \/ match = [matchIndex[i] EXCEPT ![m.src] = last]
      BY Zenon
    <3> HIDE DEF match
    <3>3. QED
      BY Zenon, <1>5, <3>1, <3>2
  <2> HIDE DEF last, moved, match
  <2>3. QED
    BY Zenon, <2>1, <2>2
<1>7. Reported(i, m.src, last)
  BY Zenon, <1>2 DEF Reported
<1> HIDE DEF last, match, moved
<1>8. \A a, b \in Server : matchIndex'[a][b] = matchIndex[a][b] \/ Reported(a, b, matchIndex'[a][b])
  BY Zenon, <1>6, <1>7
<1>9. QED
  BY Zenon, <1>2, <1>3, <1>8 DEF SteadyStep

\* What handleAppendEntries has checked when it starts on the entries: the log agrees with
\* the leader's up to PrevLogIndex, so AcceptedLog applies.
LEMMA AppendFits ==
  ASSUME Background, TypeOK, NoSnapshots, NEW canon \in Canons, LogInvOf(canon), NEW i \in Server, NEW m \in aeArgs,
         ~PrevMissing(i, m), ~PrevConflicts(i, m),
         NEW n \in 0 .. Len(Extension(Truncate(logs[i], 0, m.Entries), 0, m.Entries))
  PROVE  LET c    == canon[m.Term]
             kept == Truncate(logs[i], 0, m.Entries)
             ext  == Extension(kept, 0, m.Entries)
             new  == kept \o SubSeq(ext, 1, n)
         IN /\ Spliced(logs[i], c, kept) /\ Spliced(logs[i], c, new)
            /\ n = Len(ext) => new = kept \o ext /\ Agree(new, c, m.PrevLogIndex + Len(m.Entries))
<1> DEFINE c == canon[m.Term]
           prev == m.PrevLogIndex
<1>1. m.Term \in Nat /\ prev \in Nat /\ m.Entries \in Seq(Entry) /\ Len(m.Entries) \in Nat
  BY Zenon, AppendFields
<1>2. c \in Seq(Entry) /\ Len(c) \in Nat /\ logs[i] \in Seq(Entry) /\ Len(logs[i]) \in Nat
  BY Zenon, <1>1, LogEntries DEF Canons, TypeOK
<1>3. SentFrom(m, c)
  BY Zenon DEF LogInvOf, CallsFromLeaders, SentFrom
<1>4. Backed(c, canon) /\ Backed(logs[i], canon) /\ Consistent(canon) /\ \A k \in 1 .. Len(c) : c[k].Index = k
  BY Zenon, <1>1 DEF LogInvOf, LogsBacked, Consistent
<1>5. LogEnd(i) = Len(logs[i]) /\ snapshotIndex[i] = 0
  BY Zenon, LogNumbered
<1>6. prev <= Len(logs[i]) /\ (prev > 0 => logs[i][prev].Term = m.PrevLogTerm)
  BY <1>1, <1>2, <1>5 DEF PrevMissing, PrevConflicts
<1>7. prev + Len(m.Entries) <= Len(c) /\ \A k \in 1 .. Len(m.Entries) : m.Entries[k] = c[prev + k]
  BY Zenon, <1>3 DEF SentFrom
<1>8. prev > 0 => c[prev].Term = m.PrevLogTerm
  BY Zenon, <1>3 DEF SentFrom
<1>9. \A k \in 1 .. Len(logs[i]) : k <= Len(c) /\ logs[i][k].Term = c[k].Term => Agree(logs[i], c, k)
  BY <1>2, <1>4, BackedMatches
<1>10. Agree(logs[i], c, prev)
  <2>1. CASE prev = 0
    BY <1>2, <2>1 DEF Agree
  <2>2. CASE prev > 0
    <3>1. prev \in 1 .. Len(logs[i]) /\ prev <= Len(c)
      BY <1>1, <1>2, <1>6, <1>7, <2>2
    <3>2. logs[i][prev].Term = c[prev].Term
      BY Zenon, <1>6, <1>8, <2>2
    <3>3. QED
      BY Zenon, <1>9, <3>1, <3>2
  <2>3. QED
    BY <1>1, <2>1, <2>2
<1>11. QED
  BY Zenon, <1>1, <1>2, <1>4, <1>6, <1>7, <1>9, <1>10, AcceptedLog

\* handleAppendEntries takes entries of the leader's log, to the end or up to a crash.
LEMMA AcceptSteady ==
  ASSUME Background, ElectionInv, TypeOK', NoSnapshots, NEW canon \in Canons, LogInvOf(canon),
         NEW i \in Server, NEW m \in aeArgs,
         AcceptAppend(i, m) \/ \E n \in 0 .. Len(m.Entries) : CrashInAppend(i, m, n)
  PROVE  /\ SteadyStep(canon)
         /\ currentTerm'[i] = m.Term /\ \A j \in Server \ {i} : logs'[j] = logs[j]
         /\ AcceptAppend(i, m) => Agree(logs'[i], canon[m.Term], m.PrevLogIndex + Len(m.Entries))
<1> DEFINE kept == Truncate(logs[i], 0, m.Entries)
           ext  == Extension(kept, 0, m.Entries)
<1>1. /\ TypeOK /\ DOMAIN currentTerm = Server /\ DOMAIN logs = Server /\ DOMAIN status = Server
      /\ DOMAIN matchIndex = Server /\ snapshotIndex[i] = 0 /\ m.Term \in Nat
      /\ kept \in Seq(Entry) /\ ext \in Seq(Entry) /\ Len(ext) \in Nat
  <2>1. /\ TypeOK /\ DOMAIN currentTerm = Server /\ DOMAIN logs = Server /\ DOMAIN status = Server
        /\ DOMAIN matchIndex = Server /\ snapshotIndex[i] = 0 /\ logs[i] \in Seq(Entry)
    BY Zenon DEF ElectionInv, TypeOK, NoSnapshots
  <2>2. m.Term \in Nat /\ m.Entries \in Seq(Entry)
    BY Zenon, <2>1, AppendFields
  <2>3. QED
    BY Zenon, <2>1, <2>2, TruncateIsSeq, ExtensionIsSeq, LenProperties
<1>2. NoVote /\ ballots' = ballots
  BY Zenon, AppendSteps, CrashSteps DEF NoVote
<1>3. ASSUME NEW n \in 0 .. Len(ext), ~PrevMissing(i, m), ~PrevConflicts(i, m)
      PROVE  /\ Spliced(logs[i], canon[m.Term], kept \o SubSeq(ext, 1, n))
             /\ n = Len(ext) => /\ kept \o SubSeq(ext, 1, n) = kept \o ext
                               /\ Agree(kept \o ext, canon[m.Term], m.PrevLogIndex + Len(m.Entries))
  <2>1. LET c    == canon[m.Term]
            k    == Truncate(logs[i], 0, m.Entries)
            e    == Extension(k, 0, m.Entries)
            new  == k \o SubSeq(e, 1, n)
        IN /\ Spliced(logs[i], c, k) /\ Spliced(logs[i], c, new)
           /\ n = Len(e) => new = k \o e /\ Agree(new, c, m.PrevLogIndex + Len(m.Entries))
    BY Zenon, <1>1, <1>3, AppendFits
  <2>2. QED
    BY Zenon, <2>1
<1>4. CASE AcceptAppend(i, m)
  <2>1. /\ ~PrevMissing(i, m) /\ ~PrevConflicts(i, m) /\ m.Term >= currentTerm[i]
        /\ logs' = [logs EXCEPT ![i] = kept \o ext]
        /\ currentTerm' = [currentTerm EXCEPT ![i] = m.Term]
        /\ status' = [status EXCEPT ![i] = StatusAfterAppend(i, m)]
        /\ aeReplies' = aeReplies \cup {AppendAnswer(i, m)}
        /\ UNCHANGED <<aeArgs, matchIndex, rvReplies>>
    BY Zenon, <1>1, <1>4 DEF AcceptAppend, FollowTerm, ReplyAppend, voteNet, leaderVars
  <2> HIDE DEF kept, ext
  <2>2. /\ Spliced(logs[i], canon[m.Term], kept \o ext)
        /\ Agree(kept \o ext, canon[m.Term], m.PrevLogIndex + Len(m.Entries))
    <3>1. Len(ext) \in 0 .. Len(ext)
      BY <1>1
    <3>2. QED
      BY Zenon, <1>3, <2>1, <3>1
  <2>3. /\ logs'[i] = kept \o ext /\ currentTerm'[i] = m.Term /\ status'[i] = StatusAfterAppend(i, m)
        /\ \A j \in Server \ {i} : logs'[j] = logs[j]
    BY Zenon, <1>1, <2>1
  <2>4. status'[i] # "CANDIDATE"
    BY Zenon, <2>3 DEF StatusAfterAppend
  <2>5. \A j \in Server : TermStep(j)
    BY Zenon, <1>1, <1>2, <2>3, <2>4, NoVoteTerms
  <2> DEFINE r == AppendAnswer(i, m)
  <2>6. /\ r.src = i /\ r.reqTerm = m.Term /\ r.PrevLogIndex = m.PrevLogIndex /\ r.NumEntries = Len(m.Entries)
    BY Zenon DEF AppendAnswer
  <2>7. Elected(m.Term)
    BY Zenon DEF Elected
  <2> HIDE DEF r
  <2>8. \A q \in aeReplies' \ aeReplies :
          /\ q.reqTerm = currentTerm'[q.src] /\ Elected(q.reqTerm)
          /\ Agree(logs'[q.src], canon[q.reqTerm], q.PrevLogIndex + q.NumEntries)
    BY Zenon, <2>1, <2>2, <2>3, <2>6, <2>7 DEF r
  <2>9. QED
    BY Zenon, <1>2, <2>1, <2>2, <2>3, <2>5, <2>7, <2>8 DEF SteadyStep
<1>5. ASSUME NEW n \in 0 .. Len(m.Entries), CrashInAppend(i, m, n)
      PROVE  /\ SteadyStep(canon) /\ currentTerm'[i] = m.Term /\ \A j \in Server \ {i} : logs'[j] = logs[j]
             /\ ~AcceptAppend(i, m)
  <2> DEFINE d == Persisted(i, m.Term, VoteAfter(i, m.Term), kept \o SubSeq(ext, 1, n))
  <2>1. ~PrevMissing(i, m) /\ ~PrevConflicts(i, m) /\ n < Len(ext) /\ Boot(i, d)
    BY Zenon, <1>1, <1>5 DEF CrashInAppend
  <2>2. d.Logs = kept \o SubSeq(ext, 1, n) /\ d.CurrentTerm = m.Term
    BY Zenon DEF Persisted
  <2> HIDE DEF kept, ext, d
  <2>3. /\ logs' = [logs EXCEPT ![i] = d.Logs] /\ currentTerm' = [currentTerm EXCEPT ![i] = d.CurrentTerm]
        /\ status' = [status EXCEPT ![i] = "FOLLOWER"] /\ restarts' = [restarts EXCEPT ![i] = @ + 1]
        /\ matchIndex' = [matchIndex EXCEPT ![i] = [j \in Server |-> 0]]
        /\ UNCHANGED <<aeArgs, aeReplies, rvReplies>>
    BY Zenon, <2>1 DEF Boot, appendNet
  <2>4. /\ logs'[i] = kept \o SubSeq(ext, 1, n) /\ currentTerm'[i] = m.Term /\ status'[i] = "FOLLOWER"
        /\ \A j \in Server \ {i} : logs'[j] = logs[j] /\ matchIndex'[j] = matchIndex[j]
    BY Zenon, <1>1, <2>2, <2>3
  <2>5. Spliced(logs[i], canon[m.Term], logs'[i])
    <3>1. n \in 0 .. Len(ext)
      BY <1>1, <2>1
    <3>2. QED
      BY Zenon, <1>3, <2>1, <2>4, <3>1
  <2>6. \A j \in Server : TermStep(j)
    BY Zenon, <1>1, <1>2, <2>4, NoVoteTerms
  <2>7. ~AcceptAppend(i, m)
    <3>1. restarts \in [Server -> Nat]
      BY Zenon, <1>1 DEF TypeOK
    <3>2. restarts' # restarts
      BY <2>3, <3>1
    <3>3. QED
      BY Zenon, <3>2 DEF AcceptAppend
  <2>8. Elected(m.Term)
    BY Zenon DEF Elected
  <2>9. QED
    BY Zenon, <1>2, <2>3, <2>4, <2>5, <2>6, <2>7, <2>8 DEF SteadyStep
<1>6. QED
  BY Zenon, <1>4, <1>5

\* Only one peer has the votes of a majority in a term.
LEMMA OneCaller ==
  ASSUME Background, ElectionInv, NEW c \in Server, NEW d \in Server, NEW t,
         Majority(Cardinality(VotersIn(c, t))), Majority(Cardinality(VotersIn(d, t)))
  PROVE  c = d
<1>1. VotersIn(c, t) \in SUBSET Server /\ VotersIn(d, t) \in SUBSET Server
  BY Zenon DEF VotersIn
<1>2. VotersIn(c, t) \cap VotersIn(d, t) # {}
  BY Zenon, <1>1, MajoritiesMeet
<1>3. PICK v \in Server : Vote(v, t, c) \in ballots /\ Vote(v, t, d) \in ballots
  BY Zenon, <1>2 DEF VotersIn
<1>4. Vote(v, t, c) = Vote(v, t, d)
  BY Zenon, <1>3 DEF ElectionInv, OneVotePerTerm, Vote
<1>5. QED
  BY Zenon, <1>4 DEF Vote

-----------------------------------------------------------------------------
(* Every step is of one of the two kinds *)

GrowthStep(canon) ==
  \E i \in Server : /\ GrowStep(i, currentTerm[i], logs'[i])
                    /\ GrownLog(logs'[i], currentTerm[i], canon)

LEMMA StepKinds ==
  Background /\ ElectionInv /\ ElectionInv' /\ NoSnapshots /\ [Next]_vars =>
    \A canon \in Canons : LogInvOf(canon) => SteadyStep(canon) \/ GrowthStep(canon)
<1> SUFFICES ASSUME Background
             PROVE  ElectionInv /\ ElectionInv' /\ NoSnapshots /\ [Next]_vars =>
                      \A canon \in Canons : LogInvOf(canon) => SteadyStep(canon) \/ GrowthStep(canon)
  BY Zenon
<1>QuietIsSteady.
  ASSUME QuietStep, TypeOK, TypeOK', NEW canon
  PROVE  SteadyStep(canon)
  <2> USE <1>QuietIsSteady
  <2>1. \A j \in Server : TermStep(j)
    BY Zenon, NoVoteTerms DEF QuietStep
  <2>2. ballots \subseteq ballots'
    BY Zenon DEF QuietStep, NoVote
  <2>3. QED
    BY Zenon, <2>1, <2>2 DEF SteadyStep, QuietStep
\* A peer that starts again from its stored log.
<1>BootQuiet.
  ASSUME NoVote, TypeOK, NEW i \in Server, NEW d, Boot(i, d), d.Logs = logs[i]
  PROVE  QuietStep
  <2> USE <1>BootQuiet
  <2>1. /\ logs' = [logs EXCEPT ![i] = d.Logs] /\ matchIndex' = [matchIndex EXCEPT ![i] = [j \in Server |-> 0]]
        /\ status' = [status EXCEPT ![i] = "FOLLOWER"] /\ UNCHANGED <<aeArgs, aeReplies, rvReplies>>
    BY Zenon DEF Boot, appendNet
  <2>2. logs \in [Server -> Seq(Entry)] /\ DOMAIN matchIndex = Server /\ DOMAIN status = Server
    BY Zenon DEF TypeOK
  <2>3. logs' = logs /\ status'[i] = "FOLLOWER" /\ \A j \in Server \ {i} : matchIndex'[j] = matchIndex[j]
    BY Zenon, <2>1, <2>2
  <2>4. QED
    BY Zenon, <2>1, <2>3 DEF QuietStep
<1>CrashQuiet.
  ASSUME ElectionInv, NoSnapshots, NEW i \in Server,
         Restart(i) \/ \E m \in rvArgs \cup aeArgs \cup isArgs : CrashAfterTerm(i, m)
  PROVE  QuietStep
  <2> USE <1>CrashQuiet
  <2>1. NoVote /\ TypeOK
    BY Zenon, CrashSteps DEF ElectionInv
  <2>2. CASE Restart(i)
    <3>1. persister[i].Logs = logs[i]
      BY Zenon DEF NoSnapshots
    <3>2. QED
      BY Zenon, <2>1, <2>2, <3>1, <1>BootQuiet DEF Restart
  <2>3. ASSUME NEW m, CrashAfterTerm(i, m) PROVE QuietStep
    <3>1. Persisted(i, m.Term, Nil, logs[i]).Logs = logs[i]
      BY Zenon DEF Persisted
    <3>2. QED
      BY Zenon, <2>1, <2>3, <3>1, <1>BootQuiet DEF CrashAfterTerm
  <2>4. QED
    BY Zenon, <2>2, <2>3
\* Handlers that send nothing to other logs: the service's, refusals, later terms seen, and
\* rejections.
<1>ReplyQuiet.
  ASSUME ElectionInv, NEW i \in Server,
         \/ applyToClient(i)
         \/ \E m \in rvReplies : VoteOfHigherTerm(i, m)
         \/ \E m \in aeReplies : AppendReplyOfHigherTerm(i, m) \/ AppendFailed(i, m)
         \/ \E m \in isReplies : InstallReplyOfHigherTerm(i, m)
         \/ \E m \in isArgs : RefuseInstall(i, m) \/ ReceiveNilSnapshot(i, m)
  PROVE  QuietStep
  <2> USE <1>ReplyQuiet
  <2>1. NoVote
    BY Zenon, TimerSteps, ReplySteps, InstallSteps
  <2>2. UNCHANGED <<logs, matchIndex>>
    BY Zenon DEF applyToClient, VoteOfHigherTerm, AppendReplyOfHigherTerm, AppendFailed, InstallReplyOfHigherTerm,
           RefuseInstall, ReceiveNilSnapshot, SaveReceived, logVars, leaderVars
  <2>3. UNCHANGED <<aeArgs, aeReplies>>
    BY Zenon DEF applyToClient, VoteOfHigherTerm, AppendReplyOfHigherTerm, AppendFailed, InstallReplyOfHigherTerm,
           RefuseInstall, ReceiveNilSnapshot, SaveReceived, appendNet
  <2>4. rvReplies' \subseteq rvReplies
    BY Zenon DEF applyToClient, VoteOfHigherTerm, AppendReplyOfHigherTerm, AppendFailed, InstallReplyOfHigherTerm,
           RefuseInstall, ReceiveNilSnapshot, SaveReceived, voteNet
  <2>5. QED
    BY Zenon, <2>1, <2>2, <2>3, <2>4 DEF QuietStep
\* A refused append is answered without success.
<1>RefusalQuiet.
  ASSUME ElectionInv, NEW i \in Server, NEW m \in aeArgs, RefuseStaleAppend(i, m) \/ RejectAppend(i, m)
  PROVE  QuietStep
  <2> USE <1>RefusalQuiet
  <2>1. NoVote
    BY Zenon, AppendSteps
  <2>2. UNCHANGED <<logs, matchIndex, aeArgs, rvReplies>>
    BY Zenon DEF RefuseStaleAppend, RejectAppend, logVars, leaderVars, voteNet
  <2>3. aeReplies' = aeReplies \cup {AppendAnswer(i, m)}
    BY Zenon DEF RefuseStaleAppend, RejectAppend, ReplyAppend
  <2>4. ~AppendAnswer(i, m).Success
    BY Zenon DEF RefuseStaleAppend, RejectAppend, AppendAnswer
  <2>5. QED
    BY Zenon, <2>1, <2>2, <2>3, <2>4 DEF QuietStep
\* A vote that is not granted.
<1>NoGrantQuiet.
  ASSUME ElectionInv, NEW i \in Server, NEW m \in rvArgs, m.dst = i, DeclineVote(i, m) \/ RefuseVote(i, m)
  PROVE  QuietStep
  <2> USE <1>NoGrantQuiet
  <2>1. NoVote
    BY Zenon, NoGrantSteps
  <2>2. UNCHANGED <<logs, matchIndex, aeArgs, aeReplies>>
    BY Zenon DEF DeclineVote, RefuseVote, CastVote, logVars, leaderVars, appendNet
  <2>3. PICK term : ReplyVote(i, m, term, FALSE)
    BY Zenon DEF DeclineVote, RefuseVote
  <2>4. m.src # i
    BY Zenon DEF ElectionInv, CallUnanswered
  <2>5. \A r \in rvReplies' \ rvReplies : r.src = i /\ r.dst = m.src
    BY <2>3 DEF ReplyVote
  <2>6. QED
    BY Zenon, <2>1, <2>2, <2>4, <2>5 DEF QuietStep
\* Elections change terms, votes and roles only.
<1>VoteSteady.
  ASSUME ElectionInv, NEW canon, NEW i \in Server,
         \/ startElection(i)
         \/ \E m \in rvArgs : m.dst = i /\ GrantVote(i, m)
         \/ \E m \in rvReplies : CountVote(i, m) /\ status' = status
  PROVE  SteadyStep(canon)
  <2> USE <1>VoteSteady
  <2>1. /\ currentTerm \in [Server -> Nat] /\ status \in [Server -> {"FOLLOWER", "CANDIDATE", "LEADER"}]
    BY Zenon DEF ElectionInv, TypeOK
  <2>2. UNCHANGED <<logs, aeReplies>> /\ ballots \subseteq ballots'
    BY Zenon DEF startElection, GrantVote, CastVote, CountVote, logVars, appendNet
  <2>3. CASE startElection(i)
    <3>1. /\ currentTerm' = [currentTerm EXCEPT ![i] = currentTerm[i] + 1]
          /\ status' = [status EXCEPT ![i] = "CANDIDATE"] /\ UNCHANGED <<aeArgs, matchIndex, rvReplies>>
      BY Zenon, <2>3 DEF startElection, appendNet, leaderVars
    <3>2. \A j \in Server : TermStep(j)
      BY <2>1, <2>2, <3>1 DEF TermStep
    <3>3. QED
      BY Zenon, <2>2, <3>1, <3>2 DEF SteadyStep
  <2>4. ASSUME NEW m \in rvArgs, m.dst = i, GrantVote(i, m) PROVE SteadyStep(canon)
    <3> DEFINE s == IF m.Term > currentTerm[i] THEN "FOLLOWER" ELSE status[i]
    <3>1. /\ m.Term >= currentTerm[i] /\ currentTerm' = [currentTerm EXCEPT ![i] = m.Term]
          /\ status' = [status EXCEPT ![i] = s] /\ UNCHANGED <<aeArgs, matchIndex>>
          /\ ReplyVote(i, m, m.Term, TRUE)
      BY Zenon, <2>4 DEF GrantVote, CastVote, FollowTerm, appendNet, leaderVars
    <3>2. m.Term \in Nat /\ m.src # i
      BY Zenon, <2>4, VoteFields DEF ElectionInv, CallUnanswered
    <3>3. \A j \in Server : TermStep(j)
      BY <2>1, <2>2, <3>1, <3>2 DEF TermStep
    <3>4. \A r \in rvReplies' \ rvReplies : r.src = i /\ r.dst = m.src
      BY <3>1 DEF ReplyVote
    <3>5. QED
      BY Zenon, <2>2, <3>1, <3>2, <3>3, <3>4 DEF SteadyStep
  <2>5. ASSUME NEW m \in rvReplies, CountVote(i, m), status' = status PROVE SteadyStep(canon)
    <3> DEFINE granted == grantedVotes[i] + (IF m.VoteGranted THEN 1 ELSE 0)
               won == Majority(granted)
    <3>1. /\ UNCHANGED currentTerm /\ rvReplies' \subseteq rvReplies /\ status[i] = "CANDIDATE"
          /\ status' = [status EXCEPT ![i] = IF won THEN "LEADER" ELSE @]
          /\ ~won => aeArgs' = aeArgs /\ matchIndex' = matchIndex
      BY Zenon, <2>5 DEF CountVote, Votes
    <3>2. UNCHANGED <<aeArgs, matchIndex>>
      BY Zenon, <2>1, <2>5, <3>1
    <3>3. \A j \in Server : TermStep(j)
      BY <2>1, <2>2, <2>5, <3>1 DEF TermStep
    <3>4. QED
      BY Zenon, <2>2, <3>1, <3>2, <3>3 DEF SteadyStep
  <2>6. QED
    BY Zenon, <2>3, <2>4, <2>5
\* The leader's timers send parts of its log.
<1>SendSteady.
  ASSUME ElectionInv, TypeOK', NoSnapshots, NEW canon \in Canons, LogInvOf(canon), NEW i \in Server,
         sendHeartBeat(i) \/ broadcastAppendEntries(i)
  PROVE  SteadyStep(canon)
  <2> USE <1>SendSteady
  <2>1. TypeOK /\ NoVote
    BY Zenon, TimerSteps DEF ElectionInv
  <2>2. UNCHANGED <<logs, aeReplies, matchIndex, rvReplies, status, currentTerm, ballots>> /\ status[i] = "LEADER"
    BY Zenon DEF sendHeartBeat, broadcastAppendEntries, logVars, leaderVars, voteNet, electionVars
  <2>3. \A j \in Server : TermStep(j)
    BY Zenon, <2>1, <2>2, NoVoteTerms
  <2>4. CASE sendHeartBeat(i)
    <3>1. aeArgs' = aeArgs \cup {Heartbeat(i, j, currentTerm[i]) : j \in Server \ {i}}
      BY Zenon, <2>4 DEF sendHeartBeat, Heartbeats, Peers
    <3>2. \A j \in Server \ {i} : SentFrom(Heartbeat(i, j, currentTerm[i]), logs[i])
      BY Zenon, <2>1, SentCalls
    <3>3. \A j \in Server \ {i} : Heartbeat(i, j, currentTerm[i]).src = i /\ Heartbeat(i, j, currentTerm[i]).Term = currentTerm[i]
      BY Zenon DEF Heartbeat
    <3>4. \A m \in aeArgs' \ aeArgs : m.src = i /\ m.Term = currentTerm[i] /\ SentFrom(m, logs[i])
      BY Zenon, <3>1, <3>2, <3>3
    <3>5. QED
      BY Zenon, <2>2, <2>3, <3>1, <3>4 DEF SteadyStep
  <2>5. CASE broadcastAppendEntries(i)
    <3>1. aeArgs \subseteq aeArgs' /\ \A m \in aeArgs' \ aeArgs : \E j \in Server : nextIndex[i][j] - snapshotIndex[i] >= 1 /\ m = Broadcast(i, j)
      BY Zenon, <2>5 DEF broadcastAppendEntries, Peers
    <3>2. \A j \in Server : nextIndex[i][j] - snapshotIndex[i] >= 1 => nextIndex[i][j] >= 1
      <4>1. nextIndex \in [Server -> [Server -> Nat]] /\ snapshotIndex[i] = 0
        BY ZenonT(30), <2>1 DEF NoSnapshots, TypeOK
      <4>2. QED
        BY <4>1
    <3>3. \A m \in aeArgs' \ aeArgs : m.src = i /\ m.Term = currentTerm[i] /\ SentFrom(m, logs[i])
      BY <2>1, <3>1, <3>2, SentCalls
    <3>4. QED
      BY Zenon, <2>2, <2>3, <3>1, <3>3 DEF SteadyStep
  <2>6. QED
    BY Zenon, <2>4, <2>5
\* handleCommand adds an entry of the leader's term.
<1>CommandGrows.
  ASSUME ElectionInv, NoSnapshots, NEW canon \in Canons, LogInvOf(canon),
         NEW i \in Server, NEW c \in Command, handleCommand(i, c)
  PROVE  LET new == Append(logs[i], [Term |-> currentTerm[i], Index |-> Len(logs[i]) + 1, Command |-> c])
         IN  GrowStep(i, currentTerm[i], new) /\ GrownLog(new, currentTerm[i], canon)
  <2> USE <1>CommandGrows
  <2> DEFINE t == currentTerm[i]
             l == Len(logs[i])
             e == [Term |-> t, Index |-> l + 1, Command |-> c]
             new == Append(logs[i], e)
  <2>1. /\ TypeOK /\ t \in Nat /\ logs[i] \in Seq(Entry) /\ l \in Nat /\ DOMAIN logs = Server
        /\ LogEnd(i) = l
    <3>1. TypeOK /\ t \in Nat /\ DOMAIN logs = Server
      BY Zenon DEF ElectionInv, TypeOK
    <3>2. QED
      BY Zenon, <3>1, LogNumbered
  <2>2. /\ status[i] = "LEADER" /\ logs' = [logs EXCEPT ![i] = new]
        /\ UNCHANGED <<status, currentTerm, ballots, rvReplies, aeArgs, aeReplies, matchIndex>>
    BY Zenon, <2>1 DEF handleCommand, electionVars, voteNet, appendNet, leaderVars
  <2>3. /\ logs[i] = canon[t] /\ \E m \in aeArgs : m.src = i /\ m.Term = t
    BY Zenon, <2>2 DEF LogInvOf, LeadersHold
  <2>4. t >= 1
    BY Zenon, <2>3 DEF LogInvOf, CallsFromLeaders
  <2>5. e \in Entry /\ e.Term = t /\ e.Index = l + 1
    BY SMTT(30), <2>1 DEF Entry
  <2> HIDE DEF e
  <2>6. /\ new \in Seq(Entry) /\ Len(new) = l + 1 /\ new[l + 1] = e /\ \A k \in 1 .. l : new[k] = logs[i][k]
    BY <2>1, <2>5, AppendProperties
  <2> HIDE DEF new
  <2>7. Agree(new, canon[t], Len(canon[t]))
    BY <2>1, <2>3, <2>6 DEF Agree
  <2>8. ASSUME NEW k \in 1 .. Len(new)
        PROVE  /\ new[k].Index = k /\ new[k].Term \in 1 .. t
               /\ new[k].Term # t => Agree(new, canon[new[k].Term], k)
    <3>1. CASE k = l + 1
      BY <2>1, <2>4, <2>5, <2>6, <3>1
    <3>2. CASE k # l + 1
      <4>1. k \in 1 .. l /\ k \in Nat /\ new[k] = logs[i][k]
        BY SMTT(30), <2>1, <2>6, <3>2
      <4>2. logs[i][k].Index = k /\ logs[i][k].Term \in 1 .. t /\ Agree(logs[i], canon[logs[i][k].Term], k)
        BY <2>1, <2>3, <4>1 DEF LogInvOf, Consistent, Backed
      <4>3. Agree(new, logs[i], k)
        BY <2>1, <2>6, <4>1 DEF Agree
      <4>4. QED
        BY Zenon, <4>1, <4>2, <4>3, AgreeTrans
    <3>3. QED
      BY Zenon, <3>1, <3>2
  <2>9. GrownLog(new, t, canon)
    BY Zenon, <2>6, <2>7, <2>8 DEF GrownLog
  <2>10. GrowStep(i, t, new)
    BY Zenon, <2>1, <2>2, <2>3, <2>4 DEF GrowStep
  <2>11. QED
    BY Zenon, <2>9, <2>10 DEF new, e
\* A candidate wins only in a term whose leader has not spoken yet.
<1>WinIsFirst.
  ASSUME ElectionInv, ElectionInv', NEW canon, LogInvOf(canon), NEW i \in Server,
         status[i] = "CANDIDATE", status'[i] = "LEADER", UNCHANGED <<currentTerm, ballots>>
  PROVE  ~Elected(currentTerm[i])
  <2> USE <1>WinIsFirst
  <2> SUFFICES ASSUME NEW m \in aeArgs, m.Term = currentTerm[i] PROVE FALSE
    BY Zenon DEF Elected
  <2>1. m.src \in Server
    BY Zenon, AppendFields DEF ElectionInv
  <2>2. Majority(Cardinality(VotersIn(m.src, m.Term))) /\ (m.Term = currentTerm[m.src] => status[m.src] # "CANDIDATE")
    BY Zenon DEF LogInvOf, CallsFromLeaders
  <2>3. Majority(Cardinality(Voters(i)')) /\ Voters(i)' = VotersIn(i, m.Term)
    BY Zenon DEF ElectionInv, LeaderElected, Voters, VotersIn, Vote
  <2>4. m.src = i
    BY Zenon, <2>1, <2>2, <2>3, OneCaller
  <2>5. QED
    BY Zenon, <2>2, <2>4
<1>WinGrows.
  ASSUME ElectionInv, ElectionInv', NoSnapshots, NEW canon \in Canons, LogInvOf(canon),
         NEW i \in Server, NEW m \in rvReplies, m.dst = i, CountVote(i, m), status' # status
  PROVE  /\ GrowStep(i, currentTerm[i], logs[i]) /\ GrownLog(logs[i], currentTerm[i], canon)
         /\ status[i] = "CANDIDATE" /\ ~Elected(currentTerm[i]) /\ canon[currentTerm[i]] = <<>>
         /\ aeArgs' = aeArgs \cup Heartbeats(i)
  <2> USE <1>WinGrows
  <2> DEFINE t == currentTerm[i]
             granted == grantedVotes[i] + (IF m.VoteGranted THEN 1 ELSE 0)
             won == Majority(granted)
  <2>1. /\ TypeOK /\ t \in Nat /\ status \in [Server -> {"FOLLOWER", "CANDIDATE", "LEADER"}]
        /\ matchIndex \in [Server -> [Server -> Nat]]
    BY Zenon DEF ElectionInv, TypeOK
  <2>2. /\ status[i] = "CANDIDATE" /\ status' = [status EXCEPT ![i] = IF won THEN "LEADER" ELSE @]
        /\ won => /\ matchIndex' = [matchIndex EXCEPT ![i] = [j \in Server |-> 0]]
                  /\ aeArgs' = aeArgs \cup Heartbeats(i)
        /\ rvReplies' \subseteq rvReplies /\ UNCHANGED <<currentTerm, ballots, logs, aeReplies>>
    BY Zenon DEF CountVote, Votes, logVars
  <2>3. won
    BY Zenon, <2>1, <2>2
  <2>4. /\ status'[i] = "LEADER" /\ \A j \in Server \ {i} : status'[j] = status[j] /\ matchIndex'[j] = matchIndex[j]
        /\ \A j \in Server : matchIndex'[i][j] = 0
    BY <2>1, <2>2, <2>3
  <2>5. ~Elected(t) /\ canon[t] = <<>>
    <3>1. ~Elected(t)
      BY Zenon, <2>2, <2>4, <1>WinIsFirst
    <3>2. QED
      BY Zenon, <2>1, <3>1 DEF LogInvOf
  <2>6. /\ t >= 1 /\ \A k \in 1 .. Len(logs[i]) : logs[i][k].Term < t
    BY Zenon, <2>2 DEF LogInvOf, CandidatesBehind
  <2>7. /\ logs[i] \in Seq(Entry) /\ Len(logs[i]) \in Nat
        /\ \A k \in 1 .. Len(logs[i]) : logs[i][k].Index = k /\ logs[i][k].Term \in Nat /\ logs[i][k].Term >= 1
    BY ZenonT(30), <2>1, LogNumbered
  <2>8. GrownLog(logs[i], t, canon)
    <3>1. Agree(logs[i], canon[t], Len(canon[t]))
      BY <2>5, <2>7, EmptySeq DEF Agree
    <3>2. \A k \in 1 .. Len(logs[i]) : Agree(logs[i], canon[logs[i][k].Term], k)
      BY Zenon DEF LogInvOf, LogsBacked, Backed
    <3>3. QED
      BY SMTT(30), <2>1, <2>6, <2>7, <3>1, <3>2 DEF GrownLog
  <2>9. m.src \in Server \ {i}
    <3>1. m.src # i
      BY Zenon DEF LogInvOf, VotesTravel
    <3>2. m.src \in Server
      BY Zenon, <2>1, TypeGroups DEF VoteTypes, RequestVoteReply
    <3>3. QED
      BY Zenon, <3>1, <3>2
  <2>10. \A n \in Heartbeats(i) : n.src = i /\ n.Term = t /\ SentFrom(n, logs[i])
    <3>1. \A j \in Server : SentFrom(Heartbeat(i, j, t), logs[i])
      BY Zenon, <2>1, SentCalls
    <3>2. \A j \in Server : Heartbeat(i, j, t).src = i /\ Heartbeat(i, j, t).Term = t
      BY Zenon DEF Heartbeat
    <3>3. QED
      BY <3>1, <3>2 DEF Heartbeats, Peers
  <2>11. Heartbeat(i, m.src, t) \in Heartbeats(i)
    BY Zenon, <2>9 DEF Heartbeats, Peers
  <2>12. GrowStep(i, t, logs[i])
    BY Zenon, <2>2, <2>3, <2>4, <2>6, <2>10, <2>11 DEF GrowStep
  <2>13. QED
    BY Zenon, <2>2, <2>3, <2>5, <2>8, <2>12
\* Receiving a message takes, reports or grows.
<1>MessageKinds.
  ASSUME ElectionInv, ElectionInv', NoSnapshots, NEW canon \in Canons, LogInvOf(canon),
         \/ \E m \in rvArgs : ReceiveVoteRequest(m)
         \/ \E m \in rvReplies : ReceiveVote(m)
         \/ \E m \in aeArgs : ReceiveAppend(m)
         \/ \E m \in aeReplies : ReceiveAppendReply(m)
         \/ \E m \in isArgs : ReceiveInstall(m)
         \/ \E m \in isReplies : InstallReplyOfHigherTerm(m.dst, m)
  PROVE  SteadyStep(canon) \/ GrowthStep(canon)
  <2> USE <1>MessageKinds
  <2>1. TypeOK /\ TypeOK'
    BY Zenon DEF ElectionInv
  <2>2. QuietStep => SteadyStep(canon)
    BY Zenon, <2>1, <1>QuietIsSteady
  <2>3. ASSUME NEW m \in rvArgs, ReceiveVoteRequest(m) PROVE SteadyStep(canon)
    <3>1. m.dst \in Server
      BY Zenon, <2>1, VoteFields
    <3>2. CASE DeclineVote(m.dst, m) \/ RefuseVote(m.dst, m)
      BY Zenon, <2>2, <3>1, <3>2, <1>NoGrantQuiet
    <3>3. CASE GrantVote(m.dst, m)
      BY Zenon, <3>1, <3>3, <1>VoteSteady
    <3>4. CASE CrashAfterTerm(m.dst, m)
      <4>1. \E n \in rvArgs \cup aeArgs \cup isArgs : CrashAfterTerm(m.dst, n)
        BY Zenon, <3>4
      <4>2. QED
        BY Zenon, <2>2, <3>1, <4>1, <1>CrashQuiet
    <3>5. QED
      BY Zenon, <2>3, <3>2, <3>3, <3>4 DEF ReceiveVoteRequest
  <2>4. ASSUME NEW m \in rvReplies, ReceiveVote(m) PROVE SteadyStep(canon) \/ GrowthStep(canon)
    <3>1. m.dst \in Server
      BY Zenon, <2>1, TypeGroups DEF VoteTypes, RequestVoteReply
    <3>2. CASE VoteOfHigherTerm(m.dst, m)
      BY Zenon, <2>2, <3>1, <3>2, <1>ReplyQuiet
    <3>3. CASE CountVote(m.dst, m) /\ status' = status
      BY Zenon, <3>1, <3>3, <1>VoteSteady
    <3>4. CASE CountVote(m.dst, m) /\ status' # status
      <4>1. /\ GrowStep(m.dst, currentTerm[m.dst], logs[m.dst])
            /\ GrownLog(logs[m.dst], currentTerm[m.dst], canon)
        BY Zenon, <3>1, <3>4, <1>WinGrows
      <4>2. logs'[m.dst] = logs[m.dst]
        BY Zenon, <4>1 DEF GrowStep
      <4>3. QED
        BY Zenon, <3>1, <4>1, <4>2 DEF GrowthStep
    <3>5. QED
      BY Zenon, <2>4, <3>2, <3>3, <3>4 DEF ReceiveVote
  <2>5. ASSUME NEW m \in aeArgs, ReceiveAppend(m) PROVE SteadyStep(canon)
    <3>1. m.dst \in Server
      BY Zenon, <2>1, AppendFields
    <3>2. CASE RefuseStaleAppend(m.dst, m) \/ RejectAppend(m.dst, m)
      BY Zenon, <2>2, <3>1, <3>2, <1>RefusalQuiet
    <3>3. CASE AcceptAppend(m.dst, m) \/ \E n \in 0 .. Len(m.Entries) : CrashInAppend(m.dst, m, n)
      BY Zenon, <2>1, <3>1, <3>3, AcceptSteady
    <3>4. CASE CrashAfterTerm(m.dst, m)
      <4>1. \E n \in rvArgs \cup aeArgs \cup isArgs : CrashAfterTerm(m.dst, n)
        BY Zenon, <3>4
      <4>2. QED
        BY Zenon, <2>2, <3>1, <4>1, <1>CrashQuiet
    <3>5. QED
      BY Zenon, <2>5, <3>2, <3>3, <3>4 DEF ReceiveAppend
  <2>6. ASSUME NEW m \in aeReplies, ReceiveAppendReply(m) PROVE SteadyStep(canon)
    <3>1. m.dst \in Server
      BY Zenon, <2>1, AppendReplyFields
    <3>2. CASE AppendReplyOfHigherTerm(m.dst, m) \/ AppendFailed(m.dst, m)
      BY Zenon, <2>2, <3>1, <3>2, <1>ReplyQuiet
    <3>3. CASE AppendSucceeded(m.dst, m)
      BY Zenon, <2>1, <3>1, <3>3, SucceededSteady
    <3>4. QED
      BY Zenon, <2>6, <3>2, <3>3 DEF ReceiveAppendReply
  <2>7. ASSUME NEW m \in isArgs, ReceiveInstall(m) PROVE SteadyStep(canon)
    <3>1. m.dst \in Server /\ ~InstallSnapshot(m.dst, m)
      BY Zenon, <2>1, InstallFields DEF NoSnapshots, InstallSnapshot
    <3>2. CASE RefuseInstall(m.dst, m) \/ ReceiveNilSnapshot(m.dst, m)
      BY Zenon, <2>2, <3>1, <3>2, <1>ReplyQuiet
    <3>3. CASE CrashAfterTerm(m.dst, m)
      <4>1. \E n \in rvArgs \cup aeArgs \cup isArgs : CrashAfterTerm(m.dst, n)
        BY Zenon, <3>3
      <4>2. QED
        BY Zenon, <2>2, <3>1, <4>1, <1>CrashQuiet
    <3>4. QED
      BY Zenon, <2>7, <3>1, <3>2, <3>3 DEF ReceiveInstall
  <2>8. ASSUME NEW m \in isReplies, InstallReplyOfHigherTerm(m.dst, m) PROVE SteadyStep(canon)
    <3>1. m.dst \in Server
      BY Zenon, <2>1, TypeGroups DEF InstallTypes, InstallSnapshotReply
    <3>2. QED
      BY Zenon, <2>2, <2>8, <3>1, <1>ReplyQuiet
  <2>9. QED
    BY Zenon, <2>3, <2>4, <2>5, <2>6, <2>7, <2>8
<1> SUFFICES ASSUME ElectionInv, ElectionInv', NoSnapshots, [Next]_vars, NEW canon \in Canons, LogInvOf(canon)
             PROVE  SteadyStep(canon) \/ GrowthStep(canon)
  BY Zenon
<1>1. TypeOK /\ TypeOK'
  BY Zenon DEF ElectionInv
<1>2. QuietStep => SteadyStep(canon)
  BY Zenon, <1>1, <1>QuietIsSteady
<1>3. CASE UNCHANGED vars
  <2>1. UNCHANGED <<status, currentTerm, ballots, logs, aeArgs, aeReplies, matchIndex, rvReplies>>
    BY Zenon, <1>3 DEF vars, electionVars, logVars, leaderVars, voteNet, appendNet
  <2>2. \A j \in Server : currentTerm[j] \in Nat
    BY Zenon, <1>1 DEF TypeOK
  <2>3. \A j \in Server : TermStep(j)
    BY <2>1, <2>2 DEF TermStep
  <2>4. QED
    BY Zenon, <2>1, <2>3 DEF SteadyStep
<1>4. ASSUME NEW i \in Server, Timer(i) \/ ReceiveSnapshotRequest(i) \/ Restart(i) PROVE SteadyStep(canon)
  <2>1. ~ReceiveSnapshotRequest(i)
    BY Zenon DEF NoSnapshots, ReceiveSnapshotRequest
  <2>2. CASE startElection(i)
    BY Zenon, <2>2, <1>VoteSteady
  <2>3. CASE sendHeartBeat(i) \/ broadcastAppendEntries(i)
    BY Zenon, <1>1, <2>3, <1>SendSteady
  <2>4. CASE applyToClient(i)
    BY Zenon, <1>2, <2>4, <1>ReplyQuiet
  <2>5. CASE Restart(i)
    BY Zenon, <1>2, <2>5, <1>CrashQuiet
  <2>6. QED
    BY Zenon, <1>4, <2>1, <2>2, <2>3, <2>4, <2>5 DEF Timer
<1>5. ASSUME NEW i \in Server, NEW c \in Command, handleCommand(i, c) PROVE GrowthStep(canon)
  <2>1. PICK new : GrowStep(i, currentTerm[i], new) /\ GrownLog(new, currentTerm[i], canon)
    BY Zenon, <1>5, <1>CommandGrows
  <2>2. logs'[i] = new
    BY Zenon, <2>1 DEF GrowStep
  <2>3. QED
    BY Zenon, <2>1, <2>2 DEF GrowthStep
<1>6. QED
  BY Zenon, <1>3, <1>4, <1>5, <1>MessageKinds DEF Next

-----------------------------------------------------------------------------
(* The invariant and what it implies *)

LEMMA InitLog == Init => LogInv
<1> SUFFICES ASSUME Init PROVE LogInv
  BY Zenon
<1> DEFINE canon == [t \in Nat |-> <<>>]
<1>1. canon \in Canons /\ \A t \in Nat : canon[t] = <<>> /\ Len(canon[t]) = 0
  BY Zenon, EmptySeq DEF Canons
<1>2. /\ aeArgs = {} /\ aeReplies = {} /\ rvReplies = {}
      /\ \A i \in Server : status[i] = "FOLLOWER" /\ logs[i] = <<>> /\ Len(logs[i]) = 0
  BY Zenon DEF Init
<1> HIDE DEF canon
<1>3. Consistent(canon) /\ \A t \in Nat : canon[t] = <<>>
  BY <1>1 DEF Consistent, Backed
<1>4. LogsBacked(canon) /\ LeadersHold(canon) /\ CandidatesBehind
  BY <1>2 DEF LogsBacked, LeadersHold, CandidatesBehind, Backed
<1>5. CallsFromLeaders(canon) /\ RepliesKept(canon) /\ MatchReported /\ VotesTravel
  BY Zenon, <1>2 DEF CallsFromLeaders, RepliesKept, MatchReported, VotesTravel
<1>6. LogInvOf(canon)
  BY Zenon, <1>3, <1>4, <1>5 DEF LogInvOf
<1>7. QED
  BY Zenon, <1>1, <1>6 DEF LogInv

LEMMA NextLog ==
  ASSUME Background, ElectionInv, ElectionInv', NoSnapshots, LogInv, [Next]_vars
  PROVE  LogInv'
<1>1. PICK canon \in Canons : LogInvOf(canon)
  BY Zenon DEF LogInv
<1>2. CASE SteadyStep(canon)
  <2>1. LogInvOf(canon)'
    BY Zenon, <1>1, <1>2, SteadyKeeps DEF ElectionInv
  <2>2. QED
    BY Zenon, <2>1 DEF LogInv
<1>3. CASE GrowthStep(canon)
  <2>0. PICK i \in Server : /\ GrowStep(i, currentTerm[i], logs'[i])
                            /\ GrownLog(logs'[i], currentTerm[i], canon)
    BY Zenon, <1>3 DEF GrowthStep
  <2>1. PICK new : GrowStep(i, currentTerm[i], new) /\ GrownLog(new, currentTerm[i], canon)
    BY Zenon, <2>0
  <2>2. PICK t \in Nat : t = currentTerm[i]
    BY Zenon DEF ElectionInv, TypeOK
  <2>3. new \in Seq(Entry)
    BY Zenon, <2>1 DEF GrownLog
  <2>4. PICK grown \in Canons : grown = [canon EXCEPT ![t] = new]
    BY Zenon, <2>3 DEF Canons
  <2>5. LogInvOf(grown)'
    BY Zenon, <1>1, <2>1, <2>2, <2>4, GrowKeeps
  <2>6. QED
    BY Zenon, <2>5 DEF LogInv
<1>4. QED
  BY Zenon, <1>1, <1>2, <1>3, StepKinds

LEMMA InvIndexed ==
  ASSUME ElectionInv, NoSnapshots, LogInv
  PROVE  LogIndexed /\ CallIndexed
<1>1. PICK canon \in Canons : LogInvOf(canon)
  BY Zenon DEF LogInv
<1>2. TypeOK
  BY Zenon DEF ElectionInv
<1>3. LogIndexed
  <2> SUFFICES ASSUME NEW i \in Server, NEW k \in DOMAIN logs[i]
               PROVE  logs[i][k].Index = snapshotIndex[i] + k
    BY Zenon DEF LogIndexed
  <2>1. /\ \A n \in 1 .. Len(logs[i]) : logs[i][n].Index = n
        /\ logs[i] \in Seq(Entry) /\ Len(logs[i]) \in Nat /\ snapshotIndex[i] = 0
    BY Zenon, <1>1, <1>2, LogNumbered
  <2>2. QED
    BY <2>1, LenProperties
<1>4. CallIndexed
  <2> SUFFICES ASSUME NEW m \in aeArgs, NEW k \in DOMAIN m.Entries
               PROVE  m.Entries[k].Index = m.PrevLogIndex + k
    BY Zenon DEF CallIndexed
  <2>1. m.Term \in Nat /\ m.PrevLogIndex \in Nat /\ m.Entries \in Seq(Entry) /\ Len(m.Entries) \in Nat
    BY Zenon, <1>2, AppendFields
  <2>2. k \in 1 .. Len(m.Entries)
    BY Zenon, <2>1, LenProperties
  <2>3. /\ m.PrevLogIndex + Len(m.Entries) <= Len(canon[m.Term])
        /\ m.Entries[k] = canon[m.Term][m.PrevLogIndex + k]
    BY Zenon, <1>1, <2>2 DEF LogInvOf, CallsFromLeaders
  <2>4. Len(canon[m.Term]) \in Nat
    BY Zenon, <2>1, LogEntries DEF Canons
  <2>5. m.PrevLogIndex + k \in 1 .. Len(canon[m.Term])
    BY SMTT(30), <2>1, <2>2, <2>3, <2>4
  <2>6. QED
    BY Zenon, <1>1, <2>1, <2>3, <2>5 DEF LogInvOf, Consistent
<1>5. QED
  BY Zenon, <1>3, <1>4

\* Logs that agree are equal up to there.
LEMMA AgreeingFronts ==
  ASSUME NEW s \in Seq(Entry), NEW c \in Seq(Entry), NEW k \in Nat, Agree(s, c, k)
  PROVE  SubSeq(s, 1, k) = SubSeq(c, 1, k)
<1>1. k \in 0 .. Len(s) /\ k \in 0 .. Len(c)
  BY LogEntries DEF Agree
<1>2. /\ SubSeq(s, 1, k) \in Seq(Entry) /\ Len(SubSeq(s, 1, k)) = k
      /\ \A n \in 1 .. k : SubSeq(s, 1, k)[n] = s[n]
  BY Zenon, <1>1, Slices
<1>3. /\ SubSeq(c, 1, k) \in Seq(Entry) /\ Len(SubSeq(c, 1, k)) = k
      /\ \A n \in 1 .. k : SubSeq(c, 1, k)[n] = c[n]
  BY Zenon, <1>1, Slices
<1>4. \A n \in 1 .. k : SubSeq(s, 1, k)[n] = SubSeq(c, 1, k)[n]
  BY Zenon, <1>2, <1>3 DEF Agree
<1>5. QED
  BY Zenon, <1>2, <1>3, <1>4, SeqEqual

\* Two logs with an entry of one term were both copied from the leader of that term.
LEMMA InvMatching ==
  ASSUME ElectionInv, LogInv
  PROVE  LogMatching
<1>1. PICK canon \in Canons : LogInvOf(canon)
  BY Zenon DEF LogInv
<1> SUFFICES ASSUME NEW i \in Server, NEW j \in Server, NEW k \in DOMAIN logs[i] \cap DOMAIN logs[j],
                    logs[i][k].Term = logs[j][k].Term
             PROVE  SubSeq(logs[i], 1, k) = SubSeq(logs[j], 1, k)
  BY Zenon DEF LogMatching
<1>2. logs[i] \in Seq(Entry) /\ logs[j] \in Seq(Entry)
  BY Zenon DEF ElectionInv, TypeOK
<1>3. Len(logs[i]) \in Nat /\ Len(logs[j]) \in Nat /\ k \in 1 .. Len(logs[i]) /\ k \in 1 .. Len(logs[j])
  BY Zenon, <1>2, LenProperties
<1>4. Backed(logs[i], canon) /\ Backed(logs[j], canon) /\ Consistent(canon)
  BY Zenon, <1>1 DEF LogInvOf, LogsBacked
<1>5. k \in Nat /\ k >= 1 /\ k <= Len(logs[i]) /\ k <= Len(logs[j])
  BY <1>3
<1>6. Agree(logs[i], logs[j], k)
  BY Zenon, <1>2, <1>4, <1>5, BackedMatches
<1>7. QED
  BY Zenon, <1>2, <1>5, <1>6, AgreeingFronts

\* What a reply reported is in the follower's log, and that is the stored one.
LEMMA InvDurable ==
  ASSUME ElectionInv, NoSnapshots, LogInv
  PROVE  MatchIsDurable
<1>1. PICK canon \in Canons : LogInvOf(canon)
  BY Zenon DEF LogInv
<1> SUFFICES ASSUME NEW i \in Server, NEW j \in Server, status[i] = "LEADER", i # j,
                    currentTerm[j] = currentTerm[i], NEW k \in 1 .. matchIndex[i][j]
             PROVE  k <= Len(persister[j].Logs) /\ persister[j].Logs[k] = logs[i][k]
  BY Zenon DEF MatchIsDurable
<1>2. /\ matchIndex[i][j] \in Nat /\ currentTerm[i] \in Nat /\ logs[j] \in Seq(Entry)
      /\ Len(logs[j]) \in Nat
  BY Zenon, LogEntries DEF ElectionInv, TypeOK
<1>3. persister[j].Logs = logs[j]
  BY Zenon DEF NoSnapshots
<1>4. logs[i] = canon[currentTerm[i]]
  BY Zenon, <1>1 DEF LogInvOf, LeadersHold
<1>5. Reported(i, j, matchIndex[i][j])
  BY <1>1, <1>2 DEF LogInvOf, MatchReported
<1>6. Agree(logs[j], canon[currentTerm[i]], matchIndex[i][j])
  BY Zenon, <1>1, <1>5 DEF LogInvOf, RepliesKept, Reported
<1>7. QED
  BY <1>2, <1>3, <1>4, <1>6 DEF Agree

=============================================================================

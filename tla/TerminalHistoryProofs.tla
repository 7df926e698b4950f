----------------------- MODULE TerminalHistoryProofs ------------------------
(***************************************************************************)
(* Proofs about the histories of terminal sessions, for any workspaces,    *)
(* any number of changes, writing threads and refusals of the disk.        *)
(* What the answers promise is said of sessions and answers; between them  *)
(* are files that several threads write in any order. HDiskInv says what   *)
(* can be relied on there: a node belongs to the path it was made for, a   *)
(* whole file holds the snapshot of some thread of its workspace, and an   *)
(* archive that of the session it is named after, ended. HReadOK says what *)
(* a request that is under way has come across so far.                     *)
(***************************************************************************)
EXTENDS TerminalHistory, SequenceTheorems, FiniteSetTheorems, NaturalsInduction, WellFoundedInduction, TLAPS

\* A nonempty set of numbers has a least element, ...
LEMMA LeastOf ==
  ASSUME NEW S \in SUBSET Nat, S # {}
  PROVE  Min(S) \in S /\ \A y \in S : Min(S) <= y
<1>1. PICK x \in S : \A y \in S : ~(<<y, x>> \in OpToRel(<, Nat))
  BY NatLessThanWellFounded, WFMin
<1>2. \A y \in S : x <= y
  <2> TAKE y \in S
  <2>1. <<y, x>> \in Nat \X Nat
    OBVIOUS
  <2>2. ~(y < x)
    <3> SUFFICES ASSUME y < x PROVE FALSE
      OBVIOUS
    <3>1. <<y, x>> \in OpToRel(<, Nat)
      BY <2>1 DEF OpToRel
    <3> QED BY <3>1, <1>1
  <2> QED BY <2>2
<1> QED BY <1>2 DEF Min

\* ... and if it is bounded a greatest one.
LEMMA GreatestOf ==
  ASSUME NEW n \in Nat, NEW S \in SUBSET (0 .. n), S # {}
  PROVE  Max(S) \in S /\ \A y \in S : Max(S) >= y
<1> DEFINE T == {n - x : x \in S}
<1>1. T \in SUBSET Nat /\ T # {}
  <2>1. \A x \in S : n - x \in Nat
    OBVIOUS
  <2>2. T # {}
    <3>1. PICK x \in S : TRUE
      OBVIOUS
    <3> QED BY <3>1
  <2> QED BY <2>1, <2>2
<1>2. Min(T) \in T /\ \A y \in T : Min(T) <= y
  BY <1>1, LeastOf
<1>3. PICK x \in S : Min(T) = n - x
  BY <1>2
<1>4. \A y \in S : x >= y
  <2> TAKE y \in S
  <2>1. n - x <= n - y
    BY <1>2, <1>3
  <2> QED BY <2>1
<1> QED BY <1>4 DEF Max

\* A number above all others is the greatest.
LEMMA GreatestAdded ==
  ASSUME NEW S, NEW k \in Nat, S \subseteq 0 .. k
  PROVE  Max(S \cup {k}) = k
<1>1. \A x \in S \cup {k} : x \in Nat /\ k >= x
  OBVIOUS
<1>2. \A x \in S \cup {k} : (\A y \in S \cup {k} : x >= y) <=> x = k
  BY <1>1
<1>3. (CHOOSE x \in S \cup {k} : \A y \in S \cup {k} : x >= y) = k
  BY <1>2
<1> QED BY <1>3 DEF Max

-----------------------------------------------------------------------------
(* Histories of terminal sessions. *)

Places == Stamps \X (0 .. MaxStamp)
Has(t) == hThread[t].at # "none"
Snap(t) == hThread[t].snap
\* Thread t writes a snapshot of session n of folder f.
IsOf(t, f, n) == Has(t) /\ Snap(t).folder = f /\ Snap(t).n = n
\* Node x was made for path p.
NodeAt(p, x) == x \in Places /\ x[2] = p[2] /\ Has(x[1]) /\ Snap(x[1]).folder = p[1]

Snapshots == [folder : Folders, n : Nat, status : {"active", "ended", "none"}, hit : BOOLEAN, at : Nat]
ThreadFields == {"at", "path", "node", "snap"}
HThreadOK(t) ==
  LET th == hThread[t] IN
  /\ th = [g \in ThreadFields |-> th[g]]
  /\ th.at \in {"open", "write", "replace", "done"} /\ t <= hNow
  /\ th.snap \in Snapshots /\ th.snap.n \in 1 .. hMade[th.snap.folder]
  /\ th.snap.status \in {"active", "ended"} /\ th.snap.at = t
  /\ \/ th.path = <<th.snap.folder, 0>>
     \/ th.path = <<th.snap.folder, th.snap.n>> /\ th.snap.status = "ended"
  /\ th.at \in {"write", "replace"} => NodeAt(th.path, th.node)

HThreads == hThread = [t \in Stamps |-> hThread[t]] /\ \A t \in Stamps : Has(t) => HThreadOK(t)

HNames ==
  /\ hFile = [p \in Paths |-> hFile[p]] /\ hTmp = [p \in Paths |-> hTmp[p]]
  /\ \A p \in Paths : /\ hFile[p] # NoEntry => NodeAt(p, hFile[p])
                      /\ hTmp[p] # NoEntry => NodeAt(p, hTmp[p])

\* A whole file holds the snapshot of some thread of its folder; an archive that of the
\* session it is named after, ended.
Holds(x, d) ==
  /\ Has(x[1])
  /\ \E u \in Stamps : /\ Has(u) /\ Snap(u) = d /\ d.folder = Snap(x[1]).folder
                       /\ x[2] # 0 => d.status = "ended" /\ d.n = x[2]
HNodes ==
  /\ hNode = [x \in Places |-> hNode[x]]
  /\ \A x \in Places : IsWhole(hNode[x]) => Holds(x, hNode[x].data)

Sessions == [n : Nat, status : {"active", "ended", "none"}, hit : BOOLEAN, fresh : BOOLEAN]
HSessionOK(f) ==
  /\ hMade[f] \in 0 .. hNow /\ hSession[f] \in Sessions /\ hSession[f].n <= hMade[f]
  /\ hSession[f].n # 0 => hSession[f].status # "none"
  /\ hSession[f].fresh => hSession[f].n # 0
HSessions ==
  /\ hNow \in 1 .. MaxStamp
  /\ hSession = [f \in Folders |-> hSession[f]] /\ hMade = [f \in Folders |-> hMade[f]]
  /\ \A f \in Folders : HSessionOK(f)

HDiskInv == HSessions /\ HThreads /\ HNames /\ HNodes

-----------------------------------------------------------------------------
\* n is not the current session, its threads have returned and its archive is there.
AtRest(f, n) ==
  /\ hSession[f].n # n /\ n \in 1 .. hMade[f]
  /\ \A t \in Stamps : IsOf(t, f, n) => ~Writing(t)
  /\ IsWhole(FileAt(<<f, n>>))

\* The load has come across n after it ended.
SeenEnded(L, f, n) ==
  \E j \in DOMAIN L.seen, t \in Stamps :
    /\ L.seen[j].n = n /\ L.seen[j].status = "ended"
    /\ IsOf(t, f, n) /\ Snap(t).status = "ended" /\ t <= L.seen[j].at

\* n was active after it had ended.
Broken(f, n) ==
  \E t, u \in Stamps : /\ IsOf(t, f, n) /\ IsOf(u, f, n) /\ t < u
                       /\ Snap(t).status = "ended" /\ Snap(u).status # "ended"

UnderLoad == {"latest", "list", "files"}
LoadFields == {"at", "mem", "seen", "todo", "kept", "over"}
\* What a load has come across so far
LoadBase(L, f) ==
  /\ L.seen \in Seq(Snapshots) /\ \A j \in DOMAIN L.seen : L.seen[j].at <= hNow
  /\ \A i \in DOMAIN L.mem : \E j \in DOMAIN L.seen : L.seen[j] = L.mem[i]
  /\ \A n \in L.over : \A j \in DOMAIN L.seen : L.seen[j].n = n /\ L.seen[j].status # "ended" =>
       \E t \in Stamps : IsOf(t, f, n) /\ Snap(t) = L.seen[j]

LoadOK(L, f) ==
  /\ L.at \in UnderLoad \cup {"none", "done"}
  /\ L.at = "none" => L.mem = <<>> /\ L.over = {} /\ L.kept = {}
  /\ L.todo # {} => L.at = "files"
  /\ L.at \in UnderLoad =>
       /\ LoadBase(L, f)
       /\ \A n \in L.over :
            SeenEnded(L, f, n) \/ (AtRest(f, n) /\ (L.at = "files" => n \in L.todo))
  /\ L.at = "done" =>
       /\ \A i \in DOMAIN L.mem : \E x \in L.kept : x.n = L.mem[i].n /\ x.at >= L.mem[i].at
       /\ \A n \in L.over : ~Broken(f, n) =>
            /\ \A x \in L.kept : x.n = n => x.status = "ended"
            /\ \E x \in L.kept : x.n = n

ReadFields == {"at", "load", "limit", "flt"}
HReadOK ==
  /\ hRead.at \in {"idle", "loading", "again", "overview", "current", "answered"}
  /\ hRead.load = [f \in Folders |-> hRead.load[f]]
  /\ hRead.at # "answered" =>
       /\ hRead = [g \in ReadFields |-> hRead[g]]
       /\ \A f \in Folders : hRead.load[f] = [g \in LoadFields |-> hRead.load[f][g]]
  /\ hRead.at = "idle" => \A f \in Folders : hRead.load[f] = NoLoad
  /\ hRead.at \in {"loading", "again"} => \A f \in Folders : LoadOK(hRead.load[f], f)
  /\ hRead.at = "overview" =>
       \A f \in Folders : \A i \in DOMAIN hRead.load[f].mem :
         /\ hRead.load[f].mem[i].n \in 1 .. hSession[f].n
         /\ hRead.load[f].mem[i].at \in 0 .. hNow
  /\ hRead.at = "current" => \A f \in Folders : hRead.load[f].mem = <<>>

HistInv == HDiskInv /\ HReadOK /\ AnswerNotStale /\ EndedStaysEnded

-----------------------------------------------------------------------------
\* What it means that a session is over
LEMMA OverMeans ==
  ASSUME HThreads, NEW f, NEW n, Over(f, n)
  PROVE  /\ ~Broken(f, n) /\ ~(hSession[f].n = n /\ hSession[f].status = "active")
         /\ \E t \in Stamps : IsOf(t, f, n) /\ Snap(t).status = "ended"
<1>1. \A t \in Stamps : IsOf(t, f, n) <=> hThread[t].at # "none" /\ hThread[t].snap.folder = f
                                          /\ hThread[t].snap.n = n
  BY DEF IsOf, Has, Snap
<1>2. \A b : b \in Built(f, n) <=> \E t \in Stamps : IsOf(t, f, n) /\ b = Snap(t)
  BY <1>1 DEF Built, Snap
<1>3. \A t \in Stamps : IsOf(t, f, n) => Snap(t).at = t
  BY DEF HThreads, HThreadOK, IsOf, Snap
<1>4. /\ ~(hSession[f].n = n /\ hSession[f].status = "active")
      /\ \E b \in Built(f, n) : b.status = "ended"
      /\ \A b, c \in Built(f, n) : b.status = "ended" /\ b.at < c.at => c.status = "ended"
  BY DEF Over
<1>5. ~Broken(f, n)
  <2> SUFFICES ASSUME NEW t \in Stamps, NEW u \in Stamps, IsOf(t, f, n), IsOf(u, f, n), t < u,
                      Snap(t).status = "ended", Snap(u).status # "ended"
               PROVE  FALSE
    BY DEF Broken
  <2>1. Snap(t) \in Built(f, n) /\ Snap(u) \in Built(f, n) /\ Snap(t).at < Snap(u).at
    BY <1>2, <1>3
  <2> QED BY <2>1, <1>4
<1> QED BY <1>2, <1>4, <1>5

\* What becomes of the snapshots that were found
LEMMA DedupeKeeps ==
  ASSUME NEW seen \in Seq(Snapshots), hNow \in Nat, \A j \in DOMAIN seen : seen[j].at <= hNow
  PROVE  /\ \A j \in DOMAIN seen : \E x \in Dedupe(seen) : x.n = seen[j].n /\ x.at >= seen[j].at
         /\ \A x \in Dedupe(seen) : \E k \in DOMAIN seen :
              x = seen[k] /\ \A j \in DOMAIN seen : seen[j].n = x.n => seen[j].at <= x.at
<1>1. /\ DOMAIN seen = 1 .. Len(seen) /\ Len(seen) \in Nat
      /\ \A j \in DOMAIN seen : seen[j] \in Snapshots /\ seen[j].at \in 0 .. hNow /\ j \in Nat
  <2>1. DOMAIN seen = 1 .. Len(seen) /\ Len(seen) \in Nat
    OBVIOUS
  <2>2. \A j \in DOMAIN seen : seen[j] \in Snapshots
    OBVIOUS
  <2>3. \A x \in Snapshots : x.at \in Nat
    BY DEF Snapshots
  <2> QED BY <2>1, <2>2, <2>3
<1>2. \A x \in Dedupe(seen) : \E k \in DOMAIN seen : x = seen[k] /\ \A j \in DOMAIN seen :
        seen[j].n # seen[k].n \/ seen[j].at < seen[k].at \/ (seen[j].at = seen[k].at /\ k <= j)
  BY DEF Dedupe
<1>3. \A x \in Dedupe(seen) : \E k \in DOMAIN seen :
        x = seen[k] /\ \A j \in DOMAIN seen : seen[j].n = x.n => seen[j].at <= x.at
  <2> TAKE x \in Dedupe(seen)
  <2>1. PICK k \in DOMAIN seen : x = seen[k] /\ \A j \in DOMAIN seen :
          seen[j].n # seen[k].n \/ seen[j].at < seen[k].at \/ (seen[j].at = seen[k].at /\ k <= j)
    BY <1>2
  <2>2. \A j \in DOMAIN seen : seen[j].n = x.n => seen[j].at <= x.at
    BY <2>1, <1>1
  <2> QED BY <2>1, <2>2
<1>4. ASSUME NEW j \in DOMAIN seen
      PROVE  \E x \in Dedupe(seen) : x.n = seen[j].n /\ x.at >= seen[j].at
  <2> DEFINE T == {i \in DOMAIN seen : seen[i].n = seen[j].n}
             A == {seen[i].at : i \in T}
  <2>1. A \in SUBSET (0 .. hNow) /\ A # {}
    BY <1>1
  <2>2. Max(A) \in A /\ \A y \in A : Max(A) >= y
    <3> HIDE DEF A
    <3> QED BY <2>1, GreatestOf
  <2>3. PICK m \in T : seen[m].at = Max(A)
    BY <2>2
  <2>4. \A i \in T : seen[m].at >= seen[i].at
    BY <2>2, <2>3
  <2> DEFINE K == {i \in T : seen[i].at = seen[m].at}
  <2>5. K \in SUBSET Nat /\ K # {}
    BY <1>1
  <2>6. PICK k : k \in K /\ \A y \in K : k <= y
    <3> HIDE DEF K
    <3> QED BY <2>5, LeastOf
  <2>7. k \in DOMAIN seen /\ seen[k].n = seen[j].n /\ seen[k].at = seen[m].at
    BY <2>6
  <2>8. \A i \in DOMAIN seen :
          seen[i].n # seen[k].n \/ seen[i].at < seen[k].at \/ (seen[i].at = seen[k].at /\ k <= i)
    <3> SUFFICES ASSUME NEW i \in DOMAIN seen, seen[i].n = seen[k].n, ~(seen[i].at < seen[k].at)
                 PROVE  seen[i].at = seen[k].at /\ k <= i
      OBVIOUS
    <3>1. i \in T
      BY <2>7
    <3>2. seen[i].at = seen[m].at
      BY <3>1, <2>4, <2>7, <1>1
    <3> QED BY <3>1, <3>2, <2>6, <2>7
  <2>9. seen[k] \in Dedupe(seen)
    BY <2>7, <2>8 DEF Dedupe
  <2>10. seen[k].at >= seen[j].at
    BY <2>4, <2>7
  <2> QED BY <2>7, <2>9, <2>10
<1> QED BY <1>3, <1>4

\* Threads keep their snapshots, and nothing is unmade.
Grows ==
  /\ hNow \in Nat /\ hNow' \in Nat /\ hNow <= hNow'
  /\ \A t \in Stamps : Has(t) => Has(t)' /\ Snap(t)' = Snap(t)
  /\ \A f \in Folders : hMade[f] \in Nat /\ hMade'[f] \in Nat /\ hMade[f] <= hMade'[f]

\* A snapshot stays one of its session.
LEMMA OfStays ==
  ASSUME Grows, NEW t \in Stamps, NEW f, NEW n, IsOf(t, f, n)
  PROVE  IsOf(t, f, n)' /\ Snap(t)' = Snap(t)
BY DEF Grows, IsOf, Snap

\* What a load has found out stays true.
LEMMA LoadStays ==
  ASSUME Grows, NEW f \in Folders, NEW L, LoadOK(L, f), \A n : AtRest(f, n) => AtRest(f, n)'
  PROVE  LoadOK(L, f)'
<1>1. \A n : \A t \in Stamps : IsOf(t, f, n) => IsOf(t, f, n)' /\ Snap(t)' = Snap(t)
  BY OfStays
<1>2. \A n : Broken(f, n) => Broken(f, n)'
  BY <1>1 DEF Broken
<1>3. \A n : SeenEnded(L, f, n) => SeenEnded(L, f, n)'
  BY <1>1 DEF SeenEnded
<1>4. CASE L.at \in UnderLoad
  <2>1. /\ L.seen \in Seq(Snapshots)
        /\ \A i \in DOMAIN L.mem : \E j \in DOMAIN L.seen : L.seen[j] = L.mem[i]
        /\ \A j \in DOMAIN L.seen : L.seen[j].at <= hNow
    BY <1>4 DEF LoadOK, LoadBase
  <2>2. \A j \in DOMAIN L.seen : L.seen[j].at <= hNow'
    <3>1. \A x \in Snapshots : x.at \in Nat
      BY DEF Snapshots
    <3>2. \A j \in DOMAIN L.seen : L.seen[j].at \in Nat
      BY <2>1, <3>1
    <3> QED BY <2>1, <3>2 DEF Grows
  <2>3. ASSUME NEW n \in L.over
        PROVE  /\ \A j \in DOMAIN L.seen : L.seen[j].n = n /\ L.seen[j].status # "ended" =>
                    \E t \in Stamps : IsOf(t, f, n)' /\ Snap(t)' = L.seen[j]
               /\ SeenEnded(L, f, n)' \/ (AtRest(f, n)' /\ (L.at = "files" => n \in L.todo))
    BY <1>1, <1>3, <1>4 DEF LoadOK, LoadBase
  <2>4. LoadBase(L, f)'
    BY <2>1, <2>2, <2>3 DEF LoadBase
  <2> QED BY <1>4, <2>3, <2>4 DEF LoadOK, UnderLoad
<1>5. CASE L.at \notin UnderLoad
  BY <1>2, <1>5 DEF LoadOK
<1> QED BY <1>4, <1>5

-----------------------------------------------------------------------------
\* What stays while nothing is unmade
LEMMA NodeStays ==
  ASSUME Grows, NEW p, NEW x, NodeAt(p, x)
  PROVE  NodeAt(p, x)'
<1>1. x[1] \in Stamps
  BY DEF NodeAt, Places
<1> QED BY <1>1 DEF Grows, NodeAt, Snap, Places

\* What a node holds stays the snapshot of a thread.
LEMMA ContentStays ==
  ASSUME Grows, NEW x \in Places, NEW d, Holds(x, d)
  PROVE  Holds(x, d)'
<1>1. x[1] \in Stamps
  BY DEF Places
<1> QED BY <1>1 DEF Grows, Holds, Snap

\* A thread that does nothing stays in order.
LEMMA ThreadStays ==
  ASSUME Grows, NEW t \in Stamps, HThreadOK(t), hThread'[t] = hThread[t]
  PROVE  HThreadOK(t)'
<1>1. PICK th : th = hThread[t] /\ th = hThread'[t]
  OBVIOUS
<1>2. /\ th = [g \in ThreadFields |-> th[g]]
      /\ th.at \in {"open", "write", "replace", "done"} /\ t <= hNow
      /\ th.snap \in Snapshots /\ th.snap.n \in 1 .. hMade[th.snap.folder]
      /\ th.snap.status \in {"active", "ended"} /\ th.snap.at = t
      /\ \/ th.path = <<th.snap.folder, 0>>
         \/ th.path = <<th.snap.folder, th.snap.n>> /\ th.snap.status = "ended"
      /\ th.at \in {"write", "replace"} => NodeAt(th.path, th.node)
  BY <1>1 DEF HThreadOK
<1>3. th.snap.n \in 1 .. hMade'[th.snap.folder] /\ t <= hNow'
  <2>1. th.snap.folder \in Folders
    BY <1>2 DEF Snapshots
  <2> QED BY <2>1, <1>2, HistoryAssumption DEF Grows, Stamps
<1>4. th.at \in {"write", "replace"} => NodeAt(th.path, th.node)'
  BY <1>2, NodeStays
<1> QED BY <1>1, <1>2, <1>3, <1>4 DEF HThreadOK

\* So do files that nobody touches.
LEMMA DiskStays ==
  ASSUME Grows, HNames, HNodes, hFile' = hFile, hTmp' = hTmp, hNode' = hNode
  PROVE  HNames' /\ HNodes'
<1>1. HNames'
  <2>1. \A p \in Paths : /\ hFile[p] # NoEntry => NodeAt(p, hFile[p])'
                         /\ hTmp[p] # NoEntry => NodeAt(p, hTmp[p])'
    BY NodeStays DEF HNames
  <2> QED BY <2>1 DEF HNames
<1>2. HNodes'
  <2>1. \A x \in Places : IsWhole(hNode[x]) => Holds(x, hNode[x].data)'
    BY ContentStays DEF HNodes
  <2> QED BY <2>1 DEF HNodes
<1> QED BY <1>1, <1>2

\* The request does not notice.
LEMMA ReadStays ==
  ASSUME HReadOK, Grows, hRead' = hRead, hRead.at # "answered",
         \A f \in Folders : \A n : AtRest(f, n) => AtRest(f, n)',
         \A f \in Folders : /\ hSession[f].n \in Nat /\ hSession'[f].n \in Nat
                            /\ hSession[f].n <= hSession'[f].n
  PROVE  HReadOK' /\ AnswerNotStale' /\ EndedStaysEnded'
<1>1. AnswerNotStale' /\ EndedStaysEnded'
  BY DEF AnswerNotStale, EndedStaysEnded
<1>2. hRead.at \in {"loading", "again"} => \A f \in Folders : LoadOK(hRead.load[f], f)'
  BY LoadStays DEF HReadOK
<1>3. hRead.at = "overview" =>
       \A f \in Folders : \A i \in DOMAIN hRead.load[f].mem :
         /\ hRead.load[f].mem[i].n \in 1 .. hSession'[f].n
         /\ hRead.load[f].mem[i].at \in 0 .. hNow'
  BY DEF HReadOK, Grows
<1> QED BY <1>1, <1>2, <1>3 DEF HReadOK

-----------------------------------------------------------------------------
\* The session of f changes, and a thread gets its snapshot.
LEMMA SessionChanges ==
  ASSUME HistInv, NEW f \in Folders, NEW x \in Sessions, x.n = hSession[f].n, x.n # 0,
         x.status # "none", ChangeAndPersist(f, x)
  PROVE  HistInv'
<1>1. PICK now : now = hNow + 1
  OBVIOUS
<1>2. /\ hNow \in 1 .. MaxStamp /\ hNow < MaxStamp /\ hNow' = now /\ MaxStamp \in Nat
      /\ hMade' = hMade /\ hRead' = hRead
      /\ hFile' = hFile /\ hTmp' = hTmp /\ hNode' = hNode /\ hRead.at # "answered"
  BY <1>1, HistoryAssumption DEF HistInv, HDiskInv, HSessions, ChangeAndPersist, MayChange, hDisk,
                                 Followed, Reading
<1>3. now \in Stamps /\ now > hNow /\ hNow \in Nat /\ now \in Nat /\ now \in 1 .. MaxStamp
  BY <1>1, <1>2 DEF Stamps
<1>4. ~Has(now)
  BY <1>2, <1>3 DEF HistInv, HDiskInv, HThreads, HThreadOK
<1>5. PICK snap, th : /\ snap = HistorySnapshot(f, x, now)
                      /\ th = [at |-> "open", path |-> <<f, 0>>, node |-> NoEntry, snap |-> snap]
  OBVIOUS
<1>6. /\ hThread' = [hThread EXCEPT ![now] = th] /\ hSession' = [hSession EXCEPT ![f] = x]
  BY <1>1, <1>5 DEF ChangeAndPersist
<1>7. /\ snap = [folder |-> f, n |-> x.n, status |-> x.status, hit |-> x.hit, at |-> now]
      /\ snap \in Snapshots
  BY <1>3, <1>5 DEF HistorySnapshot, Snapshots, Sessions
<1>8. /\ \A t \in Stamps : t # now => hThread'[t] = hThread[t]
      /\ hThread'[now] = th /\ hThread' = [t \in Stamps |-> hThread'[t]]
      /\ \A g \in Folders : hSession'[g] = IF g = f THEN x ELSE hSession[g]
      /\ hSession' = [g \in Folders |-> hSession'[g]]
  BY <1>3, <1>6 DEF HistInv, HDiskInv, HThreads, HSessions
<1>9. \A g \in Folders : HSessionOK(g) /\ hMade[g] \in Nat
  BY <1>3 DEF HistInv, HDiskInv, HSessions, HSessionOK
<1>10. Grows
  BY <1>2, <1>3, <1>4, <1>8, <1>9 DEF Grows, Has, Snap
<1>11. HSessions'
  <2>1. ASSUME NEW g \in Folders PROVE HSessionOK(g)'
    <3>1. hMade[g] \in 0 .. now
      BY <1>2, <1>3, <1>9 DEF HSessionOK
    <3> QED BY <3>1, <1>2, <1>8, <1>9 DEF HSessionOK
  <2> QED BY <2>1, <1>2, <1>3, <1>8 DEF HSessions, HistInv, HDiskInv
<1>12. HThreads'
  <2>1. ASSUME NEW t \in Stamps, Has(t)' PROVE HThreadOK(t)'
    <3>1. CASE t # now
      <4>1. HThreadOK(t)
        BY <2>1, <3>1, <1>8 DEF Has, HistInv, HDiskInv, HThreads
      <4> QED BY <3>1, <4>1, <1>8, <1>10, ThreadStays
    <3>2. CASE t = now
      <4>1. /\ th = [g \in ThreadFields |-> th[g]] /\ th.at = "open" /\ th.snap = snap
            /\ th.path = <<f, 0>>
        BY <1>5 DEF ThreadFields
      <4>2. snap.n \in 1 .. hMade[f] /\ snap.folder = f /\ snap.at = now
            /\ snap.status \in {"active", "ended"}
        BY <1>7, <1>9 DEF HSessionOK, Sessions
      <4> QED BY <3>2, <4>1, <4>2, <1>2, <1>3, <1>7, <1>8 DEF HThreadOK
    <3> QED BY <3>1, <3>2
  <2> QED BY <2>1, <1>8 DEF HThreads
<1>13. HNames' /\ HNodes'
  BY <1>2, <1>10, DiskStays DEF HistInv, HDiskInv
<1>14. ASSUME NEW g \in Folders, NEW n, AtRest(g, n) PROVE AtRest(g, n)'
  <2>1. hSession'[g].n # n /\ n \in 1 .. hMade'[g] /\ IsWhole(FileAt(<<g, n>>))'
    BY <1>2, <1>8, <1>14 DEF AtRest, FileAt
  <2>2. ASSUME NEW t \in Stamps, IsOf(t, g, n)' PROVE ~Writing(t)'
    <3>1. CASE t # now
      BY <2>2, <3>1, <1>8, <1>14 DEF IsOf, Has, Snap, AtRest, Writing
    <3>2. t # now
      <4> SUFFICES ASSUME t = now PROVE FALSE
        OBVIOUS
      <4>1. th.snap.folder = g /\ th.snap.n = n
        BY <2>2, <1>8 DEF IsOf, Snap
      <4>2. f = g /\ n = hSession[f].n
        BY <4>1, <1>5, <1>7
      <4> QED BY <4>2, <1>14 DEF AtRest
    <3> QED BY <3>1, <3>2
  <2> QED BY <2>1, <2>2 DEF AtRest
<1>15. HReadOK' /\ AnswerNotStale' /\ EndedStaysEnded'
  <2>1. \A g \in Folders : hSession[g].n \in Nat /\ hSession'[g].n = hSession[g].n
    BY <1>8, <1>9 DEF HSessionOK, Sessions
  <2> QED BY <2>1, <1>2, <1>10, <1>14, ReadStays DEF HistInv
<1> QED BY <1>11, <1>12, <1>13, <1>15 DEF HistInv, HDiskInv

\* A session is made.
LEMMA SessionIsMade ==
  ASSUME HistInv, NEW f \in Folders, NewSession(f)
  PROVE  HistInv'
<1>1. /\ hNow \in 1 .. MaxStamp /\ hNow < MaxStamp /\ hNow' = hNow + 1 /\ MaxStamp \in Nat
      /\ hThread' = hThread /\ hRead' = hRead /\ hMade' = [hMade EXCEPT ![f] = @ + 1]
      /\ hFile' = hFile /\ hTmp' = hTmp /\ hNode' = hNode /\ hRead.at # "answered"
  BY HistoryAssumption DEF HistInv, HDiskInv, HSessions, NewSession, MayChange, hDisk, Followed, Reading
<1>2. PICK x : x = [n |-> hMade[f] + 1, status |-> "active", hit |-> FALSE, fresh |-> TRUE]
  OBVIOUS
<1>3. hSession' = [hSession EXCEPT ![f] = x]
  BY <1>2 DEF NewSession
<1>4. \A g \in Folders : /\ HSessionOK(g) /\ hMade[g] \in 0 .. hNow /\ hMade[g] \in Nat
                         /\ hSession[g].n \in Nat /\ hSession[g].n <= hMade[g]
  BY <1>1 DEF HistInv, HDiskInv, HSessions, HSessionOK, Sessions
<1>5. x \in Sessions /\ x.n = hMade[f] + 1 /\ x.status = "active"
  BY <1>2, <1>4 DEF Sessions
<1>6. /\ \A g \in Folders : hSession'[g] = IF g = f THEN x ELSE hSession[g]
      /\ hSession' = [g \in Folders |-> hSession'[g]]
      /\ \A g \in Folders : hMade'[g] = IF g = f THEN hMade[g] + 1 ELSE hMade[g]
      /\ hMade' = [g \in Folders |-> hMade'[g]]
  BY <1>1, <1>3 DEF HistInv, HDiskInv, HSessions
<1>7. Grows
  BY <1>1, <1>4, <1>6 DEF Grows, Has, Snap
<1>8. HSessions'
  <2>1. ASSUME NEW g \in Folders PROVE HSessionOK(g)'
    <3>1. CASE g = f
      <4>1. hMade'[g] \in 0 .. hNow' /\ hSession'[g] = x /\ x.n <= hMade'[g] /\ x.n # 0
        BY <3>1, <1>1, <1>4, <1>5, <1>6
      <4> QED BY <4>1, <1>5 DEF HSessionOK
    <3>2. CASE g # f
      BY <3>2, <1>1, <1>4, <1>6 DEF HSessionOK
    <3> QED BY <3>1, <3>2
  <2> QED BY <2>1, <1>1, <1>6 DEF HSessions
<1>9. HThreads'
  BY <1>1, <1>7, ThreadStays DEF HThreads, HistInv, HDiskInv, Has
<1>10. HNames' /\ HNodes'
  BY <1>1, <1>7, DiskStays DEF HistInv, HDiskInv
<1>11. ASSUME NEW g \in Folders, NEW n, AtRest(g, n) PROVE AtRest(g, n)'
  <2>1. n \in 1 .. hMade[g] /\ hSession[g].n # n
    BY <1>11 DEF AtRest
  <2>2. hSession'[g].n # n /\ n \in 1 .. hMade'[g]
    BY <2>1, <1>4, <1>5, <1>6
  <2> QED BY <2>2, <1>1, <1>11 DEF AtRest, IsOf, Has, Snap, Writing, FileAt
<1>12. HReadOK' /\ AnswerNotStale' /\ EndedStaysEnded'
  <2>1. \A g \in Folders : hSession'[g].n \in Nat /\ hSession[g].n <= hSession'[g].n
    BY <1>4, <1>5, <1>6
  <2> QED BY <2>1, <1>1, <1>4, <1>7, <1>11, ReadStays DEF HistInv
<1> QED BY <1>8, <1>9, <1>10, <1>12 DEF HistInv, HDiskInv

\* The session changes.
LEMMA SessionSteps ==
  ASSUME HistInv, NEW f \in Folders,
         SessionStarted(f) \/ SessionUsed(f) \/ SessionWrites(f) \/ SessionEnds(f)
  PROVE  HistInv'
<1>1. PICK old : old = hSession[f]
  OBVIOUS
<1>2. old \in Sessions /\ (old.n # 0 => old.status # "none") /\ (old.fresh => old.n # 0)
  BY <1>1 DEF HistInv, HDiskInv, HSessions, HSessionOK
<1>3. SUFFICES \E x \in Sessions : x.n = old.n /\ x.n # 0 /\ x.status # "none" /\ ChangeAndPersist(f, x)
  BY <1>1, SessionChanges
<1>4. CASE SessionStarted(f)
  <2>1. PICK x : x = [old EXCEPT !.fresh = FALSE]
    OBVIOUS
  <2>2. old.fresh /\ ChangeAndPersist(f, x)
    BY <2>1, <1>1, <1>4 DEF SessionStarted
  <2>3. x \in Sessions /\ x.n = old.n /\ x.status = old.status
    BY <2>1, <1>2 DEF Sessions
  <2> QED BY <2>2, <2>3, <1>2
<1>5. CASE SessionUsed(f)
  <2>1. PICK x : x = [old EXCEPT !.status = "active"]
    OBVIOUS
  <2>2. old.n # 0 /\ ChangeAndPersist(f, x)
    BY <2>1, <1>1, <1>5 DEF SessionUsed
  <2>3. x \in Sessions /\ x.n = old.n /\ x.status = "active"
    BY <2>1, <1>2 DEF Sessions
  <2> QED BY <2>2, <2>3
<1>6. CASE SessionWrites(f)
  <2>1. PICK x : x = [old EXCEPT !.hit = TRUE]
    OBVIOUS
  <2>2. old.n # 0 /\ ChangeAndPersist(f, x)
    BY <2>1, <1>1, <1>6 DEF SessionWrites
  <2>3. x \in Sessions /\ x.n = old.n /\ x.status = old.status
    BY <2>1, <1>2 DEF Sessions
  <2> QED BY <2>2, <2>3, <1>2
<1>7. CASE SessionEnds(f)
  <2>1. PICK x : x = [old EXCEPT !.status = "ended"]
    OBVIOUS
  <2>2. old.n # 0 /\ ChangeAndPersist(f, x)
    BY <2>1, <1>1, <1>7 DEF SessionEnds
  <2>3. x \in Sessions /\ x.n = old.n /\ x.status = "ended"
    BY <2>1, <1>2 DEF Sessions
  <2> QED BY <2>2, <2>3
<1> QED BY <1>4, <1>5, <1>6, <1>7

-----------------------------------------------------------------------------
\* A thread takes a step: its record becomes new, and what it does to the disk is done to
\* its own files.
LEMMA ThreadSteps ==
  ASSUME HistInv, NEW t \in Stamps, Writing(t), NEW new, hThread' = [hThread EXCEPT ![t] = new],
         new = [g \in ThreadFields |-> new[g]],
         new.at \in {"open", "write", "replace", "done"}, new.snap = Snap(t),
         \/ new.path = <<Snap(t).folder, 0>>
         \/ new.path = <<Snap(t).folder, Snap(t).n>> /\ Snap(t).status = "ended",
         new.at \in {"write", "replace"} => NodeAt(new.path, new.node),
         hNow' = hNow, hSession' = hSession, hMade' = hMade, hRead' = hRead,
         Followed,
         Grows => HNames' /\ HNodes',
         \A f \in Folders : \A n : AtRest(f, n) => FileAt(<<f, n>>)' = FileAt(<<f, n>>)
  PROVE  HistInv'
<1>1. /\ \A u \in Stamps : u # t => hThread'[u] = hThread[u]
      /\ hThread'[t] = new /\ hThread' = [u \in Stamps |-> hThread'[u]]
  BY DEF HistInv, HDiskInv, HThreads
<1>2. Has(t) /\ HThreadOK(t)
  BY DEF HistInv, HDiskInv, HThreads, Writing, Has
<1>3. \A u \in Stamps : Has(u)' <=> Has(u)
  BY <1>1, <1>2 DEF Has
<1>4. \A u \in Stamps : Snap(u)' = Snap(u)
  BY <1>1 DEF Snap
<1>5. Grows
  BY <1>3, <1>4 DEF Grows, HistInv, HDiskInv, HSessions, HSessionOK
<1>6. HSessions'
  BY DEF HistInv, HDiskInv, HSessions, HSessionOK
<1>7. HThreads'
  <2>1. ASSUME NEW u \in Stamps, Has(u)' PROVE HThreadOK(u)'
    <3>1. CASE u # t
      <4>1. HThreadOK(u)
        BY <2>1, <1>3 DEF HistInv, HDiskInv, HThreads
      <4> QED BY <3>1, <4>1, <1>1, <1>5, ThreadStays
    <3>2. CASE u = t
      <4>1. PICK snap : snap = Snap(t)
        OBVIOUS
      <4>2. /\ t <= hNow /\ snap \in Snapshots /\ snap.n \in 1 .. hMade[snap.folder]
            /\ snap.status \in {"active", "ended"} /\ snap.at = t
        BY <4>1, <1>2 DEF HThreadOK, Snap
      <4>3. new.at \in {"write", "replace"} => NodeAt(new.path, new.node)'
        BY <1>5, NodeStays
      <4>4. new.snap = snap
        BY <4>1
      <4> QED BY <3>2, <4>1, <4>2, <4>3, <4>4, <1>1 DEF HThreadOK
    <3> QED BY <3>1, <3>2
  <2> QED BY <2>1, <1>1 DEF HThreads
<1>8. ASSUME NEW f \in Folders, NEW n, AtRest(f, n) PROVE AtRest(f, n)'
  <2>1. ASSUME NEW u \in Stamps, IsOf(u, f, n)' PROVE ~Writing(u)'
    <3>1. IsOf(u, f, n)
      BY <2>1, <1>3, <1>4 DEF IsOf
    <3>2. ~Writing(u) /\ u # t
      BY <3>1, <1>8 DEF AtRest
    <3> QED BY <3>2, <1>1 DEF Writing
  <2> QED BY <2>1, <1>8 DEF AtRest
<1>9. HReadOK' /\ AnswerNotStale' /\ EndedStaysEnded'
  <2>1. \A f \in Folders : hSession[f].n \in Nat
    BY DEF HistInv, HDiskInv, HSessions, HSessionOK, Sessions
  <2>2. hRead.at # "answered"
    BY DEF Followed, Reading
  <2> QED BY <2>1, <2>2, <1>5, <1>8, ReadStays DEF HistInv
<1> QED BY <1>5, <1>6, <1>7, <1>9 DEF HistInv, HDiskInv

\* Where a thread that has not returned is
LEMMA ThreadIs ==
  ASSUME HistInv, NEW t \in Stamps, Writing(t)
  PROVE  /\ HThreadOK(t) /\ Has(t)
         /\ hThread[t].path \in Paths /\ hThread[t].path[1] = Snap(t).folder
         /\ hThread[t].path = <<Snap(t).folder, hThread[t].path[2]>>
         /\ hThread[t].path[2] # 0 => Snap(t).status = "ended" /\ hThread[t].path[2] = Snap(t).n
<1>1. HThreadOK(t) /\ Has(t)
  BY DEF HistInv, HDiskInv, HThreads, Writing, Has
<1>2. PICK snap, p : snap = Snap(t) /\ p = hThread[t].path
  OBVIOUS
<1>3. /\ snap.folder \in Folders /\ snap.n \in 1 .. hMade[snap.folder]
      /\ p = <<snap.folder, 0>> \/ (p = <<snap.folder, snap.n>> /\ snap.status = "ended")
  BY <1>1, <1>2 DEF HThreadOK, Snap, Snapshots
<1>4. snap.n \in 0 .. MaxStamp /\ snap.n # 0 /\ 0 \in 0 .. MaxStamp
  <2>1. hMade[snap.folder] \in 0 .. hNow /\ hNow \in 1 .. MaxStamp /\ MaxStamp \in Nat
    BY <1>3, HistoryAssumption DEF HistInv, HDiskInv, HSessions, HSessionOK
  <2> QED BY <1>3, <2>1
<1>5. /\ p \in Paths /\ p[1] = snap.folder /\ p = <<snap.folder, p[2]>>
      /\ p[2] # 0 => snap.status = "ended" /\ p[2] = snap.n
  BY <1>3, <1>4 DEF Paths
<1> QED BY <1>1, <1>2, <1>5

\* A node is of one path.
LEMMA NodesApart ==
  ASSUME NEW p \in Paths, NEW q \in Paths, NEW x, NodeAt(p, x), NodeAt(q, x)
  PROVE  p = q
<1>1. p[1] = q[1] /\ p[2] = q[2]
  BY DEF NodeAt
<1> QED BY <1>1 DEF Paths

\* The archive of a session at rest is no thread's business.
LEMMA RestIsApart ==
  ASSUME HistInv, NEW t \in Stamps, Writing(t), NEW f \in Folders, NEW n, AtRest(f, n)
  PROVE  /\ <<f, n>> \in Paths /\ hThread[t].path # <<f, n>> /\ NodeAt(<<f, n>>, hFile[<<f, n>>])
         /\ FileAt(<<f, n>>) = hNode[hFile[<<f, n>>]]
<1>1. n \in 1 .. hMade[f] /\ IsWhole(FileAt(<<f, n>>)) /\ ~IsOf(t, f, n)
  BY DEF AtRest
<1>2. <<f, n>> \in Paths
  <2>1. hMade[f] \in 0 .. hNow /\ hNow \in 1 .. MaxStamp /\ MaxStamp \in Nat
    BY HistoryAssumption DEF HistInv, HDiskInv, HSessions, HSessionOK
  <2>2. n \in 0 .. MaxStamp
    BY <2>1, <1>1
  <2> QED BY <2>2 DEF Paths
<1>3. hFile[<<f, n>>] # NoEntry
  BY <1>1 DEF FileAt, IsWhole, NoFile
<1>4. hThread[t].path # <<f, n>>
  <2> SUFFICES ASSUME hThread[t].path = <<f, n>> PROVE FALSE
    OBVIOUS
  <2>1. PICK p : p = hThread[t].path
    OBVIOUS
  <2>2. p[1] = f /\ p[2] = n /\ n # 0
    BY <2>1, <1>1
  <2>3. IsOf(t, f, n)
    BY <2>1, <2>2, ThreadIs DEF IsOf
  <2> QED BY <2>3, <1>1
<1> QED BY <1>2, <1>3, <1>4 DEF HistInv, HDiskInv, HNames, FileAt

\* The temporary file is opened.
LEMMA SnapshotTmpOpens ==
  ASSUME HistInv, NEW t \in Stamps, OpenSnapshotTmp(t)
  PROVE  HistInv'
<1>1. /\ Followed /\ hThread[t].at = "open" /\ hNow' = hNow /\ hSession' = hSession
      /\ hMade' = hMade /\ hFile' = hFile /\ hRead' = hRead
  BY DEF OpenSnapshotTmp
<1>2. Writing(t)
  BY <1>1 DEF Writing
<1>3. PICK p, x : p = hThread[t].path /\ x = IF hTmp[p] = NoEntry THEN <<t, p[2]>> ELSE hTmp[p]
  OBVIOUS
<1>4. /\ hTmp' = [hTmp EXCEPT ![p] = x] /\ hNode' = [hNode EXCEPT ![x] = Empty]
      /\ hThread' = [hThread EXCEPT ![t].at = "write", ![t].node = x]
  BY <1>3 DEF OpenSnapshotTmp
<1>5. p \in Paths /\ p[1] = Snap(t).folder /\ HThreadOK(t) /\ Has(t)
  BY <1>2, <1>3, ThreadIs
<1>6. NodeAt(p, x) /\ x \in Places
  <2>1. CASE hTmp[p] = NoEntry
    <3>1. x = <<t, p[2]>> /\ p[2] \in 0 .. MaxStamp
      BY <2>1, <1>3, <1>5 DEF Paths
    <3> QED BY <3>1, <1>5 DEF NodeAt, Places
  <2>2. CASE hTmp[p] # NoEntry
    BY <2>2, <1>3, <1>5 DEF HistInv, HDiskInv, HNames, NodeAt
  <2> QED BY <2>1, <2>2
<1>7. PICK new : new = [hThread[t] EXCEPT !.at = "write", !.node = x]
  OBVIOUS
<1>8. /\ new = [g \in ThreadFields |-> new[g]] /\ new.at = "write" /\ new.node = x
      /\ new.path = p /\ new.snap = Snap(t)
  BY <1>3, <1>5, <1>7 DEF HThreadOK, ThreadFields, Snap
<1>9. hThread' = [hThread EXCEPT ![t] = new]
  BY <1>4, <1>7 DEF HistInv, HDiskInv, HThreads
<1>10. \/ p = <<Snap(t).folder, 0>>
       \/ p = <<Snap(t).folder, Snap(t).n>> /\ Snap(t).status = "ended"
  BY <1>3, <1>5 DEF HThreadOK, Snap
<1>11. /\ hTmp' = [q \in Paths |-> IF q = p THEN x ELSE hTmp[q]]
       /\ hNode' = [y \in Places |-> IF y = x THEN Empty ELSE hNode[y]]
  BY <1>4, <1>5, <1>6 DEF HistInv, HDiskInv, HNames, HNodes
<1>12. ASSUME Grows PROVE HNames' /\ HNodes'
  <2>1. ASSUME NEW q \in Paths
        PROVE  /\ (hFile[q] # NoEntry => NodeAt(q, hFile[q]))'
               /\ (hTmp[q] # NoEntry => NodeAt(q, hTmp[q]))'
    <3>1. PICK y, z : y = hFile'[q] /\ z = hTmp'[q]
      OBVIOUS
    <3>2. /\ y # NoEntry => NodeAt(q, y)
          /\ z # NoEntry => NodeAt(q, z)
      BY <3>1, <1>1, <1>6, <1>11 DEF HistInv, HDiskInv, HNames
    <3>3. y # NoEntry => NodeAt(q, y)'
      BY <3>2, <1>12, NodeStays
    <3>4. z # NoEntry => NodeAt(q, z)'
      BY <3>2, <1>12, NodeStays
    <3> QED BY <3>1, <3>3, <3>4
  <2>2. HNames'
    BY <2>1, <1>1, <1>11 DEF HNames, HistInv, HDiskInv
  <2>3. ASSUME NEW y \in Places, IsWhole(hNode[y])' PROVE Holds(y, hNode[y].data)'
    <3>1. PICK c : c = hNode'[y]
      OBVIOUS
    <3>2. c = hNode[y] /\ IsWhole(hNode[y])
      BY <2>3, <3>1, <1>11 DEF IsWhole, Empty
    <3>3. Holds(y, c.data)
      BY <3>2 DEF HistInv, HDiskInv, HNodes
    <3>4. Holds(y, c.data)'
      BY <3>3, <1>12, ContentStays
    <3> QED BY <3>1, <3>4
  <2> QED BY <2>2, <2>3, <1>11 DEF HNodes
<1>13. ASSUME NEW f \in Folders, NEW n, AtRest(f, n) PROVE FileAt(<<f, n>>)' = FileAt(<<f, n>>)
  <2>1. PICK q, y : q = <<f, n>> /\ y = hFile[q]
    OBVIOUS
  <2>2. q \in Paths /\ p # q /\ NodeAt(q, y) /\ FileAt(q) = hNode[y] /\ y # NoEntry
    <3>1. q \in Paths /\ p # q /\ NodeAt(q, y) /\ FileAt(q) = hNode[y]
      BY <2>1, <1>2, <1>3, <1>13, RestIsApart
    <3>2. y # NoEntry
      BY <2>1, <1>13 DEF AtRest, FileAt, IsWhole, NoFile
    <3> QED BY <3>1, <3>2
  <2>3. y # x /\ y \in Places
    BY <2>2, <1>5, <1>6, NodesApart DEF NodeAt
  <2>4. hNode'[y] = hNode[y]
    BY <2>3, <1>11
  <2> QED BY <2>1, <2>2, <2>4, <1>1 DEF FileAt
<1> QED BY <1>1, <1>2, <1>6, <1>8, <1>9, <1>10, <1>12, <1>13, ThreadSteps

\* The temporary file is written.
LEMMA SnapshotTmpIsWritten ==
  ASSUME HistInv, NEW t \in Stamps, WriteSnapshotTmp(t)
  PROVE  HistInv'
<1>1. /\ Followed /\ hThread[t].at = "write" /\ hNow' = hNow /\ hSession' = hSession
      /\ hMade' = hMade /\ hFile' = hFile /\ hTmp' = hTmp /\ hRead' = hRead
      /\ hThread' = [hThread EXCEPT ![t].at = "replace"]
  BY DEF WriteSnapshotTmp
<1>2. Writing(t)
  BY <1>1 DEF Writing
<1>3. PICK p, x, snap : p = hThread[t].path /\ x = hThread[t].node /\ snap = Snap(t)
  OBVIOUS
<1>4. PICK c \in WrittenOver(hNode[x], snap) : hNode' = [hNode EXCEPT ![x] = c]
  BY <1>3 DEF WriteSnapshotTmp, Snap
<1>5. /\ p \in Paths /\ p[1] = snap.folder /\ HThreadOK(t) /\ Has(t)
      /\ p[2] # 0 => snap.status = "ended" /\ p[2] = snap.n
  BY <1>2, <1>3, ThreadIs
<1>6. NodeAt(p, x) /\ x \in Places
  BY <1>1, <1>3, <1>5 DEF HThreadOK, NodeAt
<1>7. PICK new : new = [hThread[t] EXCEPT !.at = "replace"]
  OBVIOUS
<1>8. /\ new = [g \in ThreadFields |-> new[g]] /\ new.at = "replace" /\ new.node = x
      /\ new.path = p /\ new.snap = snap
  BY <1>3, <1>5, <1>7 DEF HThreadOK, ThreadFields, Snap
<1>9. hThread' = [hThread EXCEPT ![t] = new]
  BY <1>1, <1>7 DEF HistInv, HDiskInv, HThreads
<1>10. p = <<snap.folder, 0>> \/ (p = <<snap.folder, snap.n>> /\ snap.status = "ended")
  BY <1>3, <1>5 DEF HThreadOK, Snap
<1>11. hNode' = [y \in Places |-> IF y = x THEN c ELSE hNode[y]]
  BY <1>4, <1>6 DEF HistInv, HDiskInv, HNodes
<1>12. IsWhole(c) => c.data = snap
  BY <1>4 DEF WrittenOver, IsWhole, Whole, Torn
<1>13. Holds(x, snap)
  BY <1>3, <1>5, <1>6 DEF Holds, NodeAt
<1>14. ASSUME Grows PROVE HNames' /\ HNodes'
  <2>1. HNames'
    <3>1. ASSUME NEW q \in Paths
          PROVE  /\ (hFile[q] # NoEntry => NodeAt(q, hFile[q]))'
                 /\ (hTmp[q] # NoEntry => NodeAt(q, hTmp[q]))'
      <4>1. PICK y, z : y = hFile[q] /\ z = hTmp[q]
        OBVIOUS
      <4>2. y # NoEntry => NodeAt(q, y)'
        BY <4>1, <1>14, NodeStays DEF HistInv, HDiskInv, HNames
      <4>3. z # NoEntry => NodeAt(q, z)'
        BY <4>1, <1>14, NodeStays DEF HistInv, HDiskInv, HNames
      <4> QED BY <4>1, <4>2, <4>3, <1>1
    <3> QED BY <3>1, <1>1 DEF HNames, HistInv, HDiskInv
  <2>2. ASSUME NEW y \in Places, IsWhole(hNode[y])' PROVE Holds(y, hNode[y].data)'
    <3>1. PICK d : d = hNode'[y].data
      OBVIOUS
    <3>2. Holds(y, d)
      <4>1. CASE y = x
        BY <4>1, <2>2, <3>1, <1>11, <1>12, <1>13
      <4>2. CASE y # x
        BY <4>2, <2>2, <3>1, <1>11 DEF HistInv, HDiskInv, HNodes
      <4> QED BY <4>1, <4>2
    <3>3. Holds(y, d)'
      BY <3>2, <1>14, ContentStays
    <3> QED BY <3>1, <3>3
  <2> QED BY <2>1, <2>2, <1>11 DEF HNodes
<1>15. ASSUME NEW f \in Folders, NEW n, AtRest(f, n) PROVE FileAt(<<f, n>>)' = FileAt(<<f, n>>)
  <2>1. PICK q, y : q = <<f, n>> /\ y = hFile[q]
    OBVIOUS
  <2>2. q \in Paths /\ p # q /\ NodeAt(q, y) /\ FileAt(q) = hNode[y]
    BY <2>1, <1>2, <1>3, <1>15, RestIsApart
  <2>3. y # NoEntry
    BY <2>1, <1>15 DEF AtRest, FileAt, IsWhole, NoFile
  <2>4. y # x /\ y \in Places
    BY <2>2, <1>5, <1>6, NodesApart DEF NodeAt
  <2>5. hNode'[y] = hNode[y]
    BY <2>4, <1>11
  <2> QED BY <2>1, <2>2, <2>3, <2>5, <1>1 DEF FileAt
<1>16. /\ new.snap = Snap(t) /\ NodeAt(new.path, new.node)
       /\ \/ new.path = <<Snap(t).folder, 0>>
          \/ new.path = <<Snap(t).folder, Snap(t).n>> /\ Snap(t).status = "ended"
  BY <1>3, <1>6, <1>8, <1>10
<1> QED BY <1>1, <1>2, <1>8, <1>9, <1>14, <1>15, <1>16, ThreadSteps

\* The record of a thread that has returned, and of one that goes on with the archive
LEMMA ReturnedIs ==
  ASSUME NEW t \in Stamps, HThreadOK(t), NEW new, new = Returned(hThread[t])
  PROVE  /\ new = [g \in ThreadFields |-> new[g]] /\ new.at = "done" /\ new.snap = Snap(t)
         /\ new.path = <<Snap(t).folder, 0>>
<1>1. new = [hThread[t] EXCEPT !.at = "done", !.path = <<Snap(t).folder, 0>>, !.node = NoEntry]
  BY DEF Returned, Snap
<1>2. hThread[t] = [g \in ThreadFields |-> hThread[t][g]]
  BY DEF HThreadOK
<1> QED BY <1>1, <1>2 DEF ThreadFields, Snap

\* Where a thread goes on after it has renamed
LEMMA AfterReplaceIs ==
  ASSUME NEW t \in Stamps, HThreadOK(t), NEW new, new = AfterReplace(hThread[t])
  PROVE  /\ new = [g \in ThreadFields |-> new[g]] /\ new.at \in {"open", "done"} /\ new.snap = Snap(t)
         /\ \/ new.path = <<Snap(t).folder, 0>>
            \/ new.path = <<Snap(t).folder, Snap(t).n>> /\ Snap(t).status = "ended"
<1>1. CASE hThread[t].path[2] = 0 /\ Snap(t).status = "ended"
  <2>1. new = [hThread[t] EXCEPT !.at = "open", !.path = <<Snap(t).folder, Snap(t).n>>, !.node = NoEntry]
    BY <1>1 DEF AfterReplace, Snap
  <2>2. hThread[t] = [g \in ThreadFields |-> hThread[t][g]]
    BY DEF HThreadOK
  <2>3. /\ new = [g \in ThreadFields |-> new[g]] /\ new.at = "open" /\ new.snap = Snap(t)
        /\ new.path = <<Snap(t).folder, Snap(t).n>>
    BY <2>1, <2>2 DEF ThreadFields, Snap
  <2> QED BY <2>3, <1>1
<1>2. CASE ~(hThread[t].path[2] = 0 /\ Snap(t).status = "ended")
  <2>1. new = Returned(hThread[t])
    BY <1>2 DEF AfterReplace, Snap
  <2> QED BY <2>1, ReturnedIs
<1> QED BY <1>1, <1>2

\* A thread returns and leaves the disk as it is.
LEMMA ThreadReturns ==
  ASSUME HistInv, NEW t \in Stamps, Writing(t), Followed,
         hThread' = [hThread EXCEPT ![t] = Returned(@)],
         hNow' = hNow, hSession' = hSession, hMade' = hMade, hRead' = hRead,
         hFile' = hFile, hTmp' = hTmp, hNode' = hNode
  PROVE  HistInv'
<1>1. PICK new : new = Returned(hThread[t])
  OBVIOUS
<1>2. hThread' = [hThread EXCEPT ![t] = new]
  BY <1>1 DEF HistInv, HDiskInv, HThreads
<1>3. /\ new = [g \in ThreadFields |-> new[g]] /\ new.at = "done" /\ new.snap = Snap(t)
      /\ new.path = <<Snap(t).folder, 0>>
  BY <1>1, ThreadIs, ReturnedIs
<1>4. Grows => HNames' /\ HNodes'
  BY DiskStays DEF HistInv, HDiskInv
<1>5. \A f \in Folders : \A n : AtRest(f, n) => FileAt(<<f, n>>)' = FileAt(<<f, n>>)
  BY DEF FileAt
<1> QED BY <1>2, <1>3, <1>4, <1>5, ThreadSteps

\* The temporary file gets its name, or another thread has renamed it already.
LEMMA SnapshotIsReplaced ==
  ASSUME HistInv, NEW t \in Stamps, ReplaceSnapshot(t)
  PROVE  HistInv'
<1>1. PICK p : p = hThread[t].path
  OBVIOUS
<1>2. /\ Followed /\ hThread[t].at = "replace" /\ hNow' = hNow /\ hSession' = hSession
      /\ hMade' = hMade /\ hRead' = hRead
      /\ \/ /\ hTmp[p] # NoEntry
            /\ hFile' = [hFile EXCEPT ![p] = hTmp[p]]
            /\ hTmp' = [hTmp EXCEPT ![p] = NoEntry]
            /\ hNode' = IF hFile[p] = NoEntry THEN hNode ELSE [hNode EXCEPT ![hFile[p]] = NoFile]
            /\ hThread' = [hThread EXCEPT ![t] = AfterReplace(@)]
         \/ /\ hThread' = [hThread EXCEPT ![t] = Returned(@)]
            /\ hFile' = hFile /\ hTmp' = hTmp /\ hNode' = hNode
  BY <1>1 DEF ReplaceSnapshot, hDisk
<1>3. Writing(t)
  BY <1>2 DEF Writing
<1>4. CASE /\ hThread' = [hThread EXCEPT ![t] = Returned(@)]
           /\ hFile' = hFile /\ hTmp' = hTmp /\ hNode' = hNode
  BY <1>2, <1>3, <1>4, ThreadReturns
<1>5. CASE /\ hTmp[p] # NoEntry
           /\ hFile' = [hFile EXCEPT ![p] = hTmp[p]]
           /\ hTmp' = [hTmp EXCEPT ![p] = NoEntry]
           /\ hNode' = IF hFile[p] = NoEntry THEN hNode ELSE [hNode EXCEPT ![hFile[p]] = NoFile]
           /\ hThread' = [hThread EXCEPT ![t] = AfterReplace(@)]
  <2>1. p \in Paths /\ HThreadOK(t)
    BY <1>1, <1>3, ThreadIs
  <2>2. PICK new : new = AfterReplace(hThread[t])
    OBVIOUS
  <2>3. hThread' = [hThread EXCEPT ![t] = new]
    BY <2>2, <1>5 DEF HistInv, HDiskInv, HThreads
  <2>4. /\ new = [g \in ThreadFields |-> new[g]] /\ new.at \in {"open", "done"} /\ new.snap = Snap(t)
        /\ \/ new.path = <<Snap(t).folder, 0>>
           \/ new.path = <<Snap(t).folder, Snap(t).n>> /\ Snap(t).status = "ended"
    BY <2>1, <2>2, AfterReplaceIs
  <2>5. /\ hFile' = [q \in Paths |-> IF q = p THEN hTmp[p] ELSE hFile[q]]
        /\ hTmp' = [q \in Paths |-> IF q = p THEN NoEntry ELSE hTmp[q]]
    BY <2>1, <1>5 DEF HistInv, HDiskInv, HNames
  <2>6. hFile[p] # NoEntry => NodeAt(p, hFile[p]) /\ hFile[p] \in Places
    BY <2>1 DEF HistInv, HDiskInv, HNames, NodeAt
  <2>7. hNode' = [y \in Places |-> IF hFile[p] # NoEntry /\ y = hFile[p] THEN NoFile ELSE hNode[y]]
    <3>1. hNode = [y \in Places |-> hNode[y]]
      BY DEF HistInv, HDiskInv, HNodes
    <3>2. CASE hFile[p] = NoEntry
      BY <3>1, <3>2, <1>5
    <3>3. CASE hFile[p] # NoEntry
      <4>1. PICK z : z = hFile[p]
        OBVIOUS
      <4>2. hNode' = [hNode EXCEPT ![z] = NoFile]
        BY <4>1, <3>3, <1>5
      <4>3. hNode' = [y \in Places |-> IF y = z THEN NoFile ELSE hNode[y]]
        BY <4>2, <3>1
      <4> QED BY <4>1, <4>3, <3>3
    <3> QED BY <3>2, <3>3
  <2>8. ASSUME Grows PROVE HNames' /\ HNodes'
    <3>1. HNames'
      <4>1. ASSUME NEW q \in Paths
            PROVE  /\ (hFile[q] # NoEntry => NodeAt(q, hFile[q]))'
                   /\ (hTmp[q] # NoEntry => NodeAt(q, hTmp[q]))'
        <5>1. PICK y, z : y = hFile'[q] /\ z = hTmp'[q]
          OBVIOUS
        <5>2. (y # NoEntry => NodeAt(q, y)) /\ (z # NoEntry => NodeAt(q, z))
          BY <5>1, <2>1, <2>5 DEF HistInv, HDiskInv, HNames
        <5>3. y # NoEntry => NodeAt(q, y)'
          BY <5>2, <2>8, NodeStays
        <5>4. z # NoEntry => NodeAt(q, z)'
          BY <5>2, <2>8, NodeStays
        <5> QED BY <5>1, <5>3, <5>4
      <4> QED BY <4>1, <2>5 DEF HNames
    <3>2. ASSUME NEW y \in Places, IsWhole(hNode[y])' PROVE Holds(y, hNode[y].data)'
      <4>1. PICK d : d = hNode'[y].data
        OBVIOUS
      <4>2. hNode'[y] = hNode[y]
        BY <3>2, <2>7 DEF IsWhole, NoFile
      <4>3. Holds(y, d)
        BY <3>2, <4>1, <4>2 DEF HistInv, HDiskInv, HNodes
      <4>4. Holds(y, d)'
        BY <4>3, <2>8, ContentStays
      <4> QED BY <4>1, <4>4
    <3> QED BY <3>1, <3>2, <2>7 DEF HNodes
  <2>9. ASSUME NEW f \in Folders, NEW n, AtRest(f, n) PROVE FileAt(<<f, n>>)' = FileAt(<<f, n>>)
    <3>1. PICK q, y : q = <<f, n>> /\ y = hFile[q]
      OBVIOUS
    <3>2. q \in Paths /\ p # q /\ NodeAt(q, y) /\ FileAt(q) = hNode[y]
      BY <3>1, <1>1, <1>3, <2>9, RestIsApart
    <3>3. y # NoEntry
      BY <3>1, <2>9 DEF AtRest, FileAt, IsWhole, NoFile
    <3>4. hFile[p] # NoEntry => y # hFile[p]
      BY <3>2, <2>1, <2>6, NodesApart
    <3>5. hNode'[y] = hNode[y] /\ hFile'[q] = y
      BY <3>1, <3>2, <3>4, <2>5, <2>7 DEF NodeAt
    <3> QED BY <3>1, <3>2, <3>3, <3>5 DEF FileAt
  <2> QED BY <1>2, <1>3, <2>3, <2>4, <2>8, <2>9, ThreadSteps
<1> QED BY <1>2, <1>4, <1>5

\* The disk refuses.
LEMMA PersistFails ==
  ASSUME HistInv, NEW t \in Stamps, PersistGivesUp(t)
  PROVE  HistInv'
BY ThreadReturns DEF PersistGivesUp, hDisk, Writing

-----------------------------------------------------------------------------
\* What a path on disk yields
LEMMA LoadedIs ==
  ASSUME HDiskInv, NEW p \in Paths
  PROVE  \/ Loaded(p) = <<>> /\ ~IsWhole(FileAt(p))
         \/ \E d \in Snapshots :
              /\ Loaded(p) = <<d>> /\ IsWhole(FileAt(p)) /\ hFile[p] # NoEntry
              /\ d.folder = p[1] /\ d.at <= hNow
              /\ p[2] # 0 => d.status = "ended" /\ d.n = p[2]
              /\ \E u \in Stamps : IsOf(u, p[1], d.n) /\ Snap(u) = d /\ d.at = u
<1>1. CASE ~IsWhole(FileAt(p))
  BY <1>1 DEF Loaded
<1>2. CASE IsWhole(FileAt(p))
  <2>1. PICK x, d : x = hFile[p] /\ d = FileAt(p).data
    OBVIOUS
  <2>2. x # NoEntry /\ FileAt(p) = hNode[x]
    BY <2>1, <1>2 DEF FileAt, IsWhole, NoFile
  <2>3. NodeAt(p, x) /\ x \in Places
    BY <2>1, <2>2 DEF HDiskInv, HNames, NodeAt
  <2>4. Holds(x, d)
    BY <2>1, <2>2, <2>3, <1>2 DEF HDiskInv, HNodes
  <2>5. PICK u \in Stamps : /\ Has(u) /\ Snap(u) = d /\ d.folder = Snap(x[1]).folder
                            /\ x[2] # 0 => d.status = "ended" /\ d.n = x[2]
    BY <2>4 DEF Holds
  <2>6. HThreadOK(u)
    BY <2>5 DEF HDiskInv, HThreads
  <2>7. d \in Snapshots /\ d.at = u /\ u <= hNow
    BY <2>5, <2>6 DEF HThreadOK, Snap
  <2>8. d.folder = p[1] /\ (p[2] # 0 => d.status = "ended" /\ d.n = p[2])
    BY <2>3, <2>5 DEF NodeAt
  <2>9. Loaded(p) = <<d>>
    BY <2>1, <1>2 DEF Loaded
  <2> QED BY <1>2, <2>1, <2>2, <2>5, <2>7, <2>8, <2>9 DEF IsOf
<1> QED BY <1>1, <1>2

\* More is found.
LEMMA MoreIsSeen ==
  ASSUME HDiskInv, NEW f \in Folders, NEW k \in 0 .. MaxStamp, NEW L, LoadBase(L, f),
         NEW M, M.seen = L.seen \o Loaded(<<f, k>>), M.mem = L.mem, M.over = L.over
  PROVE  /\ LoadBase(M, f)
         /\ \A n : SeenEnded(L, f, n) => SeenEnded(M, f, n)
         /\ k # 0 /\ IsWhole(FileAt(<<f, k>>)) => SeenEnded(M, f, k)
<1>1. PICK p : p = <<f, k>> /\ p \in Paths /\ p[1] = f /\ p[2] = k
  BY DEF Paths
<1>2. PICK old : old = L.seen
  OBVIOUS
<1>3. old \in Seq(Snapshots) /\ Len(old) \in Nat /\ DOMAIN old = 1 .. Len(old)
  BY <1>2 DEF LoadBase
<1>4. CASE Loaded(p) = <<>> /\ ~IsWhole(FileAt(p))
  <2>1. old \o <<>> = old
    BY <1>3, ConcatEmptySeq
  <2>2. M.seen = old
    BY <2>1, <1>1, <1>2, <1>4
  <2>3. LoadBase(M, f)
    <3>1. /\ old \in Seq(Snapshots) /\ \A j \in DOMAIN old : old[j].at <= hNow
          /\ \A i \in DOMAIN L.mem : \E j \in DOMAIN old : old[j] = L.mem[i]
      BY <1>2 DEF LoadBase
    <3>2. \A n \in L.over : \A j \in DOMAIN old : old[j].n = n /\ old[j].status # "ended" =>
            \E t \in Stamps : IsOf(t, f, n) /\ Snap(t) = old[j]
      BY <1>2 DEF LoadBase
    <3>3. \A i \in DOMAIN M.mem : \E j \in DOMAIN M.seen : M.seen[j] = M.mem[i]
      BY <3>1, <2>2
    <3>4. M.seen \in Seq(Snapshots) /\ \A j \in DOMAIN M.seen : M.seen[j].at <= hNow
      BY <3>1, <2>2
    <3>5. \A n \in M.over : \A j \in DOMAIN M.seen : M.seen[j].n = n /\ M.seen[j].status # "ended" =>
            \E t \in Stamps : IsOf(t, f, n) /\ Snap(t) = M.seen[j]
      BY <3>2, <2>2
    <3> QED BY <3>3, <3>4, <3>5 DEF LoadBase
  <2>4. \A n : SeenEnded(L, f, n) => SeenEnded(M, f, n)
    BY <2>2, <1>2 DEF SeenEnded
  <2> QED BY <2>3, <2>4, <1>1, <1>4
<1>5. CASE \E d \in Snapshots :
              /\ Loaded(p) = <<d>> /\ IsWhole(FileAt(p)) /\ hFile[p] # NoEntry
              /\ d.folder = p[1] /\ d.at <= hNow
              /\ p[2] # 0 => d.status = "ended" /\ d.n = p[2]
              /\ \E u \in Stamps : IsOf(u, p[1], d.n) /\ Snap(u) = d /\ d.at = u
  <2>1. PICK d \in Snapshots :
              /\ Loaded(p) = <<d>> /\ IsWhole(FileAt(p)) /\ hFile[p] # NoEntry
              /\ d.folder = p[1] /\ d.at <= hNow
              /\ p[2] # 0 => d.status = "ended" /\ d.n = p[2]
              /\ \E u \in Stamps : IsOf(u, p[1], d.n) /\ Snap(u) = d /\ d.at = u
    BY <1>5
  <2>2. PICK u \in Stamps : IsOf(u, f, d.n) /\ Snap(u) = d /\ d.at = u
    BY <2>1, <1>1
  <2>3. PICK new : new = old \o <<d>>
    OBVIOUS
  <2>4. /\ new \in Seq(Snapshots) /\ DOMAIN new = 1 .. Len(old) + 1 /\ new[Len(old) + 1] = d
        /\ \A j \in 1 .. Len(old) : new[j] = old[j] /\ j \in DOMAIN new
        /\ Len(old) + 1 \in DOMAIN new
    BY <2>3, <1>3
  <2>5. \A j \in DOMAIN new : j \in DOMAIN old \/ j = Len(old) + 1
    BY <2>4, <1>3
  <2>6. M.seen = new
    BY <2>1, <2>3, <1>1, <1>2
  <2>7. LoadBase(M, f)
    <3>1. \A j \in DOMAIN new : new[j].at <= hNow
      BY <2>1, <2>4, <2>5, <1>2, <1>3 DEF LoadBase
    <3>2. \A i \in DOMAIN L.mem : \E j \in DOMAIN new : new[j] = L.mem[i]
      BY <2>4, <1>2, <1>3 DEF LoadBase
    <3>3. ASSUME NEW n \in L.over, NEW j \in DOMAIN new, new[j].n = n, new[j].status # "ended"
          PROVE  \E t \in Stamps : IsOf(t, f, n) /\ Snap(t) = new[j]
      <4>1. CASE j = Len(old) + 1
        BY <4>1, <3>3, <2>2, <2>4
      <4>2. CASE j \in DOMAIN old
        BY <4>2, <3>3, <2>4, <1>2, <1>3 DEF LoadBase
      <4> QED BY <4>1, <4>2, <2>5
    <3>4. \A i \in DOMAIN M.mem : \E j \in DOMAIN M.seen : M.seen[j] = M.mem[i]
      BY <3>2, <2>6
    <3>5. M.seen \in Seq(Snapshots) /\ \A j \in DOMAIN M.seen : M.seen[j].at <= hNow
      BY <3>1, <2>4, <2>6
    <3>6. \A n \in M.over : \A j \in DOMAIN M.seen : M.seen[j].n = n /\ M.seen[j].status # "ended" =>
            \E t \in Stamps : IsOf(t, f, n) /\ Snap(t) = M.seen[j]
      BY <3>3, <2>6
    <3> QED BY <3>4, <3>5, <3>6 DEF LoadBase
  <2>8. ASSUME NEW n, SeenEnded(L, f, n) PROVE SeenEnded(M, f, n)
    <3>1. PICK j \in DOMAIN old, t \in Stamps :
            /\ old[j].n = n /\ old[j].status = "ended"
            /\ IsOf(t, f, n) /\ Snap(t).status = "ended" /\ t <= old[j].at
      BY <2>8, <1>2 DEF SeenEnded
    <3>2. j \in DOMAIN new /\ new[j] = old[j]
      BY <2>4, <1>3
    <3> QED BY <3>1, <3>2, <2>6 DEF SeenEnded
  <2>9. ASSUME k # 0 PROVE SeenEnded(M, f, k)
    <3>1. /\ new[Len(old) + 1].n = k /\ new[Len(old) + 1].status = "ended" /\ IsOf(u, f, k)
          /\ Snap(u).status = "ended" /\ u <= new[Len(old) + 1].at
      BY <2>9, <2>1, <2>2, <2>4, <1>1 DEF Stamps
    <3> QED BY <3>1, <2>4, <2>6 DEF SeenEnded
  <2> QED BY <2>7, <2>8, <2>9
<1> QED BY <1>1, <1>4, <1>5, LoadedIs

\* A finished load
LEMMA MergeIsSound ==
  ASSUME HDiskInv, NEW f \in Folders, NEW M, LoadBase(M, f), M = [g \in LoadFields |-> M[g]],
         M.todo = {}, \A n \in M.over : SeenEnded(M, f, n),
         NEW new, new = MergeLoaded(M)
  PROVE  new = [g \in LoadFields |-> new[g]] /\ LoadOK(new, f)
<1>1. new = [M EXCEPT !.at = "done", !.seen = <<>>, !.kept = Dedupe(M.seen)]
  BY DEF MergeLoaded
<1>2. /\ new = [g \in LoadFields |-> new[g]] /\ new.at = "done" /\ new.mem = M.mem /\ new.todo = M.todo
      /\ new.over = M.over /\ new.kept = Dedupe(M.seen)
  BY <1>1 DEF LoadFields
<1> DEFINE seen == M.seen
           kept == Dedupe(seen)
<1>3. seen = M.seen
  OBVIOUS
<1>4. kept = Dedupe(seen)
  OBVIOUS
<1>5. /\ seen \in Seq(Snapshots) /\ (\A j \in DOMAIN seen : seen[j].at <= hNow) /\ hNow \in Nat
  <2>1. hNow \in Nat
    BY HistoryAssumption DEF HDiskInv, HSessions
  <2>2. seen \in Seq(Snapshots) /\ \A j \in DOMAIN seen : seen[j].at <= hNow
    BY <1>3 DEF LoadBase
  <2> QED BY <2>1, <2>2
<1>6. /\ \A j \in DOMAIN seen : \E x \in kept : x.n = seen[j].n /\ x.at >= seen[j].at
      /\ \A x \in kept : \E k \in DOMAIN seen :
              x = seen[k] /\ \A j \in DOMAIN seen : seen[j].n = x.n => seen[j].at <= x.at
  <2> HIDE DEF seen
  <2> QED BY <1>5, DedupeKeeps
<1> HIDE DEF seen, kept
<1>7. \A i \in DOMAIN M.mem : \E x \in kept : x.n = M.mem[i].n /\ x.at >= M.mem[i].at
  <2> TAKE i \in DOMAIN M.mem
  <2>1. PICK j \in DOMAIN seen : seen[j] = M.mem[i]
    BY <1>3 DEF LoadBase
  <2>2. PICK x \in kept : x.n = seen[j].n /\ x.at >= seen[j].at
    BY <1>6
  <2> QED BY <2>1, <2>2
<1>8. ASSUME NEW n \in M.over, ~Broken(f, n)
      PROVE  /\ \A x \in kept : x.n = n => x.status = "ended"
             /\ \E x \in kept : x.n = n
  <2>1. PICK j \in DOMAIN seen, t \in Stamps :
            /\ seen[j].n = n /\ seen[j].status = "ended"
            /\ IsOf(t, f, n) /\ Snap(t).status = "ended" /\ t <= seen[j].at
    BY <1>3, <1>8 DEF SeenEnded
  <2>2. \E x \in kept : x.n = n
    BY <2>1, <1>6
  <2>3. ASSUME NEW x \in kept, x.n = n, x.status # "ended" PROVE FALSE
    <3>1. PICK k \in DOMAIN seen : x = seen[k] /\ seen[j].at <= x.at
      BY <2>1, <2>3, <1>6
    <3>2. PICK u \in Stamps : IsOf(u, f, n) /\ Snap(u) = x
      BY <2>3, <3>1, <1>3, <1>8 DEF LoadBase
    <3>3. x.at = u
      BY <3>2 DEF HDiskInv, HThreads, HThreadOK, IsOf, Snap
    <3>4. seen[j].at \in Nat
      <4>1. \A y \in Snapshots : y.at \in Nat
        BY DEF Snapshots
      <4> QED BY <4>1, <1>5
    <3>5. t \in Nat /\ u \in Nat
      BY DEF Stamps
    <3>6. t <= u
      BY <2>1, <3>1, <3>3, <3>4, <3>5
    <3>7. t # u
      BY <2>1, <2>3, <3>2
    <3>8. t < u
      BY <3>5, <3>6, <3>7
    <3> QED BY <2>1, <2>3, <3>2, <3>8, <1>8 DEF Broken
  <2> QED BY <2>2, <2>3
<1>9. \A i \in DOMAIN new.mem : \E x \in new.kept : x.n = new.mem[i].n /\ x.at >= new.mem[i].at
  BY <1>2, <1>3, <1>4, <1>7
<1>10. \A n \in new.over : ~Broken(f, n) =>
        (\A x \in new.kept : x.n = n => x.status = "ended") /\ \E x \in new.kept : x.n = n
  BY <1>2, <1>3, <1>4, <1>8
<1>11. new.at = "done" /\ new.at \notin UnderLoad
  BY <1>2 DEF UnderLoad
<1> QED BY <1>2, <1>9, <1>10, <1>11 DEF LoadOK

-----------------------------------------------------------------------------
HWorldStays ==
  /\ hNow' = hNow /\ hSession' = hSession /\ hMade' = hMade /\ hThread' = hThread
  /\ hFile' = hFile /\ hTmp' = hTmp /\ hNode' = hNode

\* A step of the request changes nothing but the request.
LEMMA WorldStays ==
  ASSUME HDiskInv, HWorldStays
  PROVE  /\ HDiskInv' /\ Grows
         /\ \A f, n : AtRest(f, n)' <=> AtRest(f, n)
         /\ \A f, n : Broken(f, n)' <=> Broken(f, n)
         /\ \A f, n : Over(f, n)' <=> Over(f, n)
<1>1. \A t \in Stamps : (Has(t)' <=> Has(t)) /\ Snap(t)' = Snap(t)
  BY DEF HWorldStays, Has, Snap
<1>2. Grows
  <2>1. hNow \in Nat /\ \A f \in Folders : hMade[f] \in Nat
    BY HistoryAssumption DEF HDiskInv, HSessions, HSessionOK
  <2> QED BY <2>1, <1>1 DEF Grows, HWorldStays
<1>3. HSessions'
  BY DEF HDiskInv, HSessions, HSessionOK, HWorldStays
<1>4. HThreads'
  BY <1>2, ThreadStays DEF HDiskInv, HThreads, HWorldStays, Has
<1>5. HNames' /\ HNodes'
  BY <1>2, DiskStays DEF HDiskInv, HWorldStays
<1>6. \A f, n : \A t \in Stamps : IsOf(t, f, n)' <=> IsOf(t, f, n)
  BY <1>1 DEF IsOf
<1>7. \A f, n : AtRest(f, n)' <=> AtRest(f, n)
  BY <1>6 DEF AtRest, Writing, FileAt, HWorldStays
<1>8. \A f, n : Broken(f, n)' <=> Broken(f, n)
  BY <1>1, <1>6 DEF Broken
<1>9. \A f, n : Over(f, n)' <=> Over(f, n)
  BY DEF Over, Built, HWorldStays
<1> QED BY <1>2, <1>3, <1>4, <1>5, <1>7, <1>8, <1>9 DEF HDiskInv

\* The load of one folder goes on.
LEMMA OneLoads ==
  ASSUME HistInv, HWorldStays, NEW f \in Folders, hRead.at = "loading",
         NEW new, new = [g \in LoadFields |-> new[g]], LoadOK(new, f),
         hRead' = [hRead EXCEPT !.load[f] = new]
  PROVE  HistInv'
<1>1. HDiskInv' /\ Grows /\ \A g, n : AtRest(g, n)' <=> AtRest(g, n)
  BY WorldStays DEF HistInv
<1>2. PICK old : old = hRead.load
  OBVIOUS
<1>3. old = [g \in Folders |-> old[g]] /\ hRead = [g \in ReadFields |-> hRead[g]]
  BY <1>2 DEF HistInv, HReadOK
<1>4. PICK load : load = [old EXCEPT ![f] = new]
  OBVIOUS
<1>5. hRead' = [hRead EXCEPT !.load = load]
  BY <1>2, <1>4
<1>6. hRead' = [g \in ReadFields |-> hRead'[g]] /\ hRead'.at = "loading" /\ hRead'.load = load
  BY <1>3, <1>5 DEF ReadFields
<1>7. load = [g \in Folders |-> IF g = f THEN new ELSE old[g]]
  BY <1>3, <1>4
<1>8. ASSUME NEW g \in Folders
      PROVE  LoadOK(load[g], g)' /\ load[g] = [h \in LoadFields |-> load[g][h]]
  <2>1. PICK L : L = load[g]
    OBVIOUS
  <2>2. LoadOK(L, g) /\ L = [h \in LoadFields |-> L[h]]
    BY <2>1, <1>2, <1>7 DEF HistInv, HReadOK
  <2>3. LoadOK(L, g)'
    BY <2>2, <1>1, LoadStays
  <2> QED BY <2>1, <2>2, <2>3
<1>9. AnswerNotStale' /\ EndedStaysEnded'
  BY <1>6 DEF AnswerNotStale, EndedStaysEnded
<1>10. HReadOK'
  <2>1. hRead'.load = [g \in Folders |-> hRead'.load[g]]
    BY <1>6, <1>7
  <2>2. ASSUME NEW g \in Folders
        PROVE  /\ LoadOK(hRead.load[g], g)'
               /\ hRead'.load[g] = [h \in LoadFields |-> hRead'.load[g][h]]
    <3>1. PICK M : M = load[g]
      OBVIOUS
    <3>2. LoadOK(M, g)' /\ M = [h \in LoadFields |-> M[h]]
      BY <3>1, <1>8
    <3>3. hRead'.load[g] = M
      BY <3>1, <1>6
    <3> QED BY <3>2, <3>3
  <2> QED BY <2>1, <2>2, <1>6 DEF HReadOK
<1> QED BY <1>1, <1>9, <1>10 DEF HistInv

\* latest.json is loaded.
LEMMA LatestIsLoaded ==
  ASSUME HistInv, NEW f \in Folders, LoadLatest(f)
  PROVE  HistInv'
<1>1. PICK L : L = hRead.load[f]
  OBVIOUS
<1>2. PICK new : new = [L EXCEPT !.at = "list", !.seen = @ \o Loaded(<<f, 0>>)]
  OBVIOUS
<1>3. hRead.at = "loading" /\ L.at = "latest" /\ HWorldStays
  BY <1>1 DEF LoadLatest, HWorldStays, hDisk
<1>4. hRead' = [hRead EXCEPT !.load[f] = new]
  BY <1>1, <1>2 DEF LoadLatest
<1>5. L = [g \in LoadFields |-> L[g]] /\ LoadOK(L, f)
  BY <1>1, <1>3 DEF HistInv, HReadOK
<1>6. /\ new = [g \in LoadFields |-> new[g]] /\ new.at = "list" /\ new.mem = L.mem
      /\ new.over = L.over /\ new.todo = L.todo /\ new.seen = L.seen \o Loaded(<<f, 0>>)
  BY <1>2, <1>5 DEF LoadFields
<1>7. LoadBase(L, f) /\ \A n \in L.over : SeenEnded(L, f, n) \/ AtRest(f, n)
  BY <1>3, <1>5 DEF LoadOK, UnderLoad
<1>8. LoadBase(new, f) /\ \A n : SeenEnded(L, f, n) => SeenEnded(new, f, n)
  <2>1. 0 \in 0 .. MaxStamp
    BY HistoryAssumption
  <2> QED BY <2>1, <1>6, <1>7, MoreIsSeen DEF HistInv
<1>9. LoadOK(new, f)
  <2>1. new.todo = {}
    BY <1>3, <1>5, <1>6 DEF LoadOK
  <2>2. \A n \in new.over : SeenEnded(new, f, n) \/ AtRest(f, n)
    BY <1>6, <1>7, <1>8
  <2> QED BY <2>1, <2>2, <1>6, <1>8 DEF LoadOK, UnderLoad
<1> QED BY <1>3, <1>4, <1>6, <1>9, OneLoads

\* A load that has come across the same
LEMMA SameSeen ==
  ASSUME NEW f, NEW L, LoadBase(L, f), NEW M, M.seen = L.seen, M.mem = L.mem, M.over = L.over
  PROVE  LoadBase(M, f) /\ \A n : SeenEnded(L, f, n) => SeenEnded(M, f, n)
<1>1. PICK s, m, o : s = L.seen /\ m = L.mem /\ o = L.over
  OBVIOUS
<1>2. /\ s \in Seq(Snapshots) /\ \A j \in DOMAIN s : s[j].at <= hNow
      /\ \A i \in DOMAIN m : \E j \in DOMAIN s : s[j] = m[i]
  BY <1>1 DEF LoadBase
<1>3. \A n \in o : \A j \in DOMAIN s : s[j].n = n /\ s[j].status # "ended" =>
        \E t \in Stamps : IsOf(t, f, n) /\ Snap(t) = s[j]
  BY <1>1 DEF LoadBase
<1>4. M.seen = s /\ M.mem = m /\ M.over = o
  BY <1>1
<1>5. M.seen \in Seq(Snapshots) /\ \A j \in DOMAIN M.seen : M.seen[j].at <= hNow
  BY <1>2, <1>4
<1>6. \A i \in DOMAIN M.mem : \E j \in DOMAIN M.seen : M.seen[j] = M.mem[i]
  BY <1>2, <1>4
<1>7. \A n \in M.over : \A j \in DOMAIN M.seen : M.seen[j].n = n /\ M.seen[j].status # "ended" =>
        \E t \in Stamps : IsOf(t, f, n) /\ Snap(t) = M.seen[j]
  BY <1>3, <1>4
<1>8. LoadBase(M, f)
  BY <1>5, <1>6, <1>7 DEF LoadBase
<1>9. \A n : SeenEnded(L, f, n) => SeenEnded(M, f, n)
  BY <1>1, <1>4 DEF SeenEnded
<1> QED BY <1>8, <1>9

\* The archives are listed.
LEMMA ArchiveIsListed ==
  ASSUME HistInv, NEW f \in Folders, ListArchive(f)
  PROVE  HistInv'
<1>1. PICK L, names : L = hRead.load[f] /\ names = {n \in 1 .. hMade[f] : hFile[<<f, n>>] # NoEntry}
  OBVIOUS
<1>2. hRead.at = "loading" /\ L.at = "list" /\ HWorldStays
  BY <1>1 DEF ListArchive, HWorldStays, hDisk
<1>3. L = [g \in LoadFields |-> L[g]] /\ LoadOK(L, f)
  BY <1>1, <1>2 DEF HistInv, HReadOK
<1>4. LoadBase(L, f) /\ (\A n \in L.over : SeenEnded(L, f, n) \/ AtRest(f, n)) /\ L.todo = {}
  BY <1>2, <1>3 DEF LoadOK, UnderLoad
<1>5. \A n : AtRest(f, n) => n \in names
  BY <1>1 DEF AtRest, FileAt, IsWhole, NoFile
<1>6. CASE names = {}
  <2>1. PICK new : new = MergeLoaded(L)
    OBVIOUS
  <2>2. hRead' = [hRead EXCEPT !.load[f] = new]
    BY <2>1, <1>1, <1>6 DEF ListArchive, HistInv, HReadOK, ReadFields
  <2>3. \A n \in L.over : SeenEnded(L, f, n)
    BY <1>4, <1>5, <1>6
  <2>4. new = [g \in LoadFields |-> new[g]] /\ LoadOK(new, f)
    BY <2>1, <2>3, <1>3, <1>4, MergeIsSound DEF HistInv
  <2> QED BY <2>2, <2>4, <1>2, OneLoads
<1>7. CASE names # {}
  <2>1. PICK new : new = [L EXCEPT !.at = "files", !.todo = names]
    OBVIOUS
  <2>2. hRead' = [hRead EXCEPT !.load[f] = new]
    BY <2>1, <1>1, <1>7 DEF ListArchive, HistInv, HReadOK, ReadFields
  <2>3. /\ new = [g \in LoadFields |-> new[g]] /\ new.at = "files" /\ new.mem = L.mem
        /\ new.over = L.over /\ new.todo = names /\ new.seen = L.seen
    BY <2>1, <1>3 DEF LoadFields
  <2>4. LoadBase(new, f) /\ \A n : SeenEnded(L, f, n) => SeenEnded(new, f, n)
    BY <2>3, <1>4, SameSeen
  <2>5. \A n \in new.over : SeenEnded(new, f, n) \/ (AtRest(f, n) /\ n \in new.todo)
    BY <2>3, <2>4, <1>4, <1>5
  <2>6. LoadOK(new, f)
    BY <2>3, <2>4, <2>5 DEF LoadOK, UnderLoad
  <2> QED BY <2>2, <2>3, <2>6, <1>2, OneLoads
<1> QED BY <1>6, <1>7

\* An archive is loaded.
LEMMA ArchiveIsLoaded ==
  ASSUME HistInv, NEW f \in Folders, NEW n \in Stamps, LoadArchived(f, n)
  PROVE  HistInv'
<1>1. PICK L : L = hRead.load[f]
  OBVIOUS
<1>2. PICK more : more = [L EXCEPT !.todo = @ \ {n}, !.seen = @ \o Loaded(<<f, n>>)]
  OBVIOUS
<1>3. hRead.at = "loading" /\ n \in L.todo /\ HWorldStays
  BY <1>1 DEF LoadArchived, HWorldStays, hDisk
<1>4. L = [g \in LoadFields |-> L[g]] /\ LoadOK(L, f)
  BY <1>1, <1>3 DEF HistInv, HReadOK
<1>5. /\ more = [g \in LoadFields |-> more[g]] /\ more.at = L.at /\ more.mem = L.mem
      /\ more.over = L.over /\ more.todo = L.todo \ {n} /\ more.seen = L.seen \o Loaded(<<f, n>>)
  BY <1>2, <1>4 DEF LoadFields
<1>6. L.at = "files"
  BY <1>3, <1>4 DEF LoadOK
<1>7. LoadBase(L, f) /\ \A m \in L.over : SeenEnded(L, f, m) \/ (AtRest(f, m) /\ m \in L.todo)
  BY <1>4, <1>6 DEF LoadOK, UnderLoad
<1>8. /\ LoadBase(more, f) /\ \A m : SeenEnded(L, f, m) => SeenEnded(more, f, m)
      /\ IsWhole(FileAt(<<f, n>>)) => SeenEnded(more, f, n)
  <2>1. n \in 0 .. MaxStamp /\ n # 0
    BY HistoryAssumption DEF Stamps
  <2> QED BY <2>1, <1>5, <1>7, MoreIsSeen DEF HistInv
<1>9. \A m \in more.over : SeenEnded(more, f, m) \/ (AtRest(f, m) /\ m \in more.todo)
  BY <1>5, <1>7, <1>8 DEF AtRest
<1>10. CASE more.todo = {}
  <2>1. PICK new : new = MergeLoaded(more)
    OBVIOUS
  <2>2. hRead' = [hRead EXCEPT !.load[f] = new]
    BY <2>1, <1>1, <1>2, <1>10 DEF LoadArchived, HistInv, HReadOK, ReadFields
  <2>3. \A m \in more.over : SeenEnded(more, f, m)
    BY <1>9, <1>10
  <2>4. new = [g \in LoadFields |-> new[g]] /\ LoadOK(new, f)
    BY <2>1, <2>3, <1>5, <1>8, <1>10, MergeIsSound DEF HistInv
  <2> QED BY <2>2, <2>4, <1>3, OneLoads
<1>11. CASE more.todo # {}
  <2>1. hRead' = [hRead EXCEPT !.load[f] = more]
    BY <1>1, <1>2, <1>11 DEF LoadArchived, HistInv, HReadOK, ReadFields
  <2>2. LoadOK(more, f)
    BY <1>5, <1>6, <1>8, <1>9 DEF LoadOK, UnderLoad
  <2> QED BY <2>1, <2>2, <1>3, <1>5, OneLoads
<1> QED BY <1>10, <1>11

-----------------------------------------------------------------------------
\* What is in memory
LEMMA MemoryIs ==
  ASSUME HDiskInv, NEW f \in Folders
  PROVE  \/ InMemory(f) = <<>> /\ hSession[f].n = 0
         \/ \E s \in Snapshots :
              /\ InMemory(f) = <<s>> /\ s.n = hSession[f].n /\ s.status = hSession[f].status
              /\ s.at = hNow /\ hSession[f].n # 0 /\ s.status # "none"
<1>1. HSessionOK(f) /\ hNow \in Nat
  BY HistoryAssumption DEF HDiskInv, HSessions
<1>2. CASE hSession[f].n = 0
  BY <1>2 DEF InMemory
<1>3. CASE hSession[f].n # 0
  <2>1. PICK s : s = HistorySnapshot(f, hSession[f], hNow)
    OBVIOUS
  <2>2. PICK x \in Sessions : x = hSession[f]
    BY <1>1 DEF HSessionOK
  <2>3. s = [folder |-> f, n |-> x.n, status |-> x.status, hit |-> x.hit, at |-> hNow]
    BY <2>1, <2>2 DEF HistorySnapshot
  <2>4. x.n \in Nat /\ x.status \in {"active", "ended", "none"} /\ x.hit \in BOOLEAN
    BY DEF Sessions
  <2>5. s \in Snapshots /\ s.n = x.n /\ s.status = x.status /\ s.at = hNow
    BY <2>3, <2>4, <1>1 DEF Snapshots
  <2>6. x.n # 0 /\ x.status # "none"
    BY <2>2, <1>1, <1>3 DEF HSessionOK
  <2>7. InMemory(f) = <<s>>
    BY <2>1, <1>3 DEF InMemory
  <2> QED BY <2>2, <2>5, <2>6, <2>7
<1> QED BY <1>2, <1>3

\* A load that has only looked into memory
LEMMA FreshLoad ==
  ASSUME HDiskInv, NEW f \in Folders, NEW L, L.at = "latest", L.mem = InMemory(f),
         L.seen = InMemory(f), L.todo = {}, L.over = {n \in 1 .. hMade[f] : Archived(f, n)}
  PROVE  LoadOK(L, f)
<1>1. PICK found, over : found = InMemory(f) /\ over = {n \in 1 .. hMade[f] : Archived(f, n)}
  OBVIOUS
<1>2. L.mem = found /\ L.seen = found /\ L.over = over
  BY <1>1
<1>3. /\ found \in Seq(Snapshots)
      /\ \A j \in DOMAIN found : found[j].n = hSession[f].n /\ found[j].status = hSession[f].status
                                 /\ found[j].at = hNow
      /\ hSession[f].n # 0 => 1 \in DOMAIN found /\ found[1].status # "none"
  <2>1. CASE InMemory(f) = <<>> /\ hSession[f].n = 0
    BY <2>1, <1>1
  <2>2. CASE \E s \in Snapshots :
              /\ InMemory(f) = <<s>> /\ s.n = hSession[f].n /\ s.status = hSession[f].status
              /\ s.at = hNow /\ hSession[f].n # 0 /\ s.status # "none"
    <3>1. PICK s \in Snapshots :
              /\ InMemory(f) = <<s>> /\ s.n = hSession[f].n /\ s.status = hSession[f].status
              /\ s.at = hNow /\ hSession[f].n # 0 /\ s.status # "none"
      BY <2>2
    <3>2. found = <<s>> /\ found \in Seq(Snapshots) /\ DOMAIN found = {1} /\ found[1] = s
      BY <3>1, <1>1
    <3> QED BY <3>1, <3>2
  <2> QED BY <2>1, <2>2, MemoryIs
<1>4. hNow \in Nat /\ hSession[f].status \in {"active", "ended", "none"}
  BY HistoryAssumption DEF HDiskInv, HSessions, HSessionOK, Sessions
<1>5. ASSUME NEW n \in over
      PROVE  /\ \A j \in DOMAIN found : ~(found[j].n = n /\ found[j].status # "ended")
             /\ SeenEnded(L, f, n) \/ AtRest(f, n)
  <2>1. n \in 1 .. hMade[f] /\ Archived(f, n) /\ n # 0
    BY <1>1
  <2>2. /\ ~(hSession[f].n = n /\ hSession[f].status = "active")
        /\ \E t \in Stamps : IsOf(t, f, n) /\ Snap(t).status = "ended"
    BY <2>1, OverMeans DEF HDiskInv, Archived
  <2>3. ASSUME NEW j \in DOMAIN found, found[j].n = n, found[j].status # "ended" PROVE FALSE
    <3>1. hSession[f].n = n /\ hSession[f].status = "none"
      BY <2>2, <2>3, <1>3, <1>4
    <3>2. HSessionOK(f)
      BY DEF HDiskInv, HSessions
    <3> QED BY <3>1, <3>2, <2>1 DEF HSessionOK
  <2>4. CASE hSession[f].n = n
    <3>1. 1 \in DOMAIN found /\ found[1].n = n /\ found[1].status = "ended" /\ found[1].at = hNow
      BY <2>1, <2>3, <2>4, <1>3
    <3>2. PICK t \in Stamps : IsOf(t, f, n) /\ Snap(t).status = "ended"
      BY <2>2
    <3>3. t <= hNow
      BY <3>2 DEF HDiskInv, HThreads, HThreadOK, IsOf
    <3>4. /\ 1 \in DOMAIN L.seen /\ L.seen[1].n = n /\ L.seen[1].status = "ended"
          /\ t <= L.seen[1].at
      BY <3>1, <3>3, <1>2
    <3> QED BY <3>2, <3>4, <2>3 DEF SeenEnded
  <2>5. CASE hSession[f].n # n
    <3>1. \A t \in Stamps : IsOf(t, f, n) => ~Writing(t)
      BY <2>1 DEF Archived, IsOf, Snap
    <3>2. IsWhole(FileAt(<<f, n>>))
      BY <2>1 DEF Archived
    <3>3. n \in 1 .. hMade[f]
      BY <2>1
    <3> QED BY <3>1, <3>2, <3>3, <2>3, <2>5 DEF AtRest
  <2> QED BY <2>3, <2>4, <2>5
<1>6. LoadBase(L, f)
  <2>1. L.seen \in Seq(Snapshots) /\ \A j \in DOMAIN L.seen : L.seen[j].at <= hNow
    BY <1>2, <1>3, <1>4
  <2>2. \A i \in DOMAIN L.mem : \E j \in DOMAIN L.seen : L.seen[j] = L.mem[i]
    BY <1>2
  <2>3. \A n \in L.over : \A j \in DOMAIN L.seen : ~(L.seen[j].n = n /\ L.seen[j].status # "ended")
    BY <1>2, <1>5
  <2> QED BY <2>1, <2>2, <2>3 DEF LoadBase
<1>7. \A n \in L.over : SeenEnded(L, f, n) \/ AtRest(f, n)
  BY <1>2, <1>5
<1> QED BY <1>6, <1>7 DEF LoadOK, UnderLoad

\* Nothing is asked of the folder.
LEMMA NotLoaded ==
  ASSUME NEW f
  PROVE  LoadOK(NoLoad, f) /\ NoLoad = [g \in LoadFields |-> NoLoad[g]]
<1>1. NoLoad.at = "none" /\ NoLoad.mem = <<>> /\ NoLoad.over = {} /\ NoLoad.kept = {} /\ NoLoad.todo = {}
  BY DEF NoLoad
<1>2. NoLoad = [g \in LoadFields |-> NoLoad[g]]
  BY DEF NoLoad, LoadFields
<1> QED BY <1>1, <1>2 DEF LoadOK, UnderLoad

\* A load starts.
LEMMA LoadingStarts ==
  ASSUME HistInv, NEW fs, StartLoading(fs)
  PROVE  HistInv'
<1>1. HWorldStays /\ hRead.at \in {"idle", "again"}
  BY DEF StartLoading, HWorldStays, hDisk
<1>2. HDiskInv' /\ Grows /\ \A g, n : AtRest(g, n)' <=> AtRest(g, n)
  BY <1>1, WorldStays DEF HistInv
<1>3. PICK load : load = Locked(fs)
  OBVIOUS
<1>4. hRead' = [hRead EXCEPT !.at = "loading", !.load = load]
  BY <1>3 DEF StartLoading
<1>5. hRead = [g \in ReadFields |-> hRead[g]]
  BY <1>1 DEF HistInv, HReadOK
<1>6. hRead' = [g \in ReadFields |-> hRead'[g]] /\ hRead'.at = "loading" /\ hRead'.load = load
  BY <1>4, <1>5 DEF ReadFields
<1>7. ASSUME NEW f \in Folders
      PROVE  LoadOK(load[f], f) /\ load[f] = [g \in LoadFields |-> load[f][g]]
  <2>1. CASE f \notin fs
    BY <2>1, <1>3, NotLoaded DEF Locked
  <2>2. CASE f \in fs
    <3>1. PICK L : L = load[f]
      OBVIOUS
    <3>2. L = [at |-> "latest", mem |-> InMemory(f), seen |-> InMemory(f), todo |-> {},
               kept |-> {}, over |-> {n \in 1 .. hMade[f] : Archived(f, n)}]
      BY <3>1, <2>2, <1>3 DEF Locked
    <3>3. L = [g \in LoadFields |-> L[g]]
      BY <3>2 DEF LoadFields
    <3>4. LoadOK(L, f)
      BY <3>2, FreshLoad DEF HistInv
    <3> QED BY <3>1, <3>3, <3>4
  <2> QED BY <2>1, <2>2
<1>8. AnswerNotStale' /\ EndedStaysEnded'
  BY <1>6 DEF AnswerNotStale, EndedStaysEnded
<1>9. ASSUME NEW f \in Folders
      PROVE  /\ LoadOK(hRead.load[f], f)'
             /\ hRead'.load[f] = [g \in LoadFields |-> hRead'.load[f][g]]
  <2>1. PICK L : L = load[f]
    OBVIOUS
  <2>2. LoadOK(L, f) /\ L = [g \in LoadFields |-> L[g]]
    BY <2>1, <1>7
  <2>3. LoadOK(L, f)'
    BY <2>2, <1>2, LoadStays
  <2>4. hRead'.load[f] = L
    BY <2>1, <1>6
  <2> QED BY <2>2, <2>3, <2>4
<1>10. HReadOK'
  <2>1. hRead'.load = [f \in Folders |-> hRead'.load[f]]
    BY <1>3, <1>6 DEF Locked
  <2> QED BY <2>1, <1>6, <1>9 DEF HReadOK
<1> QED BY <1>2, <1>8, <1>10 DEF HistInv

-----------------------------------------------------------------------------
\* A request that has its answer reads no more.
LEMMA IsAnswered ==
  ASSUME HistInv, HWorldStays, hRead'.at = "answered",
         hRead'.load = [f \in Folders |-> hRead'.load[f]], AnswerNotStale', EndedStaysEnded'
  PROVE  HistInv'
<1>1. HDiskInv'
  BY WorldStays DEF HistInv
<1>2. HReadOK'
  BY DEF HReadOK
<1> QED BY <1>1, <1>2 DEF HistInv

\* What an answer leaves behind
LEMMA AnswerIs ==
  ASSUME NEW about, NEW whole, NEW items, NEW total, AnswerWith(about, whole, items, total)
  PROVE  /\ HWorldStays /\ hRead'.at = "answered" /\ hRead'.about = about /\ hRead'.whole = whole
         /\ hRead'.items = items
         /\ hRead'.load = [f \in Folders |-> [hRead.load[f] EXCEPT !.kept = {}]]
<1>1. HWorldStays
  BY DEF AnswerWith, HWorldStays, hDisk
<1>2. PICK load : load = [f \in Folders |-> [hRead.load[f] EXCEPT !.kept = {}]]
  OBVIOUS
<1>3. hRead' = [at |-> "answered", about |-> about, whole |-> whole, items |-> items,
                total |-> total, load |-> load]
  BY <1>2 DEF AnswerWith
<1> QED BY <1>1, <1>2, <1>3

\* The answer keeps what the loads started from.
LEMMA AnswerRemembers ==
  ASSUME HReadOK, hRead.at # "answered", NEW f \in Folders,
         hRead'.load = [g \in Folders |-> [hRead.load[g] EXCEPT !.kept = {}]]
  PROVE  hRead'.load[f].mem = hRead.load[f].mem /\ hRead'.load[f].over = hRead.load[f].over
<1>1. PICK L : L = hRead.load[f]
  OBVIOUS
<1>2. L = [g \in LoadFields |-> L[g]]
  BY <1>1 DEF HReadOK
<1>3. hRead'.load[f] = [L EXCEPT !.kept = {}]
  BY <1>1
<1> QED BY <1>1, <1>2, <1>3 DEF LoadFields

\* There is nothing to show.
LEMMA NothingIsFound ==
  ASSUME HistInv, NotFound
  PROVE  HistInv'
<1>1. PICK items : items = [f \in Folders |-> {}]
  OBVIOUS
<1>2. AnswerWith("nothing", {}, items, 0)
  BY <1>1 DEF NotFound
<1>3. /\ HWorldStays /\ hRead'.at = "answered" /\ hRead'.about = "nothing" /\ hRead'.whole = {}
      /\ hRead'.load = [f \in Folders |-> [hRead.load[f] EXCEPT !.kept = {}]]
  BY <1>2, AnswerIs
<1>4. AnswerNotStale' /\ EndedStaysEnded'
  BY <1>3 DEF AnswerNotStale, EndedStaysEnded
<1>5. hRead'.load = [f \in Folders |-> hRead'.load[f]]
  BY <1>3
<1> QED BY <1>3, <1>4, <1>5, IsAnswered

\* An answer about sessions of all times is made of what the loads have kept.
LEMMA HistoryIsShown ==
  ASSUME HistInv, hRead.at = "loading", \A f \in Folders : hRead.load[f].at \in {"none", "done"},
         NEW whole, NEW items, NEW total, AnswerWith("history", whole, items, total),
         \A f \in Folders : items[f] \subseteq hRead.load[f].kept,
         "ended" \in whole =>
           \A f \in Folders : \A x \in hRead.load[f].kept : x.status = "ended" => x \in items[f],
         whole = {"active", "ended"} => \A f \in Folders : items[f] = hRead.load[f].kept
  PROVE  HistInv'
<1>1. /\ HWorldStays /\ hRead'.at = "answered" /\ hRead'.about = "history" /\ hRead'.whole = whole
      /\ hRead'.items = items
      /\ hRead'.load = [f \in Folders |-> [hRead.load[f] EXCEPT !.kept = {}]]
  BY AnswerIs
<1>2. \A f, n : (Broken(f, n)' <=> Broken(f, n)) /\ (Over(f, n)' <=> Over(f, n))
  BY <1>1, WorldStays DEF HistInv
<1>3. ASSUME NEW f \in Folders
      PROVE  hRead'.load[f].mem = hRead.load[f].mem /\ hRead'.load[f].over = hRead.load[f].over
  BY <1>1, AnswerRemembers DEF HistInv
<1>4. ASSUME NEW f \in Folders
      PROVE  LoadOK(hRead.load[f], f) /\ hRead.load[f].at \in {"none", "done"}
  BY DEF HistInv, HReadOK
<1>5. AnswerNotStale'
  <2>1. ASSUME NEW f \in Folders, NEW i \in DOMAIN hRead'.load[f].mem, whole = {"active", "ended"}
        PROVE  \E x \in items[f] : x.n = hRead'.load[f].mem[i].n /\ x.at >= hRead'.load[f].mem[i].at
    <3>1. PICK L : L = hRead.load[f]
      OBVIOUS
    <3>2. LoadOK(L, f) /\ L.at \in {"none", "done"} /\ hRead'.load[f].mem = L.mem /\ items[f] = L.kept
      BY <3>1, <2>1, <1>3, <1>4
    <3>3. L.at # "none"
      BY <3>2, <2>1 DEF LoadOK
    <3> QED BY <3>2, <3>3, <2>1 DEF LoadOK
  <2> QED BY <2>1, <1>1 DEF AnswerNotStale, Shown
<1>6. EndedStaysEnded'
  <2>1. ASSUME NEW f \in Folders, NEW n \in hRead'.load[f].over, Over(f, n)'
        PROVE  /\ \A x \in items[f] : x.n = n => x.status = "ended"
               /\ "ended" \in whole => \E x \in items[f] : x.n = n
    <3>1. PICK L : L = hRead.load[f]
      OBVIOUS
    <3>2. LoadOK(L, f) /\ L.at \in {"none", "done"} /\ n \in L.over /\ items[f] \subseteq L.kept
      BY <3>1, <2>1, <1>3, <1>4
    <3>3. L.at = "done"
      BY <3>2 DEF LoadOK
    <3>4. ~Broken(f, n)
      BY <2>1, <1>2, OverMeans DEF HistInv, HDiskInv
    <3>5. /\ \A x \in L.kept : x.n = n => x.status = "ended"
          /\ \E x \in L.kept : x.n = n
      BY <3>2, <3>3, <3>4 DEF LoadOK
    <3>6. "ended" \in whole => \A x \in L.kept : x.status = "ended" => x \in items[f]
      BY <3>1
    <3> QED BY <3>2, <3>5, <3>6
  <2> QED BY <2>1, <1>1 DEF EndedStaysEnded, Shown
<1>7. hRead'.load = [f \in Folders |-> hRead'.load[f]]
  BY <1>1
<1> QED BY <1>1, <1>5, <1>6, <1>7, IsAnswered

\* What the filter by status lets through
LEMMA FoundIs ==
  ASSUME NEW f, NEW flt \in Filters
  PROVE  /\ Found(f, flt) \subseteq hRead.load[f].kept /\ Matches(f, flt) \subseteq hRead.load[f].kept
         /\ "ended" \in Statuses(flt) =>
              \A x \in hRead.load[f].kept : x.status = "ended" => x \in Found(f, flt)
         /\ Statuses(flt) = {"active", "ended"} => Found(f, flt) = hRead.load[f].kept
<1>1. PICK kept : kept = hRead.load[f].kept
  OBVIOUS
<1>2. Found(f, flt) = {x \in kept : flt \in {"any", x.status}}
  BY <1>1 DEF Found, FilterHistory
<1>3. Matches(f, flt) \subseteq Found(f, flt)
  BY DEF Matches
<1>4. CASE flt = "any"
  BY <1>1, <1>2, <1>3, <1>4
<1>5. CASE flt # "any"
  <2>1. Statuses(flt) = {flt}
    BY <1>5 DEF Statuses
  <2>2. Statuses(flt) # {"active", "ended"}
    BY <2>1
  <2> QED BY <1>1, <1>2, <1>3, <2>1, <2>2
<1> QED BY <1>4, <1>5

\* The loads of the folders besides f
LEMMA OthersAreEmpty ==
  ASSUME HistInv, NEW f, LoadedOnly(f)
  PROVE  /\ hRead.at = "loading" /\ \A g \in Folders : hRead.load[g].at \in {"none", "done"}
         /\ \A g \in Folders : g # f => hRead.load[g].kept = {}
<1>1. hRead.at = "loading" /\ \A g \in Folders : hRead.load[g].at \in {"none", "done"}
  BY DEF LoadedOnly
<1>2. ASSUME NEW g \in Folders, g # f PROVE hRead.load[g].kept = {}
  <2>1. LoadOK(hRead.load[g], g) /\ hRead.load[g].at = "none"
    BY <1>1, <1>2 DEF HistInv, HReadOK, LoadedOnly
  <2> QED BY <2>1 DEF LoadOK
<1> QED BY <1>1, <1>2

\* A part of the history of a workspace is shown.
LEMMA PartIsShown ==
  ASSUME HistInv, NEW f \in Folders, LoadedOnly(f), NEW items, items \subseteq hRead.load[f].kept,
         NEW total, AnswerWith("history", {}, Only(f, items), total)
  PROVE  HistInv'
<1>1. PICK all : all = Only(f, items)
  OBVIOUS
<1>2. \A g \in Folders : all[g] \subseteq hRead.load[g].kept
  BY <1>1 DEF Only
<1> QED BY <1>1, <1>2, OthersAreEmpty, HistoryIsShown

\* The requests on the history of one workspace
LEMMA HistorySteps ==
  ASSUME HistInv, NEW f \in Folders, NEW flt \in Filters
  PROVE  /\ \A page \in Pages : GetHistoryTimeline(f, flt, page) \/ ExportHistory(f, flt, page)
                                \/ SearchHistory(f, flt, page) => HistInv'
         /\ ArchiveHistory(f, flt) => HistInv'
         /\ ArchiveHistorySearch(f, flt) => HistInv'
         /\ \A n : GetHistoryDetail(f, n) => HistInv'
<1>1. PICK kept : kept = hRead.load[f].kept
  OBVIOUS
<1>2. Found(f, flt) \subseteq kept /\ Matches(f, flt) \subseteq kept
  BY <1>1, FoundIs
<1>3. \A items, page : PageOf(items, page) \subseteq items
  BY DEF PageOf
<1>4. ASSUME LoadedOnly(f), NEW items \in SUBSET kept, NEW total,
             AnswerWith("history", {}, Only(f, items), total)
      PROVE  HistInv'
  BY <1>1, <1>4, PartIsShown
<1>5. ASSUME NEW page \in Pages, GetHistoryTimeline(f, flt, page) \/ ExportHistory(f, flt, page)
                                 \/ SearchHistory(f, flt, page)
      PROVE  HistInv'
  <2>1. LoadedOnly(f) /\ (NotFound \/ \E items \in SUBSET kept : ShowPage(f, items))
    BY <1>2, <1>3, <1>5 DEF GetHistoryTimeline, ExportHistory, SearchHistory, TimelineOf
  <2> QED BY <2>1, <1>4, NothingIsFound DEF ShowPage
<1>6. ASSUME NEW n, GetHistoryDetail(f, n) PROVE HistInv'
  <2>1. SnapshotOf(f, n) \in SUBSET kept
    BY <1>1 DEF SnapshotOf
  <2>2. LoadedOnly(f) /\ (NotFound \/ \E items \in SUBSET kept : ShowPage(f, items))
    BY <2>1, <1>6 DEF GetHistoryDetail
  <2> QED BY <2>2, <1>4, NothingIsFound DEF ShowPage
<1>7. ASSUME ArchiveHistorySearch(f, flt) PROVE HistInv'
  <2>1. LoadedOnly(f)
    BY <1>7 DEF ArchiveHistorySearch
  <2>2. CASE NotFound
    BY <2>2, NothingIsFound
  <2>3. CASE ~NotFound
    <3>1. PICK limit, total : AnswerWith("history", {}, Only(f, PageOf(Matches(f, flt), <<0, limit>>)), total)
      BY <1>7, <2>3 DEF ArchiveHistorySearch
    <3>2. PageOf(Matches(f, flt), <<0, limit>>) \in SUBSET kept
      BY <1>2, <1>3
    <3> QED BY <2>1, <3>1, <3>2, <1>4
  <2> QED BY <2>2, <2>3
<1>8. ASSUME ArchiveHistory(f, flt) PROVE HistInv'
  <2>1. LoadedOnly(f)
    BY <1>8 DEF ArchiveHistory
  <2>2. CASE NotFound
    BY <2>2, NothingIsFound
  <2>3. CASE ~NotFound
    <3>1. PICK all : all = Only(f, Found(f, flt))
      OBVIOUS
    <3>2. AnswerWith("history", Statuses(flt), all, 0)
      BY <3>1, <1>8, <2>3 DEF ArchiveHistory
    <3>3. all[f] = Found(f, flt) /\ \A g \in Folders : g # f => all[g] = {}
      BY <3>1 DEF Only
    <3>4. \A g \in Folders : g # f => hRead.load[g].kept = {}
      BY <2>1, OthersAreEmpty
    <3>5. \A g \in Folders : all[g] \subseteq hRead.load[g].kept
      BY <3>3, <3>4, <1>1, <1>2
    <3>6. "ended" \in Statuses(flt) =>
            \A g \in Folders : \A x \in hRead.load[g].kept : x.status = "ended" => x \in all[g]
      <4>1. "ended" \in Statuses(flt) => \A x \in hRead.load[f].kept : x.status = "ended" => x \in all[f]
        BY <3>3, FoundIs
      <4> QED BY <4>1, <3>4
    <3>7. Statuses(flt) = {"active", "ended"} => \A g \in Folders : all[g] = hRead.load[g].kept
      <4>1. Statuses(flt) = {"active", "ended"} => all[f] = hRead.load[f].kept
        BY <3>3, FoundIs
      <4> QED BY <4>1, <3>3, <3>4
    <3>8. hRead.at = "loading" /\ \A g \in Folders : hRead.load[g].at \in {"none", "done"}
      BY <2>1, OthersAreEmpty
    <3> QED BY <3>2, <3>5, <3>6, <3>7, <3>8, HistoryIsShown
  <2> QED BY <2>2, <2>3
<1> QED BY <1>5, <1>6, <1>7, <1>8

\* The history of several workspaces
LEMMA ArchiveOfAll ==
  ASSUME HistInv, NEW flt \in Filters, ExportHistoryArchive(flt)
  PROVE  HistInv'
<1>1. hRead.at = "loading" /\ \A f \in Folders : hRead.load[f].at \in {"none", "done"}
  BY DEF ExportHistoryArchive
<1>2. CASE NotFound
  BY <1>2, NothingIsFound
<1>3. CASE ~NotFound
  <2>1. PICK items : items = ArchivesByGroups(flt)
    OBVIOUS
  <2>2. AnswerWith("history", Statuses(flt), items, 0)
    BY <2>1, <1>3 DEF ExportHistoryArchive
  <2>3. \A f \in Folders : items[f] = Found(f, flt)
    BY <2>1 DEF ArchivesByGroups
  <2>4. \A f \in Folders : items[f] \subseteq hRead.load[f].kept
    BY <2>3, FoundIs
  <2>5. "ended" \in Statuses(flt) =>
          \A f \in Folders : \A x \in hRead.load[f].kept : x.status = "ended" => x \in items[f]
    BY <2>3, FoundIs
  <2>6. Statuses(flt) = {"active", "ended"} => \A f \in Folders : items[f] = hRead.load[f].kept
    BY <2>3, FoundIs
  <2> QED BY <2>2, <2>4, <2>5, <2>6, <1>1, HistoryIsShown
<1> QED BY <1>2, <1>3

\* The search is made again.
LEMMA SearchIsRepeated ==
  ASSUME HistInv, NEW f \in Folders, NEW flt \in Filters, ArchiveSearchAgain(f, flt)
  PROVE  HistInv'
<1>1. HWorldStays /\ hRead.at = "loading"
  BY DEF ArchiveSearchAgain, LoadedOnly, HWorldStays, hDisk
<1>2. PICK limit : hRead' = [hRead EXCEPT !.at = "again", !.limit = limit, !.flt = flt]
  BY DEF ArchiveSearchAgain
<1>3. hRead = [g \in ReadFields |-> hRead[g]]
  BY <1>1 DEF HistInv, HReadOK
<1>4. hRead' = [g \in ReadFields |-> hRead'[g]] /\ hRead'.at = "again" /\ hRead'.load = hRead.load
  BY <1>2, <1>3 DEF ReadFields
<1>5. HDiskInv' /\ Grows /\ \A g, n : AtRest(g, n)' <=> AtRest(g, n)
  BY <1>1, WorldStays DEF HistInv
<1>6. PICK load : load = hRead.load
  OBVIOUS
<1>7. load = [g \in Folders |-> load[g]]
  BY <1>6 DEF HistInv, HReadOK
<1>8. ASSUME NEW g \in Folders
      PROVE  LoadOK(hRead.load[g], g)' /\ load[g] = [h \in LoadFields |-> load[g][h]]
  <2>1. PICK L : L = load[g]
    OBVIOUS
  <2>2. LoadOK(L, g) /\ L = [h \in LoadFields |-> L[h]]
    BY <2>1, <1>1, <1>6 DEF HistInv, HReadOK
  <2>3. LoadOK(L, g)'
    BY <2>2, <1>5, LoadStays
  <2>4. hRead'.load[g] = L
    BY <2>1, <1>4, <1>6
  <2> QED BY <2>1, <2>2, <2>3, <2>4
<1>9. HReadOK'
  <2>1. hRead'.load = load
    BY <1>4, <1>6
  <2>2. hRead'.load = [g \in Folders |-> hRead'.load[g]]
    BY <2>1, <1>7
  <2>3. \A g \in Folders : hRead'.load[g] = [h \in LoadFields |-> hRead'.load[g][h]]
    BY <2>1, <1>8
  <2> QED BY <2>2, <2>3, <1>4, <1>8 DEF HReadOK
<1>10. AnswerNotStale' /\ EndedStaysEnded'
  BY <1>4 DEF AnswerNotStale, EndedStaysEnded
<1> QED BY <1>5, <1>9, <1>10 DEF HistInv

\* The list of the latest is made of what is in memory.
LEMMA LatestIs ==
  ASSUME HDiskInv, NEW f \in Folders, NEW i \in DOMAIN InMemory(f)
  PROVE  /\ InMemory(f)[i].n = hSession[f].n /\ InMemory(f)[i].at = hNow /\ hSession[f].n \in Nat \ {0}
         /\ InMemory(f)[i] \in LatestHistory(f) /\ hNow \in Nat
<1>1. hSession[f].n \in Nat /\ hNow \in Nat
  BY HistoryAssumption DEF HDiskInv, HSessions, HSessionOK, Sessions
<1>2. PICK s \in Snapshots : InMemory(f) = <<s>> /\ s.n = hSession[f].n /\ s.at = hNow
                             /\ hSession[f].n # 0
  BY MemoryIs
<1>3. InMemory(f)[i] \in LatestHistory(f)
  BY <1>2 DEF LatestHistory, Listed
<1> QED BY <1>1, <1>2, <1>3

\* What the overview has listed
LEMMA ListedIs ==
  ASSUME NEW load, load = ListSessions
  PROVE  /\ load = [f \in Folders |-> load[f]]
         /\ \A f \in Folders : load[f] = [g \in LoadFields |-> load[f][g]] /\ load[f].mem = InMemory(f)
                               /\ load[f].over = {}
<1>1. load = [f \in Folders |-> [NoLoad EXCEPT !.at = "done", !.mem = InMemory(f)]]
  BY DEF ListSessions
<1>2. ASSUME NEW f \in Folders
      PROVE  load[f] = [g \in LoadFields |-> load[f][g]] /\ load[f].mem = InMemory(f)
             /\ load[f].over = {}
  <2>1. PICK L, N : L = load[f] /\ N = NoLoad
    OBVIOUS
  <2>2. L = [N EXCEPT !.at = "done", !.mem = InMemory(f)]
    BY <2>1, <1>1
  <2>3. N = [g \in LoadFields |-> N[g]] /\ N.over = {}
    BY <2>1, NotLoaded DEF NoLoad
  <2> QED BY <2>1, <2>2, <2>3 DEF LoadFields
<1> QED BY <1>1, <1>2

\* The overview is answered.
LEMMA OverviewIsListed ==
  ASSUME HistInv, ListTerminalOverview
  PROVE  HistInv'
<1>1. PICK load, items : load = ListSessions /\ items = [f \in Folders |-> LatestHistory(f)]
  OBVIOUS
<1>2. hRead' = [at |-> "answered", load |-> load, about |-> "latest", whole |-> {},
                items |-> items, total |-> 0]
  BY <1>1 DEF ListTerminalOverview
<1>3. HWorldStays
  BY DEF ListTerminalOverview, HWorldStays, hDisk
<1>4. /\ hRead'.at = "answered" /\ hRead'.load = load /\ hRead'.about = "latest" /\ hRead'.whole = {}
      /\ hRead'.items = items
  BY <1>2
<1>5. load = [f \in Folders |-> load[f]] /\ \A f \in Folders : load[f].mem = InMemory(f)
  BY <1>1, ListedIs
<1>6. ASSUME NEW f \in Folders, NEW i \in DOMAIN load[f].mem
      PROVE  \E x \in items[f] : x.n = load[f].mem[i].n /\ x.at >= load[f].mem[i].at
  <2>1. i \in DOMAIN InMemory(f) /\ load[f].mem[i] = InMemory(f)[i] /\ items[f] = LatestHistory(f)
    BY <1>1, <1>5, <1>6
  <2>2. InMemory(f)[i].at = hNow /\ InMemory(f)[i] \in LatestHistory(f) /\ hNow \in Nat
    BY <2>1, LatestIs DEF HistInv
  <2> QED BY <2>1, <2>2
<1>7. AnswerNotStale' /\ EndedStaysEnded'
  BY <1>4, <1>6 DEF AnswerNotStale, EndedStaysEnded, Shown
<1>8. hRead'.load = [f \in Folders |-> hRead'.load[f]]
  BY <1>4, <1>5
<1> QED BY <1>3, <1>4, <1>7, <1>8, IsAnswered

\* The export of the latest begins with the overview.
LEMMA LatestExportStarts ==
  ASSUME HistInv, StartLatestExport
  PROVE  HistInv'
<1>1. HWorldStays /\ hRead.at = "idle"
  BY DEF StartLatestExport, HWorldStays, hDisk
<1>2. PICK load : load = ListSessions
  OBVIOUS
<1>3. hRead' = [hRead EXCEPT !.at = "overview", !.load = load]
  BY <1>2 DEF StartLatestExport
<1>4. hRead = [g \in ReadFields |-> hRead[g]]
  BY <1>1 DEF HistInv, HReadOK
<1>5. hRead' = [g \in ReadFields |-> hRead'[g]] /\ hRead'.at = "overview" /\ hRead'.load = load
  BY <1>3, <1>4 DEF ReadFields
<1>6. /\ load = [f \in Folders |-> load[f]]
      /\ \A f \in Folders : load[f] = [g \in LoadFields |-> load[f][g]] /\ load[f].mem = InMemory(f)
  BY <1>2, ListedIs
<1>7. ASSUME NEW f \in Folders, NEW i \in DOMAIN hRead'.load[f].mem
      PROVE  /\ hRead'.load[f].mem[i].n \in 1 .. hSession'[f].n
             /\ hRead'.load[f].mem[i].at \in 0 .. hNow'
  <2>1. i \in DOMAIN InMemory(f) /\ hRead'.load[f].mem[i] = InMemory(f)[i]
    BY <1>5, <1>6, <1>7
  <2>2. InMemory(f)[i].n = hSession[f].n /\ InMemory(f)[i].at = hNow /\ hSession[f].n \in Nat \ {0}
        /\ hNow \in Nat
    BY <2>1, LatestIs DEF HistInv
  <2> QED BY <2>1, <2>2, <1>1 DEF HWorldStays
<1>8. HDiskInv'
  BY <1>1, WorldStays DEF HistInv
<1>9. AnswerNotStale' /\ EndedStaysEnded'
  BY <1>5 DEF AnswerNotStale, EndedStaysEnded
<1>10. HReadOK'
  <2>1. hRead'.load = [f \in Folders |-> hRead'.load[f]]
    BY <1>5, <1>6
  <2>2. \A f \in Folders : hRead'.load[f] = [g \in LoadFields |-> hRead'.load[f][g]]
    BY <1>5, <1>6
  <2> QED BY <2>1, <2>2, <1>5, <1>7 DEF HReadOK
<1> QED BY <1>8, <1>9, <1>10 DEF HistInv

\* ... and ends with the list of the latest snapshots.
LEMMA LatestIsExported ==
  ASSUME HistInv, ExportLatestHistories
  PROVE  HistInv'
<1>1. CASE NotFound
  BY <1>1, NothingIsFound
<1>2. CASE ~NotFound
  <2>1. PICK items : items = [f \in Folders |-> LatestHistory(f)]
    OBVIOUS
  <2>2. AnswerWith("latest", {}, items, 0) /\ hRead.at = "overview"
    BY <2>1, <1>2 DEF ExportLatestHistories
  <2>3. /\ HWorldStays /\ hRead'.at = "answered" /\ hRead'.about = "latest" /\ hRead'.whole = {}
        /\ hRead'.items = items
        /\ hRead'.load = [f \in Folders |-> [hRead.load[f] EXCEPT !.kept = {}]]
    BY <2>2, AnswerIs
  <2>4. ASSUME NEW f \in Folders, NEW i \in DOMAIN hRead'.load[f].mem
        PROVE  \E x \in items[f] :
                 \/ x.n = hRead'.load[f].mem[i].n /\ x.at >= hRead'.load[f].mem[i].at
                 \/ x.n > hRead'.load[f].mem[i].n
    <3>1. hRead'.load[f].mem = hRead.load[f].mem
      BY <2>2, <2>3, AnswerRemembers DEF HistInv
    <3>2. PICK m : m = hRead'.load[f].mem[i]
      OBVIOUS
    <3>3. m.n \in 1 .. hSession[f].n /\ m.at \in 0 .. hNow
      BY <3>1, <3>2, <2>2, <2>4 DEF HistInv, HReadOK
    <3>4. HSessionOK(f) /\ hSession[f].n # 0 /\ hSession[f].n \in Nat
      <4>1. HSessionOK(f)
        BY DEF HistInv, HDiskInv, HSessions
      <4>2. hSession[f].n \in Nat
        BY <4>1 DEF HSessionOK, Sessions
      <4> QED BY <4>1, <4>2, <3>3
    <3>5. 1 \in DOMAIN InMemory(f)
      BY <3>4 DEF InMemory
    <3>6. PICK x : x = InMemory(f)[1]
      OBVIOUS
    <3>7. x.n = hSession[f].n /\ x.at = hNow /\ x \in items[f] /\ hNow \in Nat
      BY <3>5, <3>6, <2>1, LatestIs DEF HistInv
    <3> QED BY <3>2, <3>3, <3>4, <3>7
  <2>5. AnswerNotStale' /\ EndedStaysEnded'
    BY <2>3, <2>4 DEF AnswerNotStale, EndedStaysEnded, Shown
  <2>6. hRead'.load = [f \in Folders |-> hRead'.load[f]]
    BY <2>3
  <2> QED BY <2>3, <2>5, <2>6, IsAnswered
<1> QED BY <1>1, <1>2

\* The current session of a workspace is shown.
LEMMA CurrentIsShown ==
  ASSUME HistInv, NEW f \in Folders, GetCurrentHistory(f)
  PROVE  HistInv'
<1>1. PICK load, items : load = [g \in Folders |-> NoLoad] /\ items = Only(f, Listed(InMemory(f)))
  OBVIOUS
<1>2. hRead' = [at |-> "answered", load |-> load, about |-> "latest", whole |-> {},
                items |-> items, total |-> 0]
  BY <1>1 DEF GetCurrentHistory
<1>3. HWorldStays
  BY DEF GetCurrentHistory, HWorldStays, hDisk
<1>4. hRead'.at = "answered" /\ hRead'.load = load /\ hRead'.about = "latest"
  BY <1>2
<1>5. \A g \in Folders : DOMAIN load[g].mem = {}
  BY <1>1 DEF NoLoad
<1>6. AnswerNotStale' /\ EndedStaysEnded'
  BY <1>4, <1>5 DEF AnswerNotStale, EndedStaysEnded
<1>7. hRead'.load = [g \in Folders |-> hRead'.load[g]]
  BY <1>1, <1>4
<1> QED BY <1>3, <1>4, <1>6, <1>7, IsAnswered

\* There is none.
LEMMA CurrentIsMissed ==
  ASSUME HistInv, NEW f \in Folders, NoCurrentHistory(f)
  PROVE  HistInv'
<1>1. HWorldStays /\ hRead.at = "idle"
  BY DEF NoCurrentHistory, HWorldStays, hDisk
<1>2. PICK old : old = hRead.load
  OBVIOUS
<1>3. PICK L : L = [NoLoad EXCEPT !.at = "latest"]
  OBVIOUS
<1>4. old = [g \in Folders |-> NoLoad] /\ hRead = [g \in ReadFields |-> hRead[g]]
  BY <1>1, <1>2 DEF HistInv, HReadOK
<1>5. PICK load : load = [old EXCEPT ![f] = L]
  OBVIOUS
<1>6. hRead' = [hRead EXCEPT !.at = "current", !.load = load]
  <2>1. old[f] = NoLoad
    BY <1>4
  <2>2. hRead' = [hRead EXCEPT !.at = "current", !.load[f].at = "latest"]
    BY DEF NoCurrentHistory
  <2>3. load = [old EXCEPT ![f].at = "latest"]
    BY <2>1, <1>3, <1>5
  <2> QED BY <2>2, <2>3, <1>2, <1>4 DEF ReadFields
<1>7. hRead' = [g \in ReadFields |-> hRead'[g]] /\ hRead'.at = "current" /\ hRead'.load = load
  BY <1>4, <1>6 DEF ReadFields
<1>8. L = [g \in LoadFields |-> L[g]] /\ L.mem = <<>>
  BY <1>3 DEF NoLoad, LoadFields
<1>9. load = [g \in Folders |-> IF g = f THEN L ELSE NoLoad]
  BY <1>4, <1>5
<1>10. \A g \in Folders : load[g] = [h \in LoadFields |-> load[g][h]] /\ load[g].mem = <<>>
  <2>1. NoLoad = [h \in LoadFields |-> NoLoad[h]] /\ NoLoad.mem = <<>>
    BY NotLoaded DEF NoLoad
  <2>2. \A g \in Folders : load[g] = L \/ load[g] = NoLoad
    BY <1>9
  <2> QED BY <2>1, <2>2, <1>8
<1>11. HReadOK'
  <2>1. hRead'.load = [g \in Folders |-> hRead'.load[g]]
    BY <1>7, <1>9
  <2>2. \A g \in Folders : hRead'.load[g] = [h \in LoadFields |-> hRead'.load[g][h]]
                           /\ hRead'.load[g].mem = <<>>
    BY <1>7, <1>10
  <2> QED BY <2>1, <2>2, <1>7 DEF HReadOK
<1>12. AnswerNotStale' /\ EndedStaysEnded'
  BY <1>7 DEF AnswerNotStale, EndedStaysEnded
<1>13. HDiskInv'
  BY <1>1, WorldStays DEF HistInv
<1> QED BY <1>11, <1>12, <1>13 DEF HistInv

\* What is on disk is shown then.
LEMMA PersistedIsShown ==
  ASSUME HistInv, NEW f \in Folders, GetPersistedHistory(f)
  PROVE  HistInv'
<1>1. CASE NotFound
  BY <1>1, NothingIsFound
<1>2. CASE ~NotFound
  <2>1. PICK items : AnswerWith("latest", {}, items, 0) /\ hRead.at = "current"
    BY <1>2 DEF GetPersistedHistory
  <2>2. /\ HWorldStays /\ hRead'.at = "answered" /\ hRead'.about = "latest" /\ hRead'.whole = {}
        /\ hRead'.load = [g \in Folders |-> [hRead.load[g] EXCEPT !.kept = {}]]
    BY <2>1, AnswerIs
  <2>3. \A g \in Folders : hRead'.load[g].mem = <<>>
    <3> TAKE g \in Folders
    <3>1. hRead'.load[g].mem = hRead.load[g].mem
      BY <2>1, <2>2, AnswerRemembers DEF HistInv
    <3> QED BY <3>1, <2>1 DEF HistInv, HReadOK
  <2>4. \A g \in Folders : DOMAIN (hRead'.load[g].mem) = {}
    BY <2>3
  <2>5. AnswerNotStale' /\ EndedStaysEnded'
    BY <2>2, <2>4 DEF AnswerNotStale, EndedStaysEnded
  <2>6. hRead'.load = [g \in Folders |-> hRead'.load[g]]
    BY <2>2
  <2> QED BY <2>2, <2>5, <2>6, IsAnswered
<1> QED BY <1>1, <1>2

-----------------------------------------------------------------------------
\* Every first state
LEMMA HistStart ==
  ASSUME HistoryInit
  PROVE  HistInv
<1> DEFINE IsLeft(f, left, p) == /\ left # <<>> /\ p[1] = f
                                 /\ p[2] \in IF left[1].status = "ended" THEN {0, 1} ELSE {0}
<1>0. PICK f \in Folders : \E left \in LeftIn(f) :
        /\ hNow = 1
        /\ hSession = [g \in Folders |-> IF g = f THEN Recover(left) ELSE NoSession]
        /\ hMade = [g \in Folders |-> IF g = f /\ left # <<>> THEN 1 ELSE 0]
        /\ hThread = [t \in Stamps |->
             IF t = 1 /\ left # <<>>
             THEN [at |-> "done", path |-> <<f, 0>>, node |-> NoEntry, snap |-> left[1]]
             ELSE NoThread]
        /\ hFile = [p \in Paths |-> IF IsLeft(f, left, p) THEN <<1, p[2]>> ELSE NoEntry]
        /\ hTmp = [p \in Paths |-> NoEntry]
        /\ hNode = [x \in Stamps \X (0 .. MaxStamp) |->
             IF x[1] = 1 /\ IsLeft(f, left, <<f, x[2]>>) THEN Whole(left[1]) ELSE NoFile]
        /\ hRead = NoRead
  BY DEF HistoryInit
<1>1. PICK left \in LeftIn(f) :
        /\ hNow = 1
        /\ hSession = [g \in Folders |-> IF g = f THEN Recover(left) ELSE NoSession]
        /\ hMade = [g \in Folders |-> IF g = f /\ left # <<>> THEN 1 ELSE 0]
        /\ hThread = [t \in Stamps |->
             IF t = 1 /\ left # <<>>
             THEN [at |-> "done", path |-> <<f, 0>>, node |-> NoEntry, snap |-> left[1]]
             ELSE NoThread]
        /\ hFile = [p \in Paths |-> IF IsLeft(f, left, p) THEN <<1, p[2]>> ELSE NoEntry]
        /\ hTmp = [p \in Paths |-> NoEntry]
        /\ hNode = [x \in Stamps \X (0 .. MaxStamp) |->
             IF x[1] = 1 /\ IsLeft(f, left, <<f, x[2]>>) THEN Whole(left[1]) ELSE NoFile]
        /\ hRead = NoRead
  BY <1>0
<1>2. PICK s : s = left[1]
  OBVIOUS
<1>3. ASSUME left # <<>>
      PROVE  \E st \in {"active", "ended"} :
               s = [folder |-> f, n |-> 1, status |-> st, hit |-> TRUE, at |-> 1]
  <2>1. PICK st \in {"active", "ended"} :
          left = <<[folder |-> f, n |-> 1, status |-> st, hit |-> TRUE, at |-> 1]>>
    BY <1>3 DEF LeftIn
  <2>2. PICK b : b = [folder |-> f, n |-> 1, status |-> st, hit |-> TRUE, at |-> 1]
    OBVIOUS
  <2>3. left = <<b>>
    BY <2>1, <2>2
  <2>4. s = b
    BY <2>3, <1>2
  <2> QED BY <2>2, <2>4
<1>4. ASSUME left # <<>>
      PROVE  /\ s.folder = f /\ s.n = 1 /\ s.status \in {"active", "ended"} /\ s.hit = TRUE
             /\ s.at = 1 /\ s \in Snapshots
  <2>1. PICK st \in {"active", "ended"} :
          s = [folder |-> f, n |-> 1, status |-> st, hit |-> TRUE, at |-> 1]
    BY <1>3, <1>4
  <2>2. 1 \in Nat /\ TRUE \in BOOLEAN /\ st \in {"active", "ended", "none"}
    OBVIOUS
  <2>3. s \in Snapshots
    BY <2>1, <2>2 DEF Snapshots
  <2>4. s.folder = f /\ s.n = 1 /\ s.status = st /\ s.hit = TRUE /\ s.at = 1
    BY <2>1
  <2> QED BY <2>3, <2>4
<1>5. 1 \in Stamps /\ MaxStamp \in Nat /\ 0 \in 0 .. MaxStamp /\ 1 \in 0 .. MaxStamp
  BY HistoryAssumption DEF Stamps
<1>6. HSessions
  <2>1. NoSession \in Sessions /\ NoSession.n = 0 /\ NoSession.fresh = FALSE
    BY DEF NoSession, Sessions
  <2>2. ASSUME left # <<>>, s.status = "active"
        PROVE  /\ Recover(left) \in Sessions /\ Recover(left).n = 1 /\ Recover(left).fresh = FALSE
               /\ Recover(left).status = "active"
    <3>1. Recover(left) = [n |-> 1, status |-> "active", hit |-> TRUE, fresh |-> FALSE]
      BY <2>2, <1>2, <1>4 DEF Recover
    <3> QED BY <3>1 DEF Sessions
  <2>3. ~(left # <<>> /\ s.status = "active") => Recover(left) = NoSession
    BY <1>2 DEF Recover
  <2>4. ASSUME NEW g \in Folders PROVE HSessionOK(g)
    <3>1. CASE g = f /\ left # <<>> /\ s.status = "active"
      <4>1. hSession[g] = Recover(left) /\ hMade[g] = 1
        BY <3>1, <1>1
      <4> QED BY <4>1, <3>1, <2>2, <1>1 DEF HSessionOK
    <3>2. CASE ~(g = f /\ left # <<>> /\ s.status = "active")
      <4>1. hSession[g] = NoSession /\ hMade[g] \in {0, 1}
        BY <3>2, <2>3, <1>1
      <4> QED BY <4>1, <2>1, <1>1 DEF HSessionOK
    <3> QED BY <3>1, <3>2
  <2>5. hSession = [g \in Folders |-> hSession[g]] /\ hMade = [g \in Folders |-> hMade[g]]
    BY <1>1
  <2>6. hNow \in 1 .. MaxStamp
    BY <1>1, <1>5 DEF Stamps
  <2> QED BY <2>4, <2>5, <2>6 DEF HSessions
<1>7. ASSUME NEW t \in Stamps
      PROVE  /\ Has(t) <=> t = 1 /\ left # <<>>
             /\ Has(t) => hThread[t] = [at |-> "done", path |-> <<f, 0>>, node |-> NoEntry, snap |-> s]
  BY <1>1, <1>2 DEF Has, NoThread
<1>8. \A t \in Stamps : Has(t) => Snap(t) = s
  BY <1>7 DEF Snap
<1>9. HThreads
  <2>1. ASSUME NEW t \in Stamps, Has(t) PROVE HThreadOK(t)
    <3>1. PICK th : th = hThread[t]
      OBVIOUS
    <3>2. th = [at |-> "done", path |-> <<f, 0>>, node |-> NoEntry, snap |-> s] /\ t = 1 /\ left # <<>>
      BY <2>1, <3>1, <1>7
    <3>3. /\ th = [g \in ThreadFields |-> th[g]] /\ th.at = "done" /\ th.path = <<f, 0>>
          /\ th.snap = s
      BY <3>2 DEF ThreadFields
    <3>4. hMade[f] = 1 /\ t <= hNow
      BY <3>2, <1>1
    <3> QED BY <3>1, <3>2, <3>3, <3>4, <1>4 DEF HThreadOK
  <2>2. hThread = [t \in Stamps |-> hThread[t]]
    BY <1>1
  <2> QED BY <2>1, <2>2 DEF HThreads
<1>10. HNames
  <2>1. hFile = [p \in Paths |-> hFile[p]] /\ hTmp = [p \in Paths |-> hTmp[p]]
    BY <1>1
  <2>2. ASSUME NEW p \in Paths, hFile[p] # NoEntry PROVE NodeAt(p, hFile[p])
    <3>1. hFile[p] = <<1, p[2]>> /\ left # <<>> /\ p[1] = f /\ p[2] \in 0 .. MaxStamp
      BY <2>2, <1>1 DEF Paths
    <3>2. Has(1) /\ Snap(1) = s /\ s.folder = f
      BY <3>1, <1>4, <1>5, <1>7, <1>8
    <3> QED BY <3>1, <3>2, <1>5 DEF NodeAt, Places
  <2>3. \A p \in Paths : hTmp[p] = NoEntry
    BY <1>1
  <2> QED BY <2>1, <2>2, <2>3 DEF HNames
<1>11. HNodes
  <2>1. hNode = [x \in Places |-> hNode[x]]
    BY <1>1 DEF Places
  <2>2. ASSUME NEW x \in Places, IsWhole(hNode[x]) PROVE Holds(x, hNode[x].data)
    <3>1. x[1] = 1 /\ IsLeft(f, left, <<f, x[2]>>) /\ hNode[x] = Whole(left[1])
      BY <2>2, <1>1 DEF IsWhole, NoFile, Places
    <3>2. hNode[x].data = s /\ left # <<>>
      BY <3>1, <1>2 DEF Whole
    <3>3. Has(1) /\ Snap(1) = s
      BY <3>2, <1>5, <1>7, <1>8
    <3>4. x[2] # 0 => s.status = "ended" /\ s.n = x[2]
      BY <3>1, <3>2, <1>2, <1>4
    <3>5. Has(x[1]) /\ Snap(x[1]) = s
      BY <3>1, <3>3
    <3> QED BY <3>2, <3>3, <3>4, <3>5, <1>5 DEF Holds
  <2> QED BY <2>1, <2>2 DEF HNodes
<1>12. hRead = [at |-> "idle", load |-> [g \in Folders |-> NoLoad], limit |-> 0, flt |-> "any"]
  BY <1>1 DEF NoRead
<1>13. HReadOK
  <2>1. /\ hRead.at = "idle" /\ hRead = [g \in ReadFields |-> hRead[g]]
        /\ hRead.load = [g \in Folders |-> NoLoad]
    BY <1>12 DEF ReadFields
  <2>2. NoLoad = [g \in LoadFields |-> NoLoad[g]]
    BY NotLoaded
  <2> QED BY <2>1, <2>2 DEF HReadOK
<1>14. AnswerNotStale /\ EndedStaysEnded
  BY <1>12 DEF AnswerNotStale, EndedStaysEnded
<1> QED BY <1>6, <1>9, <1>10, <1>11, <1>13, <1>14 DEF HistInv, HDiskInv

\* What every step of the histories keeps
LEMMA HistStep ==
  ASSUME HistInv, [HistoryNext]_histVars
  PROVE  HistInv'
<1>1. CASE UNCHANGED histVars
  <2>1. HWorldStays /\ hRead' = hRead
    BY <1>1 DEF histVars, HWorldStays, hDisk
  <2>2. /\ HDiskInv' /\ Grows /\ \A f, n : AtRest(f, n)' <=> AtRest(f, n)
    BY <2>1, WorldStays DEF HistInv
  <2>3. CASE hRead.at # "answered"
    <3>1. \A f \in Folders : /\ hSession[f].n \in Nat /\ hSession'[f].n \in Nat
                             /\ hSession[f].n <= hSession'[f].n
      <4>1. \A f \in Folders : hSession[f].n \in Nat
        BY DEF HistInv, HDiskInv, HSessions, HSessionOK, Sessions
      <4> QED BY <4>1, <2>1 DEF HWorldStays
    <3>2. HReadOK' /\ AnswerNotStale' /\ EndedStaysEnded'
      BY <2>1, <2>2, <2>3, <3>1, ReadStays DEF HistInv
    <3> QED BY <2>2, <3>2 DEF HistInv
  <2>4. CASE hRead.at = "answered"
    <3>1. AnswerNotStale'
      BY <2>1 DEF HistInv, AnswerNotStale, Shown
    <3>2. EndedStaysEnded'
      <4>1. \A f, n : Over(f, n)' <=> Over(f, n)
        BY <2>1, WorldStays DEF HistInv
      <4> QED BY <4>1, <2>1 DEF HistInv, EndedStaysEnded, Shown
    <3>3. hRead'.load = [f \in Folders |-> hRead'.load[f]]
      BY <2>1 DEF HistInv, HReadOK
    <3> QED BY <2>1, <2>4, <3>1, <3>2, <3>3, IsAnswered
  <2> QED BY <2>3, <2>4
<1>2. CASE \E f \in Folders : NewSession(f) \/ SessionStarted(f) \/ SessionUsed(f)
                              \/ SessionWrites(f) \/ SessionEnds(f)
  BY <1>2, SessionIsMade, SessionSteps
<1>3. CASE \E f \in Folders : LoadLatest(f) \/ ListArchive(f) \/ \E n \in Stamps : LoadArchived(f, n)
  BY <1>3, LatestIsLoaded, ArchiveIsListed, ArchiveIsLoaded
<1>4. CASE \E f \in Folders : \E n \in Stamps : GetHistoryDetail(f, n)
  <2>1. "any" \in Filters
    BY DEF Filters
  <2> QED BY <2>1, <1>4, HistorySteps
<1>5. CASE \E f \in Folders : \E flt \in Filters :
            \/ \E page \in Pages : GetHistoryTimeline(f, flt, page) \/ ExportHistory(f, flt, page)
                                   \/ SearchHistory(f, flt, page)
            \/ ArchiveHistory(f, flt) \/ ArchiveSearchAgain(f, flt) \/ ArchiveHistorySearch(f, flt)
  BY <1>5, HistorySteps, SearchIsRepeated
<1>6. CASE \E f \in Folders : GetCurrentHistory(f) \/ NoCurrentHistory(f) \/ GetPersistedHistory(f)
  BY <1>6, CurrentIsShown, CurrentIsMissed, PersistedIsShown
<1>7. CASE \E t \in Stamps :
             OpenSnapshotTmp(t) \/ WriteSnapshotTmp(t) \/ ReplaceSnapshot(t) \/ PersistGivesUp(t)
  BY <1>7, SnapshotTmpOpens, SnapshotTmpIsWritten, SnapshotIsReplaced, PersistFails
<1>8. CASE \E fs \in SUBSET Folders \ {{}} : StartLoading(fs)
  BY <1>8, LoadingStarts
<1>9. CASE \E flt \in Filters : ExportHistoryArchive(flt)
  BY <1>9, ArchiveOfAll
<1>10. CASE ListTerminalOverview \/ StartLatestExport \/ ExportLatestHistories
  BY <1>10, OverviewIsListed, LatestExportStarts, LatestIsExported
<1>11. CASE HistoryNext
  <2>1. \/ \E f \in Folders : NewSession(f) \/ SessionStarted(f) \/ SessionUsed(f)
                              \/ SessionWrites(f) \/ SessionEnds(f)
        \/ \E f \in Folders : LoadLatest(f) \/ ListArchive(f) \/ \E n \in Stamps : LoadArchived(f, n)
        \/ \E f \in Folders : \E n \in Stamps : GetHistoryDetail(f, n)
        \/ \E f \in Folders : \E flt \in Filters :
             \/ \E page \in Pages : GetHistoryTimeline(f, flt, page) \/ ExportHistory(f, flt, page)
                                    \/ SearchHistory(f, flt, page)
             \/ ArchiveHistory(f, flt) \/ ArchiveSearchAgain(f, flt) \/ ArchiveHistorySearch(f, flt)
        \/ \E f \in Folders : GetCurrentHistory(f) \/ NoCurrentHistory(f) \/ GetPersistedHistory(f)
        \/ \E t \in Stamps :
             OpenSnapshotTmp(t) \/ WriteSnapshotTmp(t) \/ ReplaceSnapshot(t) \/ PersistGivesUp(t)
        \/ \E fs \in SUBSET Folders \ {{}} : StartLoading(fs)
        \/ \E flt \in Filters : ExportHistoryArchive(flt)
        \/ ListTerminalOverview \/ StartLatestExport \/ ExportLatestHistories
    BY <1>11, Zenon DEF HistoryNext
  <2> QED BY <2>1, <1>2, <1>3, <1>4, <1>5, <1>6, <1>7, <1>8, <1>9, <1>10
<1> QED BY <1>1, <1>11
=============================================================================

---------------------------- MODULE ReasoningProofs ----------------------------
(***************************************************************************)
(* Proofs about Publication, ReasoningSession and TruthMaintenance, for    *)
(* every value of their constants: what is published is exact, what a      *)
(* session holds is sound for the claims that it has read, and what a      *)
(* maintenance pass leaves is the stable model of the active rules.        *)
(***************************************************************************)
EXTENDS ReasoningSession, Publication, TruthMaintenance, FiniteSetTheorems, SequenceTheorems,
        WellFoundedInduction, TLAPS

-----------------------------------------------------------------------------
(* The history.                                                             *)

(* Of some numbers, one is the least.                                       *)
LEMMA LeastOf ==
    ASSUME NEW K \in SUBSET Nat, K # {}
    PROVE  \E k \in K : \A j \in K : k <= j
<1>1. PICK k \in K : \A j \in K : ~(<<j, k>> \in OpToRel(<, Nat))
  BY NatLessThanWellFounded, WFMin
<1>2. \A j \in K : ~(j < k)
  BY <1>1 DEF OpToRel
<1> QED
  BY <1>2

(* Of some positions of a history, Max is the last.                         *)
LEMMA LastOf ==
    ASSUME NEW h \in Nat, NEW K \in SUBSET (1..h), K # {}
    PROVE  Max(K) \in K /\ \A j \in K : j <= Max(K)
<1>1. PICK D : D = {h - k : k \in K}
  OBVIOUS
<1>2. D \in SUBSET Nat /\ D # {}
  <2>1. \A k \in 1..h : h - k \in Nat
    OBVIOUS
  <2> QED
    BY <1>1, <2>1
<1>3. PICK d \in D : \A e \in D : d <= e
  BY <1>2, LeastOf
<1>4. PICK k \in K : d = h - k
  BY <1>1
<1>5. \A j \in K : h - j \in D /\ j \in 1..h
  BY <1>1
<1>6. \A j \in K : k >= j
  BY <1>3, <1>4, <1>5
<1>7. \A j \in K : Max(K) \in K /\ Max(K) >= j
  BY <1>6 DEF Max
<1> QED
  BY <1>5, <1>7

(* A commit has one version of a claim in a world, and one source version   *)
(* or only target versions.                                                 *)
OneOfEach(W) == \A v \in W, w \in W : (v.world = w.world /\ v.claim = w.claim) \/ v.world = "source" => v = w
LogKept ==
    /\ \E S : log \in Seq(S)
    /\ \A i \in 1..Now : OneOfEach(log[i])

(* The history has grown, or has not changed.                               *)
Grown == Now \in Nat /\ Now' \in Nat /\ Now <= Now' /\ \A i \in 1..Now : log'[i] = log[i]

(* A commit is added after the others.                                      *)
LEMMA Appended ==
    ASSUME LogKept, NEW W, OneOfEach(W), log' = Append(log, W)
    PROVE  LogKept' /\ Grown /\ Now' = Now + 1 /\ log'[Now + 1] = W
<1>1. PICK S : log \in Seq(S)
  BY DEF LogKept
<1>2. PICK T : T = S \cup {W}
  OBVIOUS
<1>3. log \in Seq(T) /\ W \in T
  BY <1>1, <1>2, SeqMonotonic
<1>4. /\ log' \in Seq(T) /\ Len(log') = Len(log) + 1
      /\ (\A i \in 1..Len(log) : log'[i] = log[i]) /\ log'[Len(log) + 1] = W
  BY <1>3, AppendProperties
<1>5. Now \in Nat /\ Now' = Now + 1
  BY <1>3, <1>4 DEF Now
<1>6. \A i \in 1..Now' : OneOfEach(log'[i])
  BY <1>4, <1>5 DEF LogKept, Now
<1>7. LogKept'
  <2>1. \A i \in 1..Now' : OneOfEach(log[i])'
    BY <1>6 DEF OneOfEach
  <2> QED
    BY <1>4, <2>1 DEF LogKept
<1> QED
  BY <1>4, <1>5, <1>7 DEF Grown, Now

(* Nothing happened to it.                                                  *)
LEMMA Unchanged ==
    ASSUME LogKept, log' = log
    PROVE  LogKept' /\ Grown /\ Now' = Now
<1>1. Now \in Nat /\ Now' = Now
  BY LenProperties DEF LogKept, Now
<1> QED
  BY <1>1 DEF LogKept, OneOfEach, Grown, Now

(* What a horizon shows does not change when the history grows.             *)
LEMMA HorizonStays ==
    ASSUME Grown, NEW h \in 0..Now
    PROVE  /\ \A w, c : Covering(h, w, c)' = Covering(h, w, c) /\ Present(h, w, c)' = Present(h, w, c)
           /\ \A i \in 1..h : SourceClaim(i)' = SourceClaim(i) /\ \A w, c : VersionAt(i, w, c)' = VersionAt(i, w, c)
<1>1. h \in Nat /\ \A i \in 1..h : log'[i] = log[i]
  BY DEF Grown
<1>2. ASSUME NEW w, NEW c
      PROVE  Covering(h, w, c)' = Covering(h, w, c)
  BY <1>1 DEF Covering
<1>3. \A i \in 1..h : SourceClaim(i)' = SourceClaim(i) /\ \A w, c : VersionAt(i, w, c)' = VersionAt(i, w, c)
  BY <1>1 DEF SourceClaim, VersionAt
<1>4. ASSUME NEW w, NEW c
      PROVE  Present(h, w, c)' = Present(h, w, c)
  <2>1. CASE Covering(h, w, c) = {}
    BY <1>2, <2>1 DEF Present
  <2>2. CASE Covering(h, w, c) # {}
    <3>1. PICK m : m = Max(Covering(h, w, c))
      OBVIOUS
    <3>2. Covering(h, w, c) \in SUBSET (1..h)
      BY DEF Covering
    <3>3. m \in 1..h
      BY <1>1, <2>2, <3>1, <3>2, LastOf
    <3>4. VersionAt(m, w, c)' = VersionAt(m, w, c)
      BY <1>3, <3>3
    <3>5. Present(h, w, c) = (VersionAt(m, w, c).op # "retract")
      BY <2>2, <3>1 DEF Present
    <3>6. Present(h, w, c)' = (VersionAt(m, w, c)'.op # "retract")
      <4>1. Covering(h, w, c)' # {} /\ m = Max(Covering(h, w, c)')
        BY <1>2, <2>2, <3>1
      <4> QED
        BY <4>1 DEF Present
    <3> QED
      BY <3>4, <3>5, <3>6
  <2> QED
    BY <2>1, <2>2
<1> QED
  BY <1>2, <1>3, <1>4

(* The same for what follows from them: the facts of the source, the        *)
(* claims of a target and its fingerprint.                                  *)
LEMMA SourceStays ==
    ASSUME Grown, NEW h \in 0..Now
    PROVE  SourceIds(h)' = SourceIds(h) /\ SourceFacts(h)' = SourceFacts(h)
<1>1. h \in Nat
  BY DEF Grown
<1>2. ASSUME NEW d
      PROVE  /\ Present(h, "source", d)' = Present(h, "source", d)
             /\ Covering(h, "source", d)' = Covering(h, "source", d)
             /\ Present(h, "source", d) => Max(Covering(h, "source", d)) \in 1..h
  <2>1. Present(h, "source", d) => Covering(h, "source", d) # {}
    BY DEF Present
  <2>2. Covering(h, "source", d) \in SUBSET (1..h)
    BY DEF Covering
  <2> QED
    BY <1>1, <2>1, <2>2, HorizonStays, LastOf
<1>3. SourceIds(h)' = SourceIds(h) /\ SourceIds(h) \subseteq 1..h
  BY <1>2 DEF SourceIds
<1>4. \A i \in SourceIds(h) : SourceClaim(i)' = SourceClaim(i)
  BY <1>3, HorizonStays
<1> QED
  BY <1>3, <1>4 DEF SourceFacts

(* A commit changes nothing about a target at earlier horizons.             *)
LEMMA TargetStays ==
    ASSUME Grown, NEW h \in 0..Now, NEW k
    PROVE  /\ Target(k, h)' = Target(k, h) /\ Base(k, h)' = Base(k, h) /\ Seen(k, h)' = Seen(k, h)
           /\ \A i \in 1..h : Published(k, i)' = Published(k, i)
<1>1. h \in Nat /\ \A i \in 1..h : log'[i] = log[i]
  BY DEF Grown
<1>2. TargetClaims(k, h)' = TargetClaims(k, h)
  BY <1>1 DEF TargetClaims
<1>3. ASSUME NEW f
      PROVE  /\ Present(h, k, f)' = Present(h, k, f)
             /\ Present(h, k, f) => VersionAt(Max(Covering(h, k, f)), k, f)' = VersionAt(Max(Covering(h, k, f)), k, f)
  <2>1. Present(h, k, f) => Covering(h, k, f) # {}
    BY DEF Present
  <2>2. Covering(h, k, f) \in SUBSET (1..h)
    BY DEF Covering
  <2>3. PICK m : m = Max(Covering(h, k, f))
    OBVIOUS
  <2>4. m = Max(Covering(h, k, f)')
    BY <2>3, HorizonStays
  <2>5. Present(h, k, f) => VersionAt(m, k, f)' = VersionAt(m, k, f)
    BY <1>1, <2>1, <2>2, <2>3, HorizonStays, LastOf
  <2>6. VersionAt(Max(Covering(h, k, f)), k, f)' = VersionAt(m, k, f)'
    BY <2>4
  <2> QED
    BY <2>3, <2>5, <2>6, HorizonStays
<1>4. Target(k, h)' = Target(k, h)
  BY <1>2, <1>3 DEF Target
<1>5. \A i \in 1..h : Published(k, i)' = Published(k, i)
  BY <1>1 DEF Published
<1>6. Base(k, h)' = Base(k, h)
  BY <1>1, <1>4 DEF Base
<1> QED
  BY <1>4, <1>5, <1>6 DEF Seen

-----------------------------------------------------------------------------
(* Publication.                                                             *)

(* Whatever is written into a target covers the point.                      *)
TargetsCover == \A i \in 1..Now : \A v \in log[i] : v.from \in Nat /\ (v.world # "source" => v.covers)

(* A target shows the claims whose newest version is not a retraction.      *)
ShowsPresent == \A h \in Nat : \A k, f : (\E v \in Target(k, h) : v.claim = f) <=> Present(h, k, f)
(* What is present in a target is what its latest versions assert.          *)
LEMMA TargetShows == ShowsPresent
<1> SUFFICES ASSUME NEW h \in Nat, NEW k, NEW f
             PROVE  (\E v \in Target(k, h) : v.claim = f) <=> Present(h, k, f)
  BY DEF ShowsPresent
<1>1. ASSUME NEW g, Present(h, k, g)
      PROVE  g \in TargetClaims(k, h) /\ VersionAt(Max(Covering(h, k, g)), k, g).claim = g
  <2>1. PICK m : m = Max(Covering(h, k, g))
    OBVIOUS
  <2>2. Covering(h, k, g) # {} /\ Covering(h, k, g) \in SUBSET (1..h)
    BY <1>1 DEF Present, Covering
  <2>3. m \in Covering(h, k, g)
    BY <2>1, <2>2, LastOf
  <2>4. m \in 1..h /\ \E v \in log[m] : v.world = k /\ v.claim = g /\ v.covers
    BY <2>3 DEF Covering
  <2>5. VersionAt(m, k, g).claim = g
    BY <2>4 DEF VersionAt
  <2>6. g \in TargetClaims(k, h)
    BY <2>4 DEF TargetClaims
  <2> QED
    BY <2>1, <2>5, <2>6
<1>2. ASSUME NEW v \in Target(k, h), v.claim = f
      PROVE  Present(h, k, f)
  <2>1. PICK g \in TargetClaims(k, h) : Present(h, k, g) /\ v = VersionAt(Max(Covering(h, k, g)), k, g)
    BY DEF Target
  <2>2. v.claim = g
    BY <1>1, <2>1
  <2> QED
    BY <1>2, <2>1, <2>2
<1>3. ASSUME Present(h, k, f)
      PROVE  \E v \in Target(k, h) : v.claim = f
  <2>1. VersionAt(Max(Covering(h, k, f)), k, f) \in Target(k, h)
    BY <1>1, <1>3 DEF Target
  <2> QED
    BY <1>1, <1>3, <2>1
<1> QED
  BY <1>2, <1>3

(* Equal fingerprints: the same claims and generations and, for a bound     *)
(* range, no publication in between.                                        *)
LEMMA SameBase ==
    ASSUME NEW k, NEW h \in Nat, NEW j \in Nat, Base(k, h) = Base(k, j)
    PROVE  /\ Seen(k, h) = Seen(k, j)
           /\ k = "bound" => \A i \in 1..h : Published(k, i) # {} => i <= j
<1>1. ASSUME NEW c, NEW g, NEW n \in Nat
      PROVE  <<c, g>> \in Seen(k, n) <=> <<0, c, g>> \in Base(k, n)
  <2>1. \A i \in 1..n : <<i, "history", {}>> # <<0, c, g>>
    OBVIOUS
  <2>2. ASSUME NEW v
        PROVE  <<0, v.claim, v.gen>> = <<0, c, g>> <=> <<v.claim, v.gen>> = <<c, g>>
    OBVIOUS
  <2> QED
    BY <2>1, <2>2 DEF Seen, Base
<1>2. ASSUME NEW n \in Nat, NEW x \in Seen(k, n)
      PROVE  \E c, g : x = <<c, g>>
  BY DEF Seen
<1>3. Seen(k, h) = Seen(k, j)
  <2>1. ASSUME NEW x \in Seen(k, h)
        PROVE  x \in Seen(k, j)
    <3>1. PICK c, g : x = <<c, g>>
      BY <1>2
    <3>2. <<0, c, g>> \in Base(k, h)
      BY <1>1, <3>1
    <3>3. <<0, c, g>> \in Base(k, j)
      BY <3>2
    <3> QED
      BY <1>1, <3>1, <3>3
  <2>2. ASSUME NEW x \in Seen(k, j)
        PROVE  x \in Seen(k, h)
    <3>1. PICK c, g : x = <<c, g>>
      BY <1>2
    <3>2. <<0, c, g>> \in Base(k, j)
      BY <1>1, <3>1
    <3>3. <<0, c, g>> \in Base(k, h)
      BY <3>2
    <3> QED
      BY <1>1, <3>1, <3>3
  <2> QED
    BY <2>1, <2>2
<1>4. ASSUME k = "bound", NEW i \in 1..h, Published(k, i) # {}
      PROVE  i <= j
  <2>1. <<i, "history", {}>> \in Base(k, h)
    BY <1>4 DEF Base, Published
  <2>2. <<i, "history", {}>> \in Base(k, j)
    BY <2>1
  <2>3. \A v : <<0, v.claim, v.gen>> # <<i, "history", {}>>
    OBVIOUS
  <2>4. PICK n \in 1..j : <<i, "history", {}>> = <<n, "history", {}>>
    BY <2>2, <2>3 DEF Base
  <2> QED
    BY <2>4
<1> QED
  BY <1>3, <1>4

(* What is written: one version of a claim, an assertion of what is desired *)
(* and not there, a correction of what is there and stays desired, or a     *)
(* retraction of what is there and is not desired.                          *)
LEMMA Written ==
    ASSUME NEW s, NEW fresh, s.kind \in Kinds, Now \in Nat
    PROVE  /\ OneOfEach(Writes(s, fresh))
           /\ \A v \in Writes(s, fresh) :
                 /\ v.world = s.kind /\ v.covers /\ v.from = s.h /\ v.fresh = fresh
                 /\ v.op # "retract" <=> v.claim \in s.desired
           /\ \A f : (f \in s.desired \ {v.claim : v \in Target(s.kind, Now)})
                        \/ (f \in {v.claim : v \in Target(s.kind, Now)} \ s.desired)
                     => \E v \in Writes(s, fresh) : v.claim = f
<1> DEFINE there == {v.claim : v \in Target(s.kind, Now)}
           kept == {v.claim : v \in {w \in Target(s.kind, Now) : w.gen = s.gen}}
           Authored(f, op) == TargetVersion(s.kind, f, op, s.gen, s.h, fresh)
<1>1. Writes(s, fresh) = {Authored(f, "assert") : f \in s.desired \ there} \cup
                         {Authored(f, "correct") : f \in (s.desired \cap there) \ kept} \cup
                         {Authored(f, "retract") : f \in there \ s.desired}
  BY DEF Writes
<1>2. ASSUME NEW f, NEW op
      PROVE  /\ Authored(f, op).world = s.kind /\ Authored(f, op).covers /\ Authored(f, op).from = s.h
             /\ Authored(f, op).fresh = fresh /\ Authored(f, op).claim = f /\ Authored(f, op).op = op
  BY DEF TargetVersion
<1>3. s.kind # "source"
  BY DEF Kinds
<1> HIDE DEF there, kept, Authored
<1>4. ASSUME NEW v \in Writes(s, fresh)
      PROVE  \E f, op : /\ v = Authored(f, op)
                        /\ \/ op = "assert" /\ f \in s.desired \ there
                           \/ op = "correct" /\ f \in (s.desired \cap there) \ kept
                           \/ op = "retract" /\ f \in there \ s.desired
  BY <1>1
<1>5. ASSUME NEW v \in Writes(s, fresh)
      PROVE  /\ v.world = s.kind /\ v.covers /\ v.from = s.h /\ v.fresh = fresh
             /\ v.op # "retract" <=> v.claim \in s.desired
  BY <1>2, <1>4
<1>6. ASSUME NEW v \in Writes(s, fresh), NEW w \in Writes(s, fresh), v.claim = w.claim
      PROVE  v = w
  BY <1>2, <1>4, <1>6
<1>7. OneOfEach(Writes(s, fresh))
  BY <1>3, <1>5, <1>6 DEF OneOfEach
<1>8. ASSUME NEW f, f \in s.desired \ there \/ f \in there \ s.desired
      PROVE  \E v \in Writes(s, fresh) : v.claim = f
  <2>1. \E op : Authored(f, op) \in Writes(s, fresh)
    BY <1>1, <1>8
  <2> QED
    BY <1>2, <2>1
<1> QED
  BY <1>5, <1>7, <1>8 DEF there

(* So a target shows what is desired once the writes are committed.         *)
LEMMA DesiredShown ==
    ASSUME LogKept, TargetsCover, NEW s, NEW fresh, s.kind \in Kinds,
           log' = Append(log, Writes(s, fresh))
    PROVE  {v.claim : v \in Target(s.kind, Now)}' = s.desired
<1>1. Now \in Nat
  BY LenProperties DEF LogKept, Now
<1>2. PICK k, W : k = s.kind /\ W = Writes(s, fresh) /\ OneOfEach(W)
  BY <1>1, Written
<1>3. Grown /\ Now' = Now + 1 /\ log'[Now + 1] = W
  BY <1>2, Appended
<1>4. PICK n \in Nat : n = Now + 1
  BY <1>1
<1>5. n >= 1 /\ log'[n] = W /\ \A i \in 1..(n - 1) : log'[i] = log[i]
  <2>1. n - 1 = Now /\ n >= 1
    BY <1>1, <1>4
  <2>2. \A i \in 1..(n - 1) : log'[i] = log[i]
    BY <1>3, <2>1 DEF Grown
  <2> QED
    BY <1>3, <1>4, <2>1, <2>2
<1>6. \A v \in W : v.world = k /\ v.covers /\ (v.op # "retract" <=> v.claim \in s.desired)
  BY <1>1, <1>2, Written
<1>7. ShowsPresent'
  BY TargetShows, PTL
<1>8. ASSUME NEW f
      PROVE  Present(n, k, f)' <=> f \in s.desired
  <2>1. CASE \E v \in W : v.claim = f
    <3>1. PICK v \in W : v.claim = f
      BY <2>1
    <3>2. Covering(n, k, f)' \in SUBSET (1..n) /\ n \in Covering(n, k, f)'
      <4>1. n \in 1..n /\ \E w \in log'[n] : w.world = k /\ w.claim = f /\ w.covers
        BY <1>5, <1>6, <3>1
      <4> QED
        BY <4>1 DEF Covering
    <3>3. PICK C : C = Covering(n, k, f)'
      OBVIOUS
    <3>4. Max(C) \in C /\ \A j \in C : j <= Max(C)
      BY <3>2, <3>3, LastOf
    <3>5. Max(C) = n
      BY <3>2, <3>3, <3>4
    <3>6. VersionAt(n, k, f)' = v
      BY <1>2, <1>5, <1>6, <3>1 DEF VersionAt, OneOfEach
    <3>7. Present(n, k, f)' <=> C # {} /\ VersionAt(Max(C), k, f)'.op # "retract"
      BY <3>3 DEF Present
    <3>8. VersionAt(Max(C), k, f)' = VersionAt(n, k, f)'
      BY <3>5
    <3> QED
      BY <1>6, <3>1, <3>2, <3>3, <3>6, <3>7, <3>8
  <2>2. CASE ~ \E v \in W : v.claim = f
    <3>1. Covering(n, k, f)' = Covering(n - 1, k, f)'
      <4>1. \A i \in 1..n : i = n \/ i \in 1..(n - 1)
        OBVIOUS
      <4>2. 1..(n - 1) \subseteq 1..n
        OBVIOUS
      <4> QED
        BY <1>5, <2>2, <4>1, <4>2 DEF Covering
    <3>2. Present(n, k, f)' <=> Present(n - 1, k, f)'
      BY <3>1 DEF Present
    <3>3. n - 1 \in 0..Now /\ n - 1 = Now
      BY <1>1, <1>4
    <3>4. Present(n - 1, k, f)' <=> Present(n - 1, k, f)
      BY <1>3, <3>3, HorizonStays
    <3>5. Present(Now, k, f) <=> \E v \in Target(k, Now) : v.claim = f
      BY <1>1, TargetShows DEF ShowsPresent
    <3>6. ~(f \in s.desired \ {v.claim : v \in Target(k, Now)})
          /\ ~(f \in {v.claim : v \in Target(k, Now)} \ s.desired)
      BY <1>1, <1>2, <2>2, Written
    <3> QED
      BY <3>2, <3>3, <3>4, <3>5, <3>6
  <2> QED
    BY <2>1, <2>2
<1>9. ASSUME NEW f
      PROVE  (\E v \in Target(k, Now)' : v.claim = f) <=> f \in s.desired
  <2>1. (\E v \in Target(k, n)' : v.claim = f) <=> Present(n, k, f)'
    BY <1>7 DEF ShowsPresent
  <2>2. Target(k, Now)' = Target(k, n)'
    BY <1>3, <1>4
  <2> QED
    BY <1>8, <2>1, <2>2
<1>10. PICK T : T = Target(k, Now)'
  OBVIOUS
<1>11. {v.claim : v \in T} = s.desired
  BY <1>9, <1>10
<1> QED
  BY <1>2, <1>10, <1>11

(* PublicationExact, of one commit.                                         *)
ExactAt(i) ==
    \A k \in Kinds :
        /\ k # "given" /\ (\E v \in Published(k, i) : v.fresh = "latest")
               => {v.claim : v \in Target(k, i)} = ClosureOf(SourceFacts(i - 1))
        /\ \A v \in Published(k, i) : v.from < i /\ Seen(k, i - 1) = Seen(k, v.from)
        /\ k = "bound" => \A v \in Published(k, i), j \in 1..(i - 1) : Published(k, j) # {} => j <= v.from

(* An exact publication stays exact when the log grows.                     *)
LEMMA ExactStays ==
    ASSUME Grown, TargetsCover, NEW i \in 1..Now, ExactAt(i)
    PROVE  ExactAt(i)'
<1>1. i \in Nat /\ i \in 0..Now /\ i - 1 \in 0..Now /\ i - 1 \in Nat
  BY DEF Grown
<1>2. SourceFacts(i - 1)' = SourceFacts(i - 1)
  BY <1>1, SourceStays
<1>3. PICK F : F = SourceFacts(i - 1) /\ F = SourceFacts(i - 1)'
  BY <1>2
<1> SUFFICES ASSUME NEW k \in Kinds
             PROVE  (/\ k # "given" /\ (\E v \in Published(k, i) : v.fresh = "latest")
                            => {v.claim : v \in Target(k, i)} = ClosureOf(SourceFacts(i - 1))
                     /\ \A v \in Published(k, i) : v.from < i /\ Seen(k, i - 1) = Seen(k, v.from)
                     /\ k = "bound" => \A v \in Published(k, i), j \in 1..(i - 1) :
                                           Published(k, j) # {} => j <= v.from)'
  BY DEF ExactAt
<1>4. Published(k, i)' = Published(k, i) /\ Target(k, i)' = Target(k, i)
  BY <1>1, TargetStays
<1>5. Seen(k, i - 1)' = Seen(k, i - 1) /\ \A j \in 1..(i - 1) : Published(k, j)' = Published(k, j)
  BY <1>1, TargetStays
<1>6. k # "given" /\ (\E v \in Published(k, i)' : v.fresh = "latest")
          => {v.claim : v \in Target(k, i)'} = ClosureOf(F)
  BY <1>3, <1>4 DEF ExactAt
<1>7. ASSUME NEW v \in Published(k, i)'
      PROVE  v.from < i /\ Seen(k, i - 1)' = Seen(k, v.from)'
  <2>1. v \in Published(k, i) /\ v \in log[i]
    BY <1>4 DEF Published
  <2>2. v.from < i /\ v.from \in Nat /\ Seen(k, i - 1) = Seen(k, v.from)
    BY <2>1 DEF ExactAt, TargetsCover
  <2>3. v.from \in 0..Now
    BY <1>1, <2>2 DEF Grown
  <2>4. Seen(k, v.from)' = Seen(k, v.from)
    BY <2>3, TargetStays
  <2> QED
    BY <1>5, <2>2, <2>4
<1>8. k = "bound" => \A v \in Published(k, i)', j \in 1..(i - 1) : Published(k, j)' # {} => j <= v.from
  BY <1>4, <1>5 DEF ExactAt
<1> QED
  BY <1>3, <1>6, <1>7, <1>8

(* Steps that write nothing keep all that is about the log.                 *)
LEMMA HistoryStays ==
    ASSUME LogKept, TargetsCover, PublicationExact, log' = log
    PROVE  LogKept' /\ TargetsCover' /\ PublicationExact' /\ Grown /\ Now' = Now
<1>1. LogKept' /\ Grown /\ Now' = Now
  BY Unchanged
<1>2. TargetsCover'
  BY <1>1 DEF TargetsCover
<1>3. \A i \in 1..Now : ExactAt(i)
  BY DEF PublicationExact, ExactAt
<1>4. \A i \in 1..Now : ExactAt(i)'
  BY <1>1, <1>3, ExactStays
<1> QED
  BY <1>1, <1>2, <1>4 DEF PublicationExact, ExactAt

(* A generation that is published over the target it was staged from, as    *)
(* latest only when nothing was committed since, is exact.                  *)
LEMMA PublishKeeps ==
    ASSUME LogKept, TargetsCover, PublicationExact,
           NEW s, NEW fresh, s.kind \in Kinds, s.h \in 0..Now,
           s.kind # "given" => s.desired = ClosureOf(SourceFacts(s.h)),
           Fresh(s, fresh), Base(s.kind, Now) = Base(s.kind, s.h), Publish(s, fresh)
    PROVE  LogKept' /\ TargetsCover' /\ PublicationExact' /\ Grown
<1>1. Now \in Nat
  BY LenProperties DEF LogKept, Now
<1>2. CASE Writes(s, fresh) = {}
  BY <1>2, HistoryStays DEF Publish
<1>3. CASE Writes(s, fresh) # {}
  <2>1. log' = Append(log, Writes(s, fresh))
    BY <1>3 DEF Publish
  <2>2. PICK W, k, n : W = Writes(s, fresh) /\ k = s.kind /\ n = Now + 1 /\ n \in Nat
    BY <1>1
  <2>3. /\ OneOfEach(W)
        /\ \A v \in W : v.world = k /\ v.covers /\ v.from = s.h /\ v.fresh = fresh
    BY <1>1, <2>2, Written
  <2>4. LogKept' /\ Grown /\ Now' = n /\ log'[n] = W
    BY <2>1, <2>2, <2>3, Appended
  <2>5. n >= 1 /\ n - 1 = Now /\ \A i \in 1..n : i = n \/ i \in 1..Now
    BY <1>1, <2>2
  <2>6. \A i \in 1..Now : log'[i] = log[i]
    BY <2>4 DEF Grown
  <2>7. s.h \in Nat /\ s.h < n /\ s.h \in 0..Now /\ Now \in 0..Now /\ k \in Kinds
    BY <1>1, <2>2
  <2>8. TargetsCover'
    <3>1. \A i \in 1..n : \A v \in log'[i] : v.from \in Nat /\ (v.world # "source" => v.covers)
      BY <2>3, <2>4, <2>5, <2>6, <2>7 DEF TargetsCover
    <3> QED
      BY <2>4, <3>1 DEF TargetsCover
  <2>9. Seen(k, n - 1)' = Seen(k, s.h)'
    <3>1. Seen(k, Now) = Seen(k, s.h)
      BY <1>1, <2>2, <2>7, SameBase
    <3>2. PICK m : m = Now
      OBVIOUS
    <3>3. Seen(k, m)' = Seen(k, m) /\ Seen(k, s.h)' = Seen(k, s.h)
      BY <2>4, <2>7, <3>2, TargetStays
    <3> QED
      BY <2>5, <3>1, <3>2, <3>3
  <2>10. ASSUME k = "bound", NEW j \in 1..(n - 1), Published(k, j)' # {}
         PROVE  j <= s.h
    <3>1. j \in 1..Now
      BY <2>5
    <3>2. Published(k, j)' = Published(k, j)
      BY <2>4, <2>7, <3>1, TargetStays
    <3> QED
      BY <1>1, <2>2, <2>7, <2>10, <3>1, <3>2, SameBase
  <2>11. ASSUME k # "given", fresh = "latest"
         PROVE  {v.claim : v \in Target(k, n)'} = ClosureOf(SourceFacts(n - 1)')
    <3>1. {v.claim : v \in Target(k, n)'} = s.desired
      <4>1. {v.claim : v \in Target(k, Now)}' = s.desired
        BY <2>1, <2>2, DesiredShown
      <4> QED
        BY <2>4, <4>1
    <3>2. PICK m : m = Now
      OBVIOUS
    <3>3. PICK F : F = SourceFacts(m)
      OBVIOUS
    <3>4. s.desired = ClosureOf(F)
      BY <2>2, <2>11, <3>2, <3>3 DEF Fresh
    <3>5. SourceFacts(m)' = F
      BY <2>4, <2>7, <3>2, <3>3, SourceStays
    <3>6. SourceFacts(n - 1)' = F
      BY <2>5, <3>2, <3>5
    <3> QED
      BY <3>1, <3>4, <3>6
  <2>12. \A l \in Kinds : l # k => Published(l, n)' = {}
    BY <2>3, <2>4 DEF Published
  <2>13. Published(k, n)' = W
    BY <2>3, <2>4 DEF Published
  <2>14. ExactAt(n)'
    <3> SUFFICES ASSUME NEW l \in Kinds
                 PROVE  (/\ l # "given" /\ (\E v \in Published(l, n) : v.fresh = "latest")
                                => {v.claim : v \in Target(l, n)} = ClosureOf(SourceFacts(n - 1))
                         /\ \A v \in Published(l, n) : v.from < n /\ Seen(l, n - 1) = Seen(l, v.from)
                         /\ l = "bound" => \A v \in Published(l, n), j \in 1..(n - 1) :
                                               Published(l, j) # {} => j <= v.from)'
      BY DEF ExactAt
    <3>1. CASE l # k
      BY <2>12, <3>1
    <3>2. CASE l = k
      <4>1. \A v \in Published(l, n)' : v.from = s.h /\ v.fresh = fresh
        BY <2>3, <2>13, <3>2
      <4>2. l # "given" /\ (\E v \in Published(l, n)' : v.fresh = "latest")
                => {v.claim : v \in Target(l, n)'} = ClosureOf(SourceFacts(n - 1)')
        BY <2>11, <3>2, <4>1
      <4>3. \A v \in Published(l, n)' : v.from < n /\ Seen(l, n - 1)' = Seen(l, v.from)'
        BY <2>7, <2>9, <3>2, <4>1
      <4>4. l = "bound" => \A v \in Published(l, n)', j \in 1..(n - 1) : Published(l, j)' # {} => j <= v.from
        BY <2>10, <3>2, <4>1
      <4> QED
        BY <4>2, <4>3, <4>4
    <3> QED
      BY <3>1, <3>2
  <2>15. \A i \in 1..Now : ExactAt(i)'
    <3>1. \A i \in 1..Now : ExactAt(i)
      BY DEF PublicationExact, ExactAt
    <3> QED
      BY <2>4, <3>1, ExactStays
  <2>16. \A i \in 1..n : ExactAt(i)'
    BY <2>5, <2>14, <2>15
  <2>17. PublicationExact'
    BY <2>4, <2>16 DEF PublicationExact, ExactAt
  <2> QED
    BY <2>4, <2>8, <2>17
<1> QED
  BY <1>2, <1>3

(* A claim that is recorded publishes nothing.                              *)
LEMMA RecordKeeps ==
    ASSUME LogKept, TargetsCover, PublicationExact, NEW Told, Recorded(Told)
    PROVE  LogKept' /\ TargetsCover' /\ PublicationExact' /\ Grown
<1>1. Now \in Nat
  BY LenProperties DEF LogKept, Now
<1>2. PICK v : log' = Append(log, {v}) /\ v.world = "source" /\ v.from \in Nat
  <2>1. PICK r \in Told : Record(r[1], r[2], r[3])
    BY DEF Recorded
  <2>2. PICK v : v = SourceVersion(r[1], r[2], r[3])
    OBVIOUS
  <2>3. log' = Append(log, {v})
    BY <2>1, <2>2 DEF Record
  <2>4. v.world = "source" /\ v.from \in Nat
    BY <2>2 DEF SourceVersion
  <2> QED
    BY <2>3, <2>4
<1>3. OneOfEach({v})
  BY DEF OneOfEach
<1>4. PICK n : n = Now + 1 /\ n \in Nat
  BY <1>1
<1>5. LogKept' /\ Grown /\ Now' = n /\ log'[n] = {v}
  BY <1>2, <1>3, <1>4, Appended
<1>6. (\A i \in 1..n : i = n \/ i \in 1..Now) /\ \A i \in 1..Now : log'[i] = log[i]
  BY <1>1, <1>4, <1>5 DEF Grown
<1>7. TargetsCover'
  <2>1. \A i \in 1..n : \A w \in log'[i] : w.from \in Nat /\ (w.world # "source" => w.covers)
    <3>1. \A w \in log'[n] : w.from \in Nat /\ (w.world # "source" => w.covers)
      <4>1. log'[n] = {v} /\ v.from \in Nat /\ v.world = "source"
        BY <1>2, <1>5
      <4> QED
        BY <4>1
    <3>2. \A i \in 1..Now : \A w \in log'[i] : w.from \in Nat /\ (w.world # "source" => w.covers)
      BY <1>6 DEF TargetsCover
    <3> QED
      BY <1>6, <3>1, <3>2
  <2> QED
    BY <1>5, <2>1 DEF TargetsCover
<1>8. ExactAt(n)'
  <2>1. \A k \in Kinds : Published(k, n)' = {}
    BY <1>2, <1>5 DEF Published, Kinds
  <2> QED
    BY <2>1 DEF ExactAt
<1>9. \A i \in 1..Now : ExactAt(i)'
  <2>1. \A i \in 1..Now : ExactAt(i)
    BY DEF PublicationExact, ExactAt
  <2> QED
    BY <1>5, <2>1, ExactStays
<1>10. \A i \in 1..n : ExactAt(i)'
  BY <1>6, <1>8, <1>9
<1> QED
  BY <1>5, <1>7, <1>10 DEF PublicationExact, ExactAt

(* What a publisher holds was computed at its horizon: the facts that are   *)
(* desired, when they are not given, and the fingerprint.                   *)
StagedAt(s) ==
    /\ s.kind \in Kinds /\ s.h \in 0..Now
    /\ s.base = Base(s.kind, s.h)
    /\ s.kind # "given" => s.desired = ClosureOf(SourceFacts(s.h))
StageKept ==
    /\ \E S : stage \in [Publishers -> S]
    /\ \A u \in Publishers : stage[u] # NoStage => StagedAt(stage[u])

PublicationInv == LogKept /\ TargetsCover /\ PublicationExact /\ StageKept

(* What a publisher has staged at a horizon stays right there.              *)
LEMMA StageStays ==
    ASSUME Grown, NEW s, StagedAt(s)
    PROVE  StagedAt(s)'
<1>1. s.h \in 0..Now /\ s.h \in 0..Now'
  BY DEF StagedAt, Grown
<1>2. SourceFacts(s.h)' = SourceFacts(s.h) /\ Base(s.kind, s.h)' = Base(s.kind, s.h)
  BY <1>1, SourceStays, TargetStays
<1>3. PICK F : F = SourceFacts(s.h) /\ F = SourceFacts(s.h)'
  BY <1>2
<1>4. s.kind # "given" => s.desired = ClosureOf(F)
  BY <1>3 DEF StagedAt
<1> QED
  BY <1>1, <1>2, <1>3, <1>4 DEF StagedAt

(* So does everything that is staged.                                       *)
LEMMA StagesStay ==
    ASSUME Grown, StageKept, UNCHANGED stage
    PROVE  StageKept'
<1>1. \A u \in Publishers : stage'[u] # NoStage => StagedAt(stage[u])
  BY DEF StageKept
<1>2. ASSUME NEW u \in Publishers, stage'[u] # NoStage
      PROVE  StagedAt(stage[u])'
  <2>1. PICK s : s = stage[u] /\ s = stage'[u]
    OBVIOUS
  <2>2. StagedAt(s)'
    BY <1>1, <1>2, <2>1, StageStays
  <2> QED
    BY <2>1, <2>2 DEF StagedAt
<1> QED
  BY <1>2 DEF StageKept

(* So the horizon, the evidence and the target of a stage are compared with *)
(* what they were, and whatever is published is exact, for any claims, any  *)
(* engine and any number of publishers.                                     *)
LEMMA PublicationStepKeeps ==
    ASSUME PublicationInv, NEW u \in Publishers, PublicationStep(u)
    PROVE  PublicationInv'
<1>1. Now \in Nat /\ Now \in 0..Now
  BY LenProperties DEF PublicationInv, LogKept, Now
<1>2. PICK S : stage \in [Publishers -> S]
  BY DEF PublicationInv, StageKept
<1>3. ASSUME NEW k \in Kinds, NEW c \in 0..Now, Stage(u, k, c)
      PROVE  PublicationInv'
  <2>1. LogKept' /\ TargetsCover' /\ PublicationExact' /\ Grown
    BY <1>3, HistoryStays DEF PublicationInv, Stage
  <2>2. PICK s : s = Staged(k, c)
    OBVIOUS
  <2>3. stage' = [stage EXCEPT ![u] = s]
    BY <1>3, <2>2 DEF Stage
  <2>4. StagedAt(s)
    BY <1>1, <1>3, <2>2 DEF Staged, StagedAt, Stage
  <2>5. StagedAt(s)'
    BY <2>1, <2>4, StageStays
  <2>6. ASSUME NEW w \in Publishers, stage'[w] # NoStage
        PROVE  StagedAt(stage[w])'
    <3>1. CASE w = u
      <4>1. s = stage'[w]
        BY <1>2, <2>3, <3>1
      <4> QED
        BY <2>5, <4>1 DEF StagedAt
    <3>2. CASE w # u
      <4>1. PICK t : t = stage[w] /\ t = stage'[w]
        BY <1>2, <2>3, <3>2
      <4>2. StagedAt(t)'
        BY <2>1, <2>6, <4>1, StageStays DEF PublicationInv, StageKept
      <4> QED
        BY <4>1, <4>2 DEF StagedAt
    <3> QED
      BY <3>1, <3>2
  <2>7. stage' \in [Publishers -> S \cup {s}]
    BY <1>2, <2>3
  <2> QED
    BY <2>1, <2>6, <2>7 DEF PublicationInv, StageKept
<1>4. ASSUME NEW fresh \in {"latest", "historical"}, PublishStaged(u, fresh)
      PROVE  PublicationInv'
  <2>1. PICK s : s = stage[u]
    OBVIOUS
  <2>2. StagedAt(s) /\ stage' = [stage EXCEPT ![u] = NoStage]
    BY <1>4, <2>1 DEF PublicationInv, StageKept, PublishStaged
  <2>3. LogKept' /\ TargetsCover' /\ PublicationExact' /\ Grown
    <3>1. CASE Fresh(s, fresh) /\ Base(s.kind, Now) = s.base
      <4>1. Publish(s, fresh)
        BY <1>4, <2>1, <3>1 DEF PublishStaged
      <4> QED
        BY <2>2, <3>1, <4>1, PublishKeeps DEF PublicationInv, StagedAt
    <3>2. CASE ~(Fresh(s, fresh) /\ Base(s.kind, Now) = s.base)
      <4>1. log' = log
        BY <1>4, <2>1, <3>2 DEF PublishStaged
      <4> QED
        BY <4>1, HistoryStays DEF PublicationInv
    <3> QED
      BY <3>1, <3>2
  <2>4. ASSUME NEW w \in Publishers, stage'[w] # NoStage
        PROVE  StagedAt(stage[w])'
    <3>1. PICK t : t = stage[w] /\ t = stage'[w]
      BY <1>2, <2>2, <2>4
    <3>2. StagedAt(t)'
      BY <2>3, <2>4, <3>1, StageStays DEF PublicationInv, StageKept
    <3> QED
      BY <3>1, <3>2 DEF StagedAt
  <2>5. stage' \in [Publishers -> S \cup {NoStage}]
    BY <1>2, <2>2
  <2> QED
    BY <2>3, <2>4, <2>5 DEF PublicationInv, StageKept
<1>5. ASSUME Reconcile(u)
      PROVE  PublicationInv'
  <2>1. PICK s : s = Staged("point", Now)
    OBVIOUS
  <2>2. /\ s.kind = "point" /\ s.h = Now /\ s.desired = ClosureOf(SourceFacts(Now))
        /\ s.kind \in Kinds /\ s.kind # "given"
    BY <2>1 DEF Staged, Kinds
  <2>3. Publish(s, "latest") /\ UNCHANGED stage
    BY <1>5, <2>1 DEF Reconcile
  <2>4. Fresh(s, "latest")
    BY <2>2 DEF Fresh
  <2>5. LogKept' /\ TargetsCover' /\ PublicationExact' /\ Grown
    BY <1>1, <2>2, <2>3, <2>4, PublishKeeps DEF PublicationInv
  <2> QED
    BY <2>3, <2>5, StagesStay DEF PublicationInv
<1> QED
  BY <1>3, <1>4, <1>5 DEF PublicationStep

(* PublicationExact holds in every behaviour: whatever the claims, the      *)
(* engine and the number of publishers, a stage is compared with the target *)
(* and the horizon it was computed at before its writes are committed       *)
(* (publish_staged, publish_staged_range, publish_range_generation,         *)
(* reconcile_point).                                                        *)
THEOREM PublicationsExact ==
    ASSUME NEW CONSTANT Told
    PROVE  PublicationSpec(Told) => []PublicationExact
<1>1. InitLog /\ InitPublication => PublicationInv
  <2> SUFFICES ASSUME InitLog, InitPublication
               PROVE  PublicationInv
    OBVIOUS
  <2>1. log = <<>> /\ Now = 0 /\ log \in Seq({})
    BY EmptySeq DEF InitLog, Now
  <2>2. LogKept /\ TargetsCover /\ PublicationExact
    BY <2>1 DEF LogKept, TargetsCover, PublicationExact
  <2>3. StageKept
    BY DEF InitPublication, StageKept
  <2> QED
    BY <2>2, <2>3 DEF PublicationInv
<1>2. PublicationInv /\ [PublicationNext(Told)]_<<log, stage>> => PublicationInv'
  <2> SUFFICES ASSUME PublicationInv, [PublicationNext(Told)]_<<log, stage>>
               PROVE  PublicationInv'
    OBVIOUS
  <2>1. CASE Recorded(Told) /\ UNCHANGED stage
    BY <2>1, RecordKeeps, StagesStay DEF PublicationInv
  <2>2. ASSUME NEW u \in Publishers, PublicationStep(u)
        PROVE  PublicationInv'
    BY <2>2, PublicationStepKeeps
  <2>3. CASE UNCHANGED <<log, stage>>
    BY <2>3, HistoryStays, StagesStay DEF PublicationInv
  <2> QED
    BY <2>1, <2>2, <2>3 DEF PublicationNext
<1>3. PublicationInv => PublicationExact
  BY DEF PublicationInv
<1> QED
  BY <1>1, <1>2, <1>3, PTL DEF PublicationSpec

-----------------------------------------------------------------------------
(* The session file.                                                        *)

(* Who replaces the file holds its lock since the file was compared.        *)
FileHeld ==
    /\ \E S : mem \in [Procs -> S] /\ expected \in [Procs -> S] /\ step \in [Procs -> S] /\ pinned \in [Procs -> S]
    /\ \A p \in Procs : step[p] = "replace" =>
          lock = p /\ (expected[p] # NoSession => file = expected[p])

(* At first nobody is about to replace a file.                              *)
LEMMA FileHeldFirst == InitSessions => FileHeld
<1> SUFFICES ASSUME InitSessions
             PROVE  FileHeld
  OBVIOUS
<1>1. PICK S : S = {NoSession, "idle", 0}
  OBVIOUS
<1>2. mem \in [Procs -> S] /\ expected \in [Procs -> S] /\ step \in [Procs -> S] /\ pinned \in [Procs -> S]
  BY <1>1 DEF InitSessions
<1>3. \A p \in Procs : step[p] = "idle"
  BY DEF InitSessions
<1> QED
  BY <1>2, <1>3 DEF FileHeld

(* An update of a function at one point.                                    *)
LEMMA SetKeeps ==
    ASSUME NEW f, NEW D, NEW S, f \in [D -> S], NEW p, NEW x
    PROVE  /\ Set(f, p, x) \in [D -> S \cup {x}]
           /\ p \in D => Set(f, p, x)[p] = x
           /\ \A q \in D : q # p => Set(f, p, x)[q] = f[q]
  BY DEF Set

(* Every step of a session keeps that whoever replaces the file has found   *)
(* what it expects.                                                         *)
LEMMA SessionStepHolds ==
    ASSUME FileHeld, NEW p \in Procs, SessionStep(p)
    PROVE  FileHeld'
<1>1. PICK S : /\ mem \in [Procs -> S] /\ expected \in [Procs -> S]
               /\ step \in [Procs -> S] /\ pinned \in [Procs -> S]
  BY DEF FileHeld
<1>2. \E T : mem' \in [Procs -> T] /\ expected' \in [Procs -> T] /\ step' \in [Procs -> T] /\ pinned' \in [Procs -> T]
  <2>1. ASSUME NEW f, f \in [Procs -> S], NEW g, g = f \/ \E x : g = Set(f, p, x)
        PROVE  \E x : g \in [Procs -> S \cup {x}]
    BY <2>1, SetKeeps
  <2>2. /\ mem' = mem \/ \E x : mem' = Set(mem, p, x)
        /\ expected' = expected \/ \E x : expected' = Set(expected, p, x)
        /\ step' = step \/ \E x : step' = Set(step, p, x)
        /\ pinned' = pinned \/ \E x : pinned' = Set(pinned, p, x)
    BY DEF SessionStep, StartPin, Scan, Advance, Load, SaveCompare, SaveReplace, Crash, AuthenticatedAdvance
  <2>3. PICK a, b, c, d : /\ mem' \in [Procs -> S \cup {a}] /\ expected' \in [Procs -> S \cup {b}]
                          /\ step' \in [Procs -> S \cup {c}] /\ pinned' \in [Procs -> S \cup {d}]
    <3>1. (\E a : mem' \in [Procs -> S \cup {a}]) /\ (\E b : expected' \in [Procs -> S \cup {b}])
      BY <1>1, <2>1, <2>2
    <3>2. (\E c : step' \in [Procs -> S \cup {c}]) /\ (\E d : pinned' \in [Procs -> S \cup {d}])
      BY <1>1, <2>1, <2>2
    <3> QED
      BY <3>1, <3>2
  <2>4. PICK T : T = S \cup {a, b, c, d}
    OBVIOUS
  <2> QED
    BY <2>3, <2>4
<1>3. \A q \in Procs : q # NoProc
  BY NoProcAssumption
<1>4. ASSUME NEW q \in Procs, step'[q] = "replace"
      PROVE  lock' = q /\ (expected'[q] # NoSession => file' = expected'[q])
  <2>1. ASSUME NEW x, step' = Set(step, p, x), x # "replace"
        PROVE  q # p /\ step[q] = "replace"
    BY <1>1, <1>4, <2>1, SetKeeps, SMTT(30)
  <2>2. ASSUME step[q] = "replace"
        PROVE  lock = q /\ lock # NoProc /\ (expected[q] # NoSession => file = expected[q])
    BY <1>3, <2>2 DEF FileHeld
  <2>3. CASE StartPin(p)
    BY <2>1, <2>2, <2>3 DEF StartPin
  <2>4. CASE Scan(p)
    BY <2>1, <2>2, <2>4 DEF Scan
  <2>5. CASE Advance(p)
    BY <2>1, <2>2, <2>5 DEF Advance
  <2>6. CASE Load(p)
    <3>1. q # p /\ step[q] = "replace"
      BY <1>4, <2>6 DEF Load, Ready
    <3> QED
      BY <1>1, <2>2, <2>6, <3>1, SetKeeps DEF Load
  <2>7. CASE SaveCompare(p)
    <3>1. step[q] # "replace"
      BY <2>2, <2>7 DEF SaveCompare, Unlocked
    <3>2. q = p /\ lock' = p /\ UNCHANGED <<expected, file>> /\ expected[p] \in {NoSession, file}
      <4>1. step' # step
        BY <1>4, <3>1
      <4>2. expected[p] \in {NoSession, file} /\ lock' = p /\ UNCHANGED <<expected, file>>
        BY <2>1, <2>7, <3>1, <4>1 DEF SaveCompare
      <4>3. q = p
        <5>1. step' = Set(step, p, "replace") \/ step' = Set(step, p, "idle")
          BY <2>7 DEF SaveCompare
        <5>2. ASSUME NEW x, step' = Set(step, p, x), q # p
              PROVE  step'[q] = step[q]
          BY <1>1, <5>2 DEF Set
        <5> QED
          BY <1>4, <3>1, <5>1, <5>2
      <4> QED
        BY <4>2, <4>3
    <3> QED
      BY <3>2
  <2>8. CASE SaveReplace(p)
    <3>1. step[p] = "replace" /\ step' = Set(step, p, "idle")
      BY <2>8 DEF SaveReplace
    <3>2. q # p /\ step[q] = "replace"
      BY <2>1, <3>1
    <3> QED
      BY <2>2, <3>1, <3>2 DEF FileHeld
  <2>9. CASE Crash(p)
    <3>1. q # p /\ step[q] = "replace"
      BY <2>1, <2>9 DEF Crash
    <3>2. expected'[q] = expected[q]
      BY <1>1, <2>9, <3>1, SetKeeps DEF Crash
    <3> QED
      BY <2>2, <2>9, <3>1, <3>2 DEF Crash
  <2>10. CASE AuthenticatedAdvance(p)
    BY <1>4, <2>2, <2>10 DEF AuthenticatedAdvance, Unlocked
  <2> QED
    BY <2>3, <2>4, <2>5, <2>6, <2>7, <2>8, <2>9, <2>10 DEF SessionStep
<1> QED
  BY <1>2, <1>4 DEF FileHeld

(* NoSaveLost holds in every behaviour: from the compare to the replacement *)
(* the lock is held, and whoever else changes the file needs it             *)
(* (save_session, _session_file_guard, advance_authenticated_session).      *)
THEOREM SavesNotLost ==
    ASSUME NEW CONSTANT Told
    PROVE  SessionSpec(Told) => NoSaveLost
<1>1. InitSessions => FileHeld
  BY FileHeldFirst
<1>2. FileHeld /\ [SessionNext(Told)]_<<log, sessionVars>> => FileHeld'
  <2> SUFFICES ASSUME FileHeld, [SessionNext(Told)]_<<log, sessionVars>>
               PROVE  FileHeld'
    OBVIOUS
  <2>1. CASE UNCHANGED sessionVars
    BY <2>1 DEF FileHeld, sessionVars
  <2> QED
    BY <2>1, SessionStepHolds DEF SessionNext
<1>3. FileHeld /\ [SessionNext(Told)]_<<log, sessionVars>>
        => [\A p \in Procs : SaveReplace(p) /\ expected[p] # NoSession => file = expected[p]]_<<log, sessionVars>>
  BY DEF FileHeld, SaveReplace
<1> QED
  BY <1>1, <1>2, <1>3, PTL DEF SessionSpec, NoSaveLost

-----------------------------------------------------------------------------
(* What sessions read.                                                      *)

Tellings == Claims \X {"assert", "correct", "retract"} \X BOOLEAN
Tells(v) == \E r \in Tellings : v = SourceVersion(r[1], r[2], r[3])
HistoryTold == LogKept /\ \A i \in 1..Now : \E v : log[i] = {v} /\ Tells(v)

(* A version that is told is one of the source.                             *)
LEMMA ToldVersion ==
    ASSUME NEW v, Tells(v)
    PROVE  /\ v.world = "source" /\ v.claim \in Claims /\ v.covers \in BOOLEAN
           /\ v.op \in {"assert", "correct", "retract"}
<1>1. PICK r \in Tellings : v = SourceVersion(r[1], r[2], r[3])
  BY DEF Tells
<1>2. r[1] \in Claims /\ r[2] \in {"assert", "correct", "retract"} /\ r[3] \in BOOLEAN
  BY DEF Tellings
<1> QED
  BY <1>1, <1>2 DEF SourceVersion

(* A commit decides whether its claim is there, if it covers the point, and *)
(* leaves all the others as they were.                                      *)
LEMMA LastDecides ==
    ASSUME NEW i \in Nat, i >= 1, NEW v, log[i] = {v}, v.world = "source", NEW c
    PROVE  /\ v.claim = c /\ v.covers => (Present(i, "source", c) <=> v.op # "retract")
           /\ ~(v.claim = c /\ v.covers) =>
                 /\ Covering(i, "source", c) = Covering(i - 1, "source", c)
                 /\ Present(i, "source", c) <=> Present(i - 1, "source", c)
<1>1. i - 1 \in Nat /\ i \in 1..i /\ 1..(i - 1) \subseteq 1..i /\ \A j \in 1..i : j = i \/ j \in 1..(i - 1)
  OBVIOUS
<1>2. ASSUME v.claim = c, v.covers
      PROVE  Present(i, "source", c) <=> v.op # "retract"
  <2>1. Covering(i, "source", c) \in SUBSET (1..i) /\ i \in Covering(i, "source", c)
    BY <1>1, <1>2 DEF Covering
  <2>2. PICK m : m = Max(Covering(i, "source", c))
    OBVIOUS
  <2>3. m \in 1..i /\ i <= m
    BY <2>1, <2>2, LastOf
  <2>4. m = i
    BY <2>3
  <2>5. VersionAt(i, "source", c) = v
    BY <1>2 DEF VersionAt
  <2> QED
    BY <2>1, <2>2, <2>4, <2>5 DEF Present
<1>3. ASSUME ~(v.claim = c /\ v.covers)
      PROVE  /\ Covering(i, "source", c) = Covering(i - 1, "source", c)
             /\ Present(i, "source", c) <=> Present(i - 1, "source", c)
  <2>1. Covering(i, "source", c) = Covering(i - 1, "source", c)
    BY <1>1, <1>3 DEF Covering
  <2> QED
    BY <2>1 DEF Present
<1> QED
  BY <1>2, <1>3

(* The version at a position is of one claim.                               *)
LEMMA ClaimAt ==
    ASSUME NEW i, NEW v, log[i] = {v}, v.world = "source"
    PROVE  SourceClaim(i) = v.claim
  BY DEF SourceClaim

(* The source shows the claims whose newest version is not a retraction.    *)
LEMMA SourceShows ==
    ASSUME HistoryTold, NEW h \in 0..Now
    PROVE  /\ SourceIds(h) \subseteq 1..h
           /\ \A c : (\E i \in SourceIds(h) : SourceClaim(i) = c) <=> c \in Claims /\ Present(h, "source", c)
<1>1. h \in Nat /\ 1..h \subseteq 1..Now
  BY LenProperties DEF HistoryTold, LogKept, Now
<1>2. ASSUME NEW c, Present(h, "source", c)
      PROVE  Max(Covering(h, "source", c)) \in 1..h /\ SourceClaim(Max(Covering(h, "source", c))) = c
  <2>1. PICK m : m = Max(Covering(h, "source", c))
    OBVIOUS
  <2>2. Covering(h, "source", c) # {} /\ Covering(h, "source", c) \in SUBSET (1..h)
    BY <1>2 DEF Present, Covering
  <2>3. m \in Covering(h, "source", c)
    BY <1>1, <2>1, <2>2, LastOf
  <2>4. m \in 1..h /\ \E w \in log[m] : w.claim = c
    BY <2>3 DEF Covering
  <2>5. PICK v : log[m] = {v} /\ Tells(v)
    BY <1>1, <2>4 DEF HistoryTold
  <2>6. SourceClaim(m) = c
    BY <2>4, <2>5, ToldVersion, ClaimAt
  <2> QED
    BY <2>1, <2>4, <2>6
<1>3. SourceIds(h) \subseteq 1..h
  BY <1>2 DEF SourceIds
<1>4. ASSUME NEW c, NEW i \in SourceIds(h), SourceClaim(i) = c
      PROVE  c \in Claims /\ Present(h, "source", c)
  <2>1. PICK d \in Claims : Present(h, "source", d) /\ i = Max(Covering(h, "source", d))
    BY DEF SourceIds
  <2> QED
    BY <1>2, <1>4, <2>1
<1>5. ASSUME NEW c \in Claims, Present(h, "source", c)
      PROVE  \E i \in SourceIds(h) : SourceClaim(i) = c
  <2>1. Max(Covering(h, "source", c)) \in SourceIds(h)
    BY <1>5 DEF SourceIds
  <2> QED
    BY <1>2, <1>5, <2>1
<1> QED
  BY <1>3, <1>4, <1>5

(* How far the deltas of a session have come: its live versions are those   *)
(* that were asserted and not retired, and their claims are those that the  *)
(* source shows there, if the commits in between touched them, and that it  *)
(* showed to the scan otherwise.                                            *)
Touched(c, h, i) == \E j \in (h + 1)..i : \E v \in log[j] : v.world = "source" /\ v.claim = c /\ v.covers
Shown(c, h, m, i) == c \in Claims /\ IF Touched(c, h, i) THEN Present(i, "source", c) ELSE Present(m, "source", c)
DeltaAt(s, m, d, i) ==
    /\ d.live = (s.ids \cup d.asserted) \ (s.retired \cup d.retired)
    /\ d.live \subseteq 1..i /\ d.asserted \subseteq 1..i /\ d.retired \subseteq 1..i
    /\ \A c : (\E j \in d.live : SourceClaim(j) = c) <=> Shown(c, s.h, m, i)

(* What consuming one version does to a delta (advance).                    *)
LEMMA ConsumedIs ==
    ASSUME NEW d, NEW i, NEW v, log[i] = {v}, v.world = "source"
    PROVE  \E matches :
             /\ matches = {j \in d.live : SourceClaim(j) = v.claim}
             /\ Consumed(d, i).live = (IF Retires(v) THEN d.live \ matches ELSE d.live)
                                      \cup (IF Asserts(v) THEN {i} ELSE {})
             /\ Consumed(d, i).asserted = d.asserted \cup (IF Asserts(v) THEN {i} ELSE {})
             /\ Consumed(d, i).retired = d.retired \cup (IF Retires(v) THEN matches ELSE {})
<1>1. PICK found : found = {w \in log[i] : w.world = "source"} /\ found = {v}
  OBVIOUS
<1>2. (CHOOSE w \in found : TRUE) = v
  BY <1>1
<1>3. PICK matches : matches = {j \in d.live : SourceClaim(j) = v.claim}
  OBVIOUS
<1>4. PICK kept : kept = IF Retires(v) THEN d.live \ matches ELSE d.live
  OBVIOUS
<1>5. Consumed(d, i) = [live |-> IF Asserts(v) THEN kept \cup {i} ELSE kept,
                        asserted |-> IF Asserts(v) THEN d.asserted \cup {i} ELSE d.asserted,
                        retired |-> IF Retires(v) THEN d.retired \cup matches ELSE d.retired]
  BY <1>1, <1>2, <1>3, <1>4 DEF Consumed
<1>6. /\ Consumed(d, i).live = IF Asserts(v) THEN kept \cup {i} ELSE kept
      /\ Consumed(d, i).asserted = IF Asserts(v) THEN d.asserted \cup {i} ELSE d.asserted
      /\ Consumed(d, i).retired = IF Retires(v) THEN d.retired \cup matches ELSE d.retired
  BY <1>5
<1> QED
  BY <1>3, <1>4, <1>6

(* Consuming the next commit keeps the invariant of the loop.               *)
LEMMA ConsumedKeeps ==
    ASSUME HistoryTold, NEW s, NEW m, NEW d, NEW i \in 1..Now,
           s.h \in Nat, s.h < i, s.ids \subseteq 1..s.h, s.retired \subseteq 1..s.h,
           DeltaAt(s, m, d, i - 1)
    PROVE  DeltaAt(s, m, Consumed(d, i), i)
<1>1. i \in Nat /\ i >= 1 /\ i \in 1..i /\ 1..(i - 1) \subseteq 1..i /\ ~(i \in 1..(i - 1))
  BY LenProperties DEF HistoryTold, LogKept, Now
<1>2. 1..s.h \subseteq 1..(i - 1)
  BY <1>1
<1>3. PICK v : log[i] = {v} /\ Tells(v)
  BY DEF HistoryTold
<1>4. /\ v.world = "source" /\ v.claim \in Claims /\ v.covers \in BOOLEAN
      /\ v.op \in {"assert", "correct", "retract"}
  BY <1>3, ToldVersion
<1>5. PICK n : n = Consumed(d, i)
  OBVIOUS
<1>6. PICK matches :
        /\ matches = {j \in d.live : SourceClaim(j) = v.claim}
        /\ n.live = (IF Retires(v) THEN d.live \ matches ELSE d.live) \cup (IF Asserts(v) THEN {i} ELSE {})
        /\ n.asserted = d.asserted \cup (IF Asserts(v) THEN {i} ELSE {})
        /\ n.retired = d.retired \cup (IF Retires(v) THEN matches ELSE {})
  BY <1>3, <1>4, <1>5, ConsumedIs
<1>7. /\ d.live = (s.ids \cup d.asserted) \ (s.retired \cup d.retired)
      /\ d.live \subseteq 1..(i - 1) /\ d.asserted \subseteq 1..(i - 1) /\ d.retired \subseteq 1..(i - 1)
      /\ \A c : (\E j \in d.live : SourceClaim(j) = c) <=> Shown(c, s.h, m, i - 1)
  BY DEF DeltaAt
<1>8. ~(i \in s.ids) /\ ~(i \in s.retired) /\ ~(i \in d.live) /\ ~(i \in d.retired)
  BY <1>1, <1>2, <1>7
<1>9. matches \subseteq d.live
  BY <1>6
<1>10. n.live = (s.ids \cup n.asserted) \ (s.retired \cup n.retired)
  <2>1. CASE Asserts(v) /\ Retires(v)
    BY <1>6, <1>7, <1>8, <1>9, <2>1
  <2>2. CASE Asserts(v) /\ ~Retires(v)
    BY <1>6, <1>7, <1>8, <1>9, <2>2
  <2>3. CASE ~Asserts(v) /\ Retires(v)
    BY <1>6, <1>7, <1>8, <1>9, <2>3
  <2>4. CASE ~Asserts(v) /\ ~Retires(v)
    BY <1>6, <1>7, <1>8, <1>9, <2>4
  <2> QED
    BY <2>1, <2>2, <2>3, <2>4
<1>11. n.live \subseteq 1..i /\ n.asserted \subseteq 1..i /\ n.retired \subseteq 1..i
  BY <1>1, <1>6, <1>7, <1>9
<1>12. SourceClaim(i) = v.claim
  BY <1>3, <1>4, ClaimAt
<1>13. ASSUME NEW c
       PROVE  (\E j \in n.live : SourceClaim(j) = c) <=> Shown(c, s.h, m, i)
  <2>1. CASE v.claim = c /\ v.covers
    <3>1. i \in (s.h + 1)..i /\ \E w \in log[i] : w.world = "source" /\ w.claim = c /\ w.covers
      BY <1>1, <1>3, <1>4, <2>1
    <3>2. Touched(c, s.h, i)
      BY <3>1 DEF Touched
    <3>3. Present(i, "source", c) <=> v.op # "retract"
      BY <1>1, <1>3, <1>4, <2>1, LastDecides
    <3>4. Shown(c, s.h, m, i) <=> v.op # "retract"
      BY <1>4, <2>1, <3>2, <3>3 DEF Shown
    <3>5. CASE v.op # "retract"
      <4>1. Asserts(v)
        BY <1>4, <2>1, <3>5 DEF Asserts
      <4>2. i \in n.live
        BY <1>6, <4>1
      <4> QED
        BY <1>12, <2>1, <3>4, <3>5, <4>2
    <3>6. CASE v.op = "retract"
      <4>1. Retires(v) /\ ~Asserts(v)
        BY <2>1, <3>6 DEF Retires, Asserts
      <4>2. n.live = d.live \ matches
        BY <1>6, <4>1
      <4> QED
        BY <1>6, <2>1, <3>4, <3>6, <4>2
    <3> QED
      BY <3>5, <3>6
  <2>2. CASE ~(v.claim = c /\ v.covers)
    <3>1. Present(i, "source", c) <=> Present(i - 1, "source", c)
      BY <1>1, <1>3, <1>4, <2>2, LastDecides
    <3>2. Touched(c, s.h, i) <=> Touched(c, s.h, i - 1)
      <4>1. \A j \in (s.h + 1)..i : j = i \/ j \in (s.h + 1)..(i - 1)
        BY <1>1
      <4>2. \A j \in (s.h + 1)..(i - 1) : j \in (s.h + 1)..i
        BY <1>1
      <4>3. ~ \E w \in log[i] : w.world = "source" /\ w.claim = c /\ w.covers
        BY <1>3, <2>2
      <4> QED
        BY <4>1, <4>2, <4>3 DEF Touched
    <3>3. Shown(c, s.h, m, i) <=> Shown(c, s.h, m, i - 1)
      BY <3>1, <3>2 DEF Shown
    <3>4. (\E j \in n.live : SourceClaim(j) = c) <=> (\E j \in d.live : SourceClaim(j) = c)
      <4>1. CASE v.covers
        BY <1>6, <1>12, <2>2, <4>1
      <4>2. CASE ~v.covers
        <5>1. ~Asserts(v) /\ ~Retires(v)
          BY <4>2 DEF Asserts, Retires
        <5> QED
          BY <1>6, <5>1
      <4> QED
        BY <4>1, <4>2
    <3> QED
      BY <1>7, <3>3, <3>4
  <2> QED
    BY <2>1, <2>2
<1> QED
  BY <1>5, <1>10, <1>11, <1>13 DEF DeltaAt

(* The deltas one after the other.                                          *)
Start(s) == [live |-> Live(s), asserted |-> {}, retired |-> {}]
Deltas(s, n, f) ==
    f = [i \in s.h..n |-> IF i = s.h THEN Start(s) ELSE Consumed(f[i - 1], i)]

(* The function that adds up the deltas from a horizon exists.              *)
LEMMA DeltasExist ==
    ASSUME NEW s, s.h \in Nat, NEW n \in Nat, s.h <= n
    PROVE  \E f : Deltas(s, n, f)
<1>1. PICK h \in Nat : h = s.h
  OBVIOUS
<1> DEFINE Missing == {k \in Nat : k >= h /\ ~ \E f : Deltas(s, k, f)}
<1>2. SUFFICES ASSUME Missing # {}
               PROVE  FALSE
  BY <1>1
<1>3. PICK k \in Missing : \A j \in Missing : k <= j
  BY <1>2, LeastOf
<1>4. k \in Nat /\ k >= h /\ ~ \E f : Deltas(s, k, f)
  OBVIOUS
<1>5. CASE k = h
  <2>1. PICK f : f = [i \in h..h |-> Start(s)]
    OBVIOUS
  <2>2. f = [i \in h..h |-> IF i = h THEN Start(s) ELSE Consumed(f[i - 1], i)]
    BY <2>1
  <2> QED
    BY <1>1, <1>4, <1>5, <2>2 DEF Deltas
<1>6. CASE k # h
  <2>1. k - 1 \in Nat /\ k - 1 >= h
    BY <1>4, <1>6
  <2>2. PICK f : Deltas(s, k - 1, f)
    BY <1>3, <1>4, <2>1
  <2>3. f = [i \in h..(k - 1) |-> IF i = h THEN Start(s) ELSE Consumed(f[i - 1], i)]
    BY <1>1, <2>2 DEF Deltas
  <2>4. PICK g : g = [i \in h..k |-> IF i = k THEN Consumed(f[k - 1], k) ELSE f[i]]
    OBVIOUS
  <2>5. ASSUME NEW i \in h..k
        PROVE  g[i] = IF i = h THEN Start(s) ELSE Consumed(g[i - 1], i)
    <3>1. CASE i = k
      <4>1. i - 1 \in h..k /\ i - 1 # k /\ i # h
        BY <1>4, <1>6, <2>1, <3>1
      <4> QED
        BY <2>4, <3>1, <4>1
    <3>2. CASE i # k /\ i = h
      BY <2>3, <2>4, <2>1, <3>2
    <3>3. CASE i # k /\ i # h
      <4>1. i - 1 \in h..k /\ i - 1 # k /\ i \in h..(k - 1)
        BY <1>4, <3>3
      <4>2. g[i] = f[i] /\ g[i - 1] = f[i - 1]
        BY <2>4, <3>3, <4>1
      <4> QED
        BY <2>3, <3>3, <4>1, <4>2
    <3> QED
      BY <3>1, <3>2, <3>3
  <2>6. g = [i \in h..k |-> IF i = h THEN Start(s) ELSE Consumed(g[i - 1], i)]
    BY <2>4, <2>5
  <2> QED
    BY <1>1, <1>4, <2>6 DEF Deltas
<1> QED
  BY <1>5, <1>6

(* A session that has been kept: its ledger shows the claims that the       *)
(* source showed to it.                                                     *)
ReadTo(s) == Max({s.h, s.scan})
SessionKept(s) ==
    /\ s = [h |-> s.h, scan |-> s.scan, ids |-> s.ids, retired |-> s.retired,
            facts |-> s.facts, supports |-> s.supports]
    /\ s.h \in 0..Now /\ s.scan \in 0..Now
    /\ s.ids \subseteq 1..s.h /\ s.retired \subseteq 1..s.h
    /\ \A c : (\E j \in Live(s) : SourceClaim(j) = c) <=> c \in Claims /\ Present(ReadTo(s), "source", c)

(* The later of two horizons.                                               *)
LEMMA Later ==
    ASSUME NEW a \in Nat, NEW b \in Nat
    PROVE  Max({a, b}) = IF a >= b THEN a ELSE b
<1>1. PICK m : m = Max({a, b})
  OBVIOUS
<1>2. \A x \in {a, b} : (\A y \in {a, b} : x >= y) => m \in {a, b} /\ m >= a /\ m >= b
  BY <1>1 DEF Max
<1>3. m \in {a, b} /\ m >= a /\ m >= b
  <2>1. CASE a >= b
    BY <1>2, <2>1
  <2>2. CASE b >= a
    BY <1>2, <2>2
  <2> QED
    BY <2>1, <2>2
<1> QED
  BY <1>1, <1>3

(* The loop over the commits after the horizon keeps its invariant.         *)
LEMMA DeltaKept ==
    ASSUME HistoryTold, NEW s, SessionKept(s), NEW n \in 0..Now, s.h <= n
    PROVE  DeltaAt(s, ReadTo(s), Delta(s, n), n)
<1>1. Now \in Nat /\ n \in Nat /\ s.h \in Nat
  BY LenProperties DEF HistoryTold, LogKept, Now, SessionKept
<1>2. PICK m : m = ReadTo(s)
  OBVIOUS
<1>3. PICK f : Deltas(s, n, f) /\ Delta(s, n) = f[n]
  <2> DEFINE after == CHOOSE f : Deltas(s, n, f)
  <2>1. Deltas(s, n, after)
    BY <1>1, DeltasExist
  <2>2. Delta(s, n) = after[n]
    BY DEF Delta, Deltas, Start
  <2> QED
    BY <2>1, <2>2
<1>4. f = [i \in s.h..n |-> IF i = s.h THEN Start(s) ELSE Consumed(f[i - 1], i)]
  BY <1>3 DEF Deltas
<1>5. DeltaAt(s, m, Start(s), s.h)
  <2>1. Start(s).live = Live(s) /\ Start(s).asserted = {} /\ Start(s).retired = {}
    BY DEF Start
  <2>2. (s.h + 1)..s.h = {}
    BY <1>1
  <2>3. \A c : ~Touched(c, s.h, s.h)
    BY <2>2 DEF Touched
  <2>4. \A c : (\E j \in Live(s) : SourceClaim(j) = c) <=> Shown(c, s.h, m, s.h)
    BY <1>2, <2>3 DEF SessionKept, Shown
  <2>5. Live(s) = (s.ids \cup {}) \ (s.retired \cup {}) /\ Live(s) \subseteq 1..s.h
    BY DEF Live, SessionKept
  <2> QED
    BY <2>1, <2>4, <2>5 DEF DeltaAt
<1> DEFINE Failing == {i \in Nat : i \in s.h..n /\ ~DeltaAt(s, m, f[i], i)}
<1>6. Failing = {}
  <2>1. SUFFICES ASSUME Failing # {}
                 PROVE  FALSE
    OBVIOUS
  <2>2. PICK i \in Failing : \A j \in Failing : i <= j
    BY <2>1, LeastOf
  <2>3. i \in Nat /\ i \in s.h..n /\ ~DeltaAt(s, m, f[i], i)
    OBVIOUS
  <2>4. CASE i = s.h
    <3>1. f[i] = Start(s)
      BY <1>4, <2>3, <2>4
    <3> QED
      BY <1>5, <2>3, <2>4, <3>1
  <2>5. CASE i # s.h
    <3>1. i - 1 \in Nat /\ i - 1 \in s.h..n /\ i \in 1..Now /\ s.h < i
      BY <1>1, <2>3, <2>5
    <3>2. DeltaAt(s, m, f[i - 1], i - 1)
      BY <2>2, <2>3, <3>1
    <3>3. f[i] = Consumed(f[i - 1], i)
      BY <1>4, <2>3, <2>5
    <3>4. s.ids \subseteq 1..s.h /\ s.retired \subseteq 1..s.h
      BY DEF SessionKept
    <3>5. DeltaAt(s, m, Consumed(f[i - 1], i), i)
      BY <1>1, <3>1, <3>2, <3>4, ConsumedKeeps
    <3> QED
      BY <2>3, <3>3, <3>5
  <2> QED
    BY <2>4, <2>5
<1>7. n \in s.h..n
  BY <1>1
<1> QED
  BY <1>1, <1>2, <1>3, <1>6, <1>7

(* All the deltas to the end, where nothing is ahead of the scan, come to   *)
(* what the source shows there.                                             *)
LEMMA DeltaShows ==
    ASSUME HistoryTold, NEW s, SessionKept(s), NEW c
    PROVE  (\E j \in Delta(s, Now).live : SourceClaim(j) = c) <=> c \in Claims /\ Present(Now, "source", c)
<1>1. Now \in Nat /\ Now \in 0..Now /\ s.h \in Nat /\ s.scan \in Nat /\ s.h <= Now /\ s.scan <= Now
  BY LenProperties DEF HistoryTold, LogKept, Now, SessionKept
<1>2. PICK m \in Nat : m = ReadTo(s) /\ s.h <= m /\ m <= Now
  BY <1>1, Later DEF ReadTo
<1>3. DeltaAt(s, m, Delta(s, Now), Now)
  BY <1>1, <1>2, DeltaKept
<1>4. (\E j \in Delta(s, Now).live : SourceClaim(j) = c) <=> Shown(c, s.h, m, Now)
  BY <1>3 DEF DeltaAt
<1>5. ASSUME ~Touched(c, s.h, Now)
      PROVE  Covering(Now, "source", c) = Covering(m, "source", c)
  <2>1. \A j \in 1..Now : j \in 1..m \/ j \in (s.h + 1)..Now
    BY <1>1, <1>2
  <2>2. 1..m \subseteq 1..Now
    BY <1>1, <1>2
  <2> QED
    BY <1>5, <2>1, <2>2 DEF Covering, Touched
<1>6. ~Touched(c, s.h, Now) => (Present(Now, "source", c) <=> Present(m, "source", c))
  BY <1>5 DEF Present
<1> QED
  BY <1>4, <1>6 DEF Shown

(* The ledger of a session that is kept states what the source states.      *)
LEMMA LedgerIsSource ==
    ASSUME HistoryTold, NEW s, SessionKept(s)
    PROVE  LedgerFacts(s) = SourceFacts(ReadTo(s)) /\ LedgerFacts(s) \subseteq EvidenceFacts
<1>1. Now \in Nat /\ s.h \in 0..Now /\ s.scan \in 0..Now
  BY LenProperties DEF HistoryTold, LogKept, Now, SessionKept
<1>2. PICK m : m = ReadTo(s) /\ m \in 0..Now
  BY <1>1, Later DEF ReadTo
<1>3. \A c : (\E i \in SourceIds(m) : SourceClaim(i) = c) <=> c \in Claims /\ Present(m, "source", c)
  BY <1>2, SourceShows
<1>4. \A c : (\E j \in Live(s) : SourceClaim(j) = c) <=> c \in Claims /\ Present(m, "source", c)
  BY <1>2 DEF SessionKept
<1>5. \A c : (\E j \in Live(s) : SourceClaim(j) = c) <=> (\E i \in SourceIds(m) : SourceClaim(i) = c)
  BY <1>3, <1>4
<1>6. ASSUME NEW j \in Live(s)
      PROVE  FactOf[SourceClaim(j)] \in SourceFacts(m)
  BY <1>5 DEF SourceFacts
<1>7. ASSUME NEW i \in SourceIds(m)
      PROVE  FactOf[SourceClaim(i)] \in LedgerFacts(s)
  BY <1>5 DEF LedgerFacts
<1>8. LedgerFacts(s) = SourceFacts(m)
  BY <1>6, <1>7 DEF LedgerFacts, SourceFacts
<1>9. LedgerFacts(s) \subseteq EvidenceFacts
  BY <1>4 DEF LedgerFacts, EvidenceFacts
<1> QED
  BY <1>2, <1>8, <1>9

(* What a session computed is what the engine computes for its ledger.      *)
Computed(s) == [facts |-> s.facts, supports |-> s.supports]
ComputedFor(s, states) == <<Computed(s), LedgerFacts(s)>> \in states

(* A session built from a scan agrees with the source (materialize).        *)
LEMMA MaterializedKept ==
    ASSUME HistoryTold, NEW states, EngineSound(states), NEW h \in 0..Now, ScanAdmits(h)
    PROVE  /\ SessionKept(Materialized(h, SourceIds(Now)))
           /\ ComputedFor(Materialized(h, SourceIds(Now)), states)
<1>1. Now \in Nat /\ Now \in 0..Now
  BY LenProperties DEF HistoryTold, LogKept, Now
<1>2. PICK ids : ids = SourceIds(Now) /\ ids \subseteq 1..h
  BY DEF ScanAdmits
<1>3. PICK facts : facts = {FactOf[SourceClaim(i)] : i \in ids}
  OBVIOUS
<1>4. PICK e : e = Rebuilt(facts)
  OBVIOUS
<1>5. PICK s : s = [h |-> h, scan |-> Now, ids |-> ids, retired |-> {}, facts |-> e.facts, supports |-> e.supports]
  OBVIOUS
<1>6. s = Materialized(h, SourceIds(Now))
  BY <1>2, <1>3, <1>4, <1>5 DEF Materialized
<1>7. /\ s.h = h /\ s.scan = Now /\ s.ids = ids /\ s.retired = {}
      /\ s.facts = e.facts /\ s.supports = e.supports
  BY <1>5
<1>8. Live(s) = SourceIds(Now)
  BY <1>2, <1>7 DEF Live
<1>9. ReadTo(s) = Now
  BY <1>1, <1>7, Later DEF ReadTo
<1>10. \A c : (\E j \in Live(s) : SourceClaim(j) = c) <=> c \in Claims /\ Present(ReadTo(s), "source", c)
  BY <1>1, <1>8, <1>9, SourceShows
<1>11. SessionKept(s)
  BY <1>1, <1>2, <1>5, <1>7, <1>10 DEF SessionKept
<1>12. LedgerFacts(s) = facts /\ facts \in SUBSET EvidenceFacts
  BY <1>2, <1>3, <1>8, <1>11, LedgerIsSource DEF LedgerFacts
<1>13. <<e, facts>> \in states /\ e = [facts |-> e.facts, supports |-> e.supports]
  <2>1. <<e, facts>> \in states
    BY <1>4, <1>12 DEF EngineSound
  <2>2. PICK st \in states : st = <<e, facts>>
    BY <2>1
  <2>3. st[1] = [facts |-> st[1].facts, supports |-> st[1].supports] /\ st[1] = e
    BY <2>2 DEF EngineSound
  <2> QED
    BY <2>1, <2>3
<1>14. Computed(s) = e
  BY <1>7, <1>13 DEF Computed
<1>15. ComputedFor(s, states)
  BY <1>12, <1>13, <1>14 DEF ComputedFor
<1> QED
  BY <1>6, <1>11, <1>15

(* A session that advances or rebuilds agrees with the source again.        *)
LEMMA MovedKept ==
    ASSUME HistoryTold, NEW states, EngineSound(states), NEW s, SessionKept(s), ComputedFor(s, states)
    PROVE  SessionKept(Moved(s, Now)) /\ ComputedFor(Moved(s, Now), states)
<1>1. Now \in Nat /\ Now \in 0..Now /\ s.h \in Nat /\ s.h <= Now
  BY LenProperties DEF HistoryTold, LogKept, Now, SessionKept
<1>2. PICK d : d = Delta(s, Now)
  OBVIOUS
<1>3. PICK ledger : ledger = [s EXCEPT !.ids = @ \cup d.asserted, !.retired = @ \cup d.retired]
  OBVIOUS
<1>4. PICK gone : gone = LedgerFacts(s) \ LedgerFacts(ledger)
  OBVIOUS
<1>5. PICK new : new = LedgerFacts(ledger) \ LedgerFacts(s)
  OBVIOUS
<1>6. PICK m1 : m1 = IF gone = {} THEN Computed(s) ELSE Retracted(Computed(s), gone)
  OBVIOUS
<1>7. PICK m2 : m2 = IF new = {} THEN m1 ELSE Extended(m1, new)
  OBVIOUS
<1>8. PICK t : t = [ledger EXCEPT !.h = Now, !.scan = Now, !.facts = m2.facts, !.supports = m2.supports]
  OBVIOUS
<1>9. t = Moved(s, Now)
  BY <1>2, <1>3, <1>4, <1>5, <1>6, <1>7, <1>8 DEF Moved, Computed
<1>10. ledger = [h |-> s.h, scan |-> s.scan, ids |-> s.ids \cup d.asserted, retired |-> s.retired \cup d.retired,
                 facts |-> s.facts, supports |-> s.supports]
  <2>1. PICK h, scan, ids, retired, facts, supports :
           s = [h |-> h, scan |-> scan, ids |-> ids, retired |-> retired, facts |-> facts, supports |-> supports]
    BY DEF SessionKept
  <2> QED
    BY <1>3, <2>1
<1>11. t = [h |-> Now, scan |-> Now, ids |-> s.ids \cup d.asserted, retired |-> s.retired \cup d.retired,
            facts |-> m2.facts, supports |-> m2.supports]
  BY <1>8, <1>10
<1>12. /\ t.h = Now /\ t.scan = Now /\ t.ids = s.ids \cup d.asserted /\ t.retired = s.retired \cup d.retired
       /\ t.facts = m2.facts /\ t.supports = m2.supports
  BY <1>11
<1>13. ledger.ids = t.ids /\ ledger.retired = t.retired
  BY <1>10, <1>12
<1>14. DeltaAt(s, ReadTo(s), d, Now)
  BY <1>1, <1>2, DeltaKept
<1>15. Live(t) = d.live /\ Live(ledger) = d.live
  BY <1>12, <1>13, <1>14 DEF Live, DeltaAt
<1>16. ReadTo(t) = Now
  BY <1>1, <1>12, Later DEF ReadTo
<1>17. \A c : (\E j \in Live(t) : SourceClaim(j) = c) <=> c \in Claims /\ Present(ReadTo(t), "source", c)
  BY <1>2, <1>15, <1>16, DeltaShows
<1>18. t.ids \subseteq 1..t.h /\ t.retired \subseteq 1..t.h
  <2>1. 1..s.h \subseteq 1..Now
    BY <1>1
  <2> QED
    BY <1>12, <1>14, <2>1 DEF DeltaAt, SessionKept
<1>19. SessionKept(t)
  BY <1>1, <1>11, <1>12, <1>17, <1>18 DEF SessionKept
<1>20. PICK F, G : F = LedgerFacts(s) /\ G = LedgerFacts(t)
  OBVIOUS
<1>21. G = LedgerFacts(ledger)
  BY <1>15, <1>20 DEF LedgerFacts
<1>22. F \subseteq EvidenceFacts /\ G \subseteq EvidenceFacts
  BY <1>19, <1>20, LedgerIsSource
<1>23. gone = F \ G /\ new = G \ F
  BY <1>4, <1>5, <1>20, <1>21
<1>24. <<m1, F \ gone>> \in states
  <2>1. PICK st \in states : st = <<Computed(s), F>>
    BY <1>20 DEF ComputedFor
  <2>2. gone # {} => <<Retracted(st[1], gone), st[2] \ gone>> \in states
    BY <1>23, <2>1 DEF EngineSound
  <2>3. st[1] = Computed(s) /\ st[2] = F
    BY <2>1
  <2>4. CASE gone = {}
    BY <1>6, <2>1, <2>4
  <2>5. CASE gone # {}
    BY <1>6, <2>2, <2>3, <2>5
  <2> QED
    BY <2>4, <2>5
<1>25. <<m2, G>> \in states
  <2>1. PICK st \in states : st = <<m1, F \ gone>>
    BY <1>24
  <2>2. st[1] = m1 /\ st[2] = F \ gone
    BY <2>1
  <2>3. new \in SUBSET (EvidenceFacts \ st[2]) /\ st[2] \cup new = G
    BY <1>22, <1>23, <2>2
  <2>4. new # {} => <<Extended(st[1], new), st[2] \cup new>> \in states
    BY <2>3 DEF EngineSound
  <2>5. CASE new = {}
    BY <1>7, <2>1, <2>2, <2>3, <2>5
  <2>6. CASE new # {}
    BY <1>7, <2>2, <2>3, <2>4, <2>6
  <2> QED
    BY <2>5, <2>6
<1>26. m2 = [facts |-> m2.facts, supports |-> m2.supports]
  <2>1. PICK st \in states : st = <<m2, G>>
    BY <1>25
  <2>2. st[1] = [facts |-> st[1].facts, supports |-> st[1].supports] /\ st[1] = m2
    BY <2>1 DEF EngineSound
  <2> QED
    BY <2>2
<1>27. ComputedFor(t, states)
  BY <1>12, <1>20, <1>25, <1>26 DEF ComputedFor, Computed
<1> QED
  BY <1>9, <1>19, <1>27

-----------------------------------------------------------------------------
(* Sessions.                                                                *)

Kept(s, states) == SessionKept(s) /\ ComputedFor(s, states)
SessionsKept(states) ==
    /\ \A p \in Procs : mem[p] # NoSession => Kept(mem[p], states)
    /\ file # NoSession => Kept(file, states)
    /\ \A p \in Procs : step[p] \in {"start", "rebuild"} => pinned[p] \in 0..Now

SessionInv(states) == HistoryTold /\ FileHeld /\ SessionsKept(states)

(* Later commits change nothing in what a session has read.                 *)
LEMMA SessionStays ==
    ASSUME Grown, NEW states, NEW s, Kept(s, states)
    PROVE  Kept(s, states)'
<1>1. Now \in Nat /\ Now' \in Nat /\ Now <= Now'
  BY DEF Grown
<1>2. s.h \in 0..Now /\ s.scan \in 0..Now /\ Live(s) \subseteq 1..s.h
  BY DEF Kept, SessionKept, Live
<1>3. s.h \in 0..Now' /\ s.scan \in 0..Now'
  BY <1>1, <1>2
<1>4. PICK m : m = ReadTo(s) /\ m \in 0..Now
  BY <1>1, <1>2, Later DEF ReadTo
<1>5. \A j \in Live(s) : SourceClaim(j)' = SourceClaim(j)
  BY <1>2, HorizonStays
<1>6. \A c : Present(m, "source", c)' = Present(m, "source", c)
  BY <1>4, HorizonStays
<1>7. PICK L : L = Live(s)
  OBVIOUS
<1>8. \A c : (\E j \in L : SourceClaim(j)' = c) <=> c \in Claims /\ Present(m, "source", c)'
  BY <1>4, <1>5, <1>6, <1>7 DEF Kept, SessionKept
<1>9. SessionKept(s)'
  <2>1. L = s.ids \ s.retired /\ m = Max({s.h, s.scan})
    BY <1>4, <1>7 DEF Live, ReadTo
  <2>2. /\ s = [h |-> s.h, scan |-> s.scan, ids |-> s.ids, retired |-> s.retired,
                facts |-> s.facts, supports |-> s.supports]
        /\ s.ids \subseteq 1..s.h /\ s.retired \subseteq 1..s.h
    BY DEF Kept, SessionKept
  <2>3. \A c : (\E j \in s.ids \ s.retired : SourceClaim(j)' = c)
               <=> c \in Claims /\ Present(Max({s.h, s.scan}), "source", c)'
    BY <1>8, <2>1
  <2> QED
    BY <1>3, <2>2, <2>3 DEF SessionKept, Live, ReadTo
<1>10. LedgerFacts(s)' = LedgerFacts(s)
  BY <1>5 DEF LedgerFacts, Live
<1>11. ComputedFor(s, states)'
  BY <1>10 DEF Kept, ComputedFor, Computed
<1> QED
  BY <1>9, <1>11 DEF Kept

(* Steps of the source leave what the sessions hold right.                  *)
LEMMA SessionsStay ==
    ASSUME Grown, NEW states, SessionsKept(states), UNCHANGED sessionVars
    PROVE  SessionsKept(states)'
<1>1. Now \in Nat /\ Now' \in Nat /\ Now <= Now'
  BY DEF Grown
<1>2. ASSUME NEW p \in Procs, mem'[p] # NoSession
      PROVE  Kept(mem[p], states)'
  <2>1. PICK s : s = mem[p] /\ s = mem'[p]
    BY DEF sessionVars
  <2>2. Kept(s, states)'
    BY <1>2, <2>1, SessionStays DEF SessionsKept
  <2> QED
    BY <2>1, <2>2
<1>3. ASSUME file' # NoSession
      PROVE  Kept(file, states)'
  <2>1. PICK s : s = file /\ s = file'
    BY DEF sessionVars
  <2>2. Kept(s, states)'
    BY <1>3, <2>1, SessionStays DEF SessionsKept
  <2> QED
    BY <2>1, <2>2
<1>4. ASSUME NEW p \in Procs, step'[p] \in {"start", "rebuild"}
      PROVE  pinned'[p] \in 0..Now'
  <2>1. step[p] \in {"start", "rebuild"} /\ pinned'[p] = pinned[p]
    BY <1>4 DEF sessionVars
  <2>2. pinned[p] \in 0..Now
    BY <2>1 DEF SessionsKept
  <2> QED
    BY <1>1, <2>1, <2>2
<1> QED
  BY <1>2, <1>3, <1>4 DEF SessionsKept

(* A step of one process gives it, or the file, a session that is kept.     *)
LEMMA ProcessKeeps ==
    ASSUME NEW states, SessionInv(states), NEW p \in Procs, FileHeld', UNCHANGED log,
           \/ mem' = mem
           \/ \E x : mem' = Set(mem, p, x) /\ (x # NoSession => Kept(x, states)),
           \/ file' = file
           \/ \E x : file' = x /\ (x # NoSession => Kept(x, states)),
           \/ UNCHANGED <<step, pinned>>
           \/ \E x, y : step' = Set(step, p, x) /\ ~(x \in {"start", "rebuild"})
                        /\ pinned' \in {pinned, Set(pinned, p, y)}
           \/ \E x : step' = Set(step, p, x) /\ pinned' = Set(pinned, p, Now)
    PROVE  SessionInv(states)'
<1>1. LogKept' /\ Grown /\ Now' = Now
  BY Unchanged DEF SessionInv, HistoryTold
<1>2. HistoryTold'
  BY <1>1 DEF SessionInv, HistoryTold, Tells
<1>3. PICK S : /\ mem \in [Procs -> S] /\ expected \in [Procs -> S]
               /\ step \in [Procs -> S] /\ pinned \in [Procs -> S]
  BY DEF SessionInv, FileHeld
<1>4. Now \in 0..Now
  BY <1>1 DEF Grown
<1>5. ASSUME NEW x, Kept(x, states)
      PROVE  Kept(x, states)'
  BY <1>1, <1>5, SessionStays
<1>6. ASSUME NEW q \in Procs, mem'[q] # NoSession
      PROVE  Kept(mem[q], states)'
  <2>1. PICK x : x = mem'[q]
    OBVIOUS
  <2>2. Kept(x, states)
    <3>1. CASE x = mem[q]
      BY <1>6, <2>1, <3>1 DEF SessionInv, SessionsKept
    <3>2. CASE x # mem[q]
      <4>1. PICK y : mem' = Set(mem, p, y) /\ (y # NoSession => Kept(y, states))
        BY <2>1, <3>2
      <4>2. q = p /\ x = y
        BY <1>3, <2>1, <3>2, <4>1 DEF Set
      <4> QED
        BY <1>6, <2>1, <4>1, <4>2
    <3> QED
      BY <3>1, <3>2
  <2>3. Kept(x, states)'
    BY <1>5, <2>2
  <2> QED
    BY <2>1, <2>3
<1>7. ASSUME file' # NoSession
      PROVE  Kept(file, states)'
  <2>1. PICK x : x = file'
    OBVIOUS
  <2>2. Kept(x, states)
    BY <1>7, <2>1 DEF SessionInv, SessionsKept
  <2>3. Kept(x, states)'
    BY <1>5, <2>2
  <2> QED
    BY <2>1, <2>3
<1>8. ASSUME NEW q \in Procs, step'[q] \in {"start", "rebuild"}
      PROVE  pinned'[q] \in 0..Now'
  <2>1. step[q] \in {"start", "rebuild"} => pinned[q] \in 0..Now
    BY DEF SessionInv, SessionsKept
  <2>2. CASE UNCHANGED <<step, pinned>>
    BY <1>1, <1>8, <2>1, <2>2
  <2>3. ASSUME NEW x, NEW y, step' = Set(step, p, x), ~(x \in {"start", "rebuild"}),
               pinned' \in {pinned, Set(pinned, p, y)}
        PROVE  pinned'[q] \in 0..Now'
    <3>1. q # p /\ step'[q] = step[q]
      BY <1>3, <1>8, <2>3 DEF Set
    <3>2. pinned'[q] = pinned[q]
      BY <1>3, <2>3, <3>1 DEF Set
    <3> QED
      BY <1>1, <1>8, <2>1, <3>1, <3>2
  <2>4. ASSUME NEW x, step' = Set(step, p, x), pinned' = Set(pinned, p, Now)
        PROVE  pinned'[q] \in 0..Now'
    <3>1. CASE q = p
      <4>1. pinned'[q] = Now
        BY <1>3, <2>4, <3>1 DEF Set
      <4> QED
        BY <1>1, <1>4, <4>1
    <3>2. CASE q # p
      <4>1. step'[q] = step[q] /\ pinned'[q] = pinned[q]
        BY <1>3, <2>4, <3>2 DEF Set
      <4> QED
        BY <1>1, <1>8, <2>1, <4>1
    <3> QED
      BY <3>1, <3>2
  <2> QED
    BY <2>2, <2>3, <2>4
<1>9. SessionsKept(states)'
  BY <1>6, <1>7, <1>8 DEF SessionsKept
<1> QED
  BY <1>2, <1>9 DEF SessionInv

(* Every step of a session keeps the invariant.                             *)
LEMMA SessionStepKeeps ==
    ASSUME NEW states, EngineSound(states), SessionInv(states), NEW p \in Procs, SessionStep(p)
    PROVE  SessionInv(states)'
<1>1. FileHeld'
  BY SessionStepHolds DEF SessionInv
<1>2. Now \in Nat /\ Now \in 0..Now
  BY LenProperties DEF SessionInv, HistoryTold, LogKept, Now
<1>3. HistoryTold
  BY DEF SessionInv
<1>4. /\ mem[p] # NoSession => Kept(mem[p], states)
      /\ file # NoSession => Kept(file, states)
      /\ step[p] \in {"start", "rebuild"} => pinned[p] \in 0..Now
  BY DEF SessionInv, SessionsKept
<1>5. ASSUME NEW h \in 0..Now, ScanAdmits(h)
      PROVE  Kept(Materialized(h, SourceIds(Now)), states)
  BY <1>3, <1>5, MaterializedKept DEF Kept
<1>6. ASSUME NEW s, Kept(s, states)
      PROVE  Kept(Advanced(s), states)
  BY <1>3, <1>6, MovedKept DEF Kept, Advanced
<1>7. CASE StartPin(p)
  BY <1>1, <1>7, ProcessKeeps DEF StartPin
<1>8. CASE Scan(p)
  <2>1. PICK x : x = Materialized(pinned[p], SourceIds(Now))
    OBVIOUS
  <2>2. ScanAdmits(pinned[p]) => Kept(x, states)
    BY <1>4, <1>5, <1>8, <2>1 DEF Scan
  <2>3. mem' = mem \/ \E y : mem' = Set(mem, p, y) /\ (y # NoSession => Kept(y, states))
    BY <1>8, <2>1, <2>2 DEF Scan
  <2>4. \E y, z : step' = Set(step, p, y) /\ ~(y \in {"start", "rebuild"})
                  /\ pinned' \in {pinned, Set(pinned, p, z)}
    <3>1. \E y \in {"moved", "idle"} : step' = Set(step, p, y)
      BY <1>8 DEF Scan
    <3>2. pinned' = Set(pinned, p, 0)
      BY <1>8 DEF Scan
    <3> QED
      BY <3>1, <3>2
  <2>5. UNCHANGED <<log, file>>
    BY <1>8 DEF Scan
  <2> QED
    BY <1>1, <2>3, <2>4, <2>5, ProcessKeeps
<1>9. CASE Advance(p)
  <2>1. CASE MustRebuild(mem[p], Now)
    BY <1>1, <1>9, <2>1, ProcessKeeps DEF Advance
  <2>2. CASE ~MustRebuild(mem[p], Now)
    <3>1. PICK x : x = Advanced(mem[p])
      OBVIOUS
    <3>2. Kept(x, states)
      BY <1>4, <1>6, <1>9, <3>1 DEF Advance
    <3>3. mem' = Set(mem, p, x) /\ UNCHANGED <<log, file, pinned>>
      BY <1>9, <2>2, <3>1 DEF Advance
    <3>4. \E y \in {"moved", "idle"} : step' = Set(step, p, y)
      BY <1>9, <2>2 DEF Advance
    <3>5. \E y, z : step' = Set(step, p, y) /\ ~(y \in {"start", "rebuild"})
                    /\ pinned' \in {pinned, Set(pinned, p, z)}
      BY <3>3, <3>4
    <3> QED
      BY <1>1, <3>2, <3>3, <3>5, ProcessKeeps
  <2> QED
    BY <2>1, <2>2
<1>10. CASE Load(p)
  BY <1>1, <1>4, <1>10, ProcessKeeps DEF Load
<1>11. CASE SaveCompare(p)
  <2>1. \E y \in {"replace", "idle"} : step' = Set(step, p, y)
    BY <1>11 DEF SaveCompare
  <2>2. \E y, z : step' = Set(step, p, y) /\ ~(y \in {"start", "rebuild"})
                  /\ pinned' \in {pinned, Set(pinned, p, z)}
    BY <1>11, <2>1 DEF SaveCompare
  <2>3. mem' = mem \/ \E y : mem' = Set(mem, p, y) /\ (y # NoSession => Kept(y, states))
    BY <1>11 DEF SaveCompare
  <2>4. UNCHANGED <<log, file>>
    BY <1>11 DEF SaveCompare
  <2> QED
    BY <1>1, <2>2, <2>3, <2>4, ProcessKeeps
<1>12. CASE SaveReplace(p)
  <2>1. \E y, z : step' = Set(step, p, y) /\ ~(y \in {"start", "rebuild"})
                  /\ pinned' \in {pinned, Set(pinned, p, z)}
    BY <1>12 DEF SaveReplace
  <2>2. \E x : file' = x /\ (x # NoSession => Kept(x, states))
    BY <1>4, <1>12 DEF SaveReplace
  <2>3. UNCHANGED <<log, mem>>
    BY <1>12 DEF SaveReplace
  <2> QED
    BY <1>1, <2>1, <2>2, <2>3, ProcessKeeps
<1>13. CASE Crash(p)
  <2>1. \E y, z : step' = Set(step, p, y) /\ ~(y \in {"start", "rebuild"})
                  /\ pinned' \in {pinned, Set(pinned, p, z)}
    BY <1>13 DEF Crash
  <2>2. \E x : mem' = Set(mem, p, x) /\ (x # NoSession => Kept(x, states))
    BY <1>13 DEF Crash
  <2>3. UNCHANGED <<log, file>>
    BY <1>13 DEF Crash
  <2> QED
    BY <1>1, <2>1, <2>2, <2>3, ProcessKeeps
<1>14. CASE AuthenticatedAdvance(p)
  <2>1. file # NoSession
    BY <1>14 DEF AuthenticatedAdvance, Loadable
  <2>2. PICK x : x = file'
    OBVIOUS
  <2>3. Kept(x, states)
    <3>1. CASE MustRebuild(file, Now)
      <4>1. x = Materialized(Now, SourceIds(Now)) /\ ScanAdmits(Now)
        BY <1>14, <2>2, <3>1 DEF AuthenticatedAdvance
      <4> QED
        BY <1>2, <1>5, <4>1
    <3>2. CASE ~MustRebuild(file, Now)
      <4>1. x = Advanced(file)
        BY <1>14, <2>2, <3>2 DEF AuthenticatedAdvance
      <4> QED
        BY <1>4, <1>6, <2>1, <4>1
    <3> QED
      BY <3>1, <3>2
  <2>4. UNCHANGED <<log, mem, step, pinned>>
    BY <1>14 DEF AuthenticatedAdvance
  <2> QED
    BY <1>1, <2>2, <2>3, <2>4, ProcessKeeps
<1> QED
  BY <1>7, <1>8, <1>9, <1>10, <1>11, <1>12, <1>13, <1>14 DEF SessionStep

(* A session that agrees with the source at its horizon is sound.           *)
LEMMA KeptSound ==
    ASSUME HistoryTold, NEW states, EngineSound(states), NEW s, Kept(s, states)
    PROVE  /\ LedgerFacts(s) = SourceFacts(Max({s.h, s.scan}))
           /\ s.facts \subseteq ClosureOf(LedgerFacts(s))
           /\ \A t \in s.supports : t.premises \cup {t.fact} \subseteq s.facts
<1>1. LedgerFacts(s) = SourceFacts(Max({s.h, s.scan}))
  BY LedgerIsSource DEF Kept, ReadTo
<1>2. PICK F : F = LedgerFacts(s)
  OBVIOUS
<1>3. PICK st \in states : st = <<Computed(s), F>>
  BY <1>2 DEF Kept, ComputedFor
<1>4. st[1].facts = s.facts /\ st[1].supports = s.supports /\ st[2] = F
  BY <1>3 DEF Computed
<1>5. /\ st[1].facts \subseteq ClosureOf(st[2])
      /\ \A t \in st[1].supports : t.premises \cup {t.fact} \subseteq st[1].facts
  BY DEF EngineSound
<1>6. ClosureOf(st[2]) = ClosureOf(F)
  BY <1>4
<1> QED
  BY <1>1, <1>2, <1>4, <1>5, <1>6

(* SessionSound holds in every behaviour, over any claims that are          *)
(* asserted, corrected and retracted and any engine that is sound: a        *)
(* session's ledger is what the source showed at the horizon it has read,   *)
(* whichever deltas, rebuilds, saves, loads and crashes brought it there    *)
(* (start_session, advance_session, save_session, load_session,             *)
(* advance_authenticated_session).                                          *)
THEOREM SessionsSound ==
    ASSUME NEW CONSTANT Told, Told \subseteq Tellings,
           NEW CONSTANT states, EngineSound(states)
    PROVE  SessionSpec(Told) => []SessionSound
<1>1. InitLog /\ InitSessions => SessionInv(states)
  <2> SUFFICES ASSUME InitLog, InitSessions
               PROVE  SessionInv(states)
    OBVIOUS
  <2>1. log = <<>> /\ Now = 0 /\ log \in Seq({})
    BY EmptySeq DEF InitLog, Now
  <2>2. HistoryTold
    BY <2>1 DEF HistoryTold, LogKept
  <2>3. FileHeld
    BY FileHeldFirst
  <2>4. SessionsKept(states)
    BY DEF InitSessions, SessionsKept
  <2> QED
    BY <2>2, <2>3, <2>4 DEF SessionInv
<1>2. SessionInv(states) /\ [SessionNext(Told)]_<<log, sessionVars>> => SessionInv(states)'
  <2> SUFFICES ASSUME SessionInv(states), [SessionNext(Told)]_<<log, sessionVars>>
               PROVE  SessionInv(states)'
    OBVIOUS
  <2>1. LogKept /\ HistoryTold /\ SessionsKept(states) /\ FileHeld
    BY DEF SessionInv, HistoryTold
  <2>2. ASSUME UNCHANGED sessionVars, Grown, HistoryTold'
        PROVE  SessionInv(states)'
    <3>1. FileHeld'
      BY <2>1, <2>2 DEF FileHeld, sessionVars
    <3>2. SessionsKept(states)'
      BY <2>1, <2>2, SessionsStay
    <3> QED
      BY <2>2, <3>1, <3>2 DEF SessionInv
  <2>3. CASE Recorded(Told) /\ UNCHANGED sessionVars
    <3>1. PICK r \in Told : Record(r[1], r[2], r[3])
      BY <2>3 DEF Recorded
    <3>2. PICK v : v = SourceVersion(r[1], r[2], r[3])
      OBVIOUS
    <3>3. Tells(v) /\ log' = Append(log, {v})
      BY <3>1, <3>2 DEF Tells, Record
    <3>4. OneOfEach({v})
      BY DEF OneOfEach
    <3>5. PICK n : n = Now + 1
      OBVIOUS
    <3>6. LogKept' /\ Grown /\ Now' = n /\ log'[n] = {v}
      BY <2>1, <3>3, <3>4, <3>5, Appended
    <3>7. \A i \in 1..n : i = n \/ i \in 1..Now
      BY <3>5, <3>6 DEF Grown
    <3>8. \A i \in 1..n : \E w : log'[i] = {w} /\ Tells(w)
      BY <2>1, <3>3, <3>6, <3>7 DEF HistoryTold, Grown
    <3>9. HistoryTold'
      BY <3>6, <3>8 DEF HistoryTold, Tells
    <3> QED
      BY <2>2, <2>3, <3>6, <3>9
  <2>4. ASSUME NEW p \in Procs, SessionStep(p)
        PROVE  SessionInv(states)'
    BY <2>4, SessionStepKeeps
  <2>5. CASE UNCHANGED <<log, sessionVars>>
    <3>1. LogKept' /\ Grown /\ Now' = Now
      BY <2>1, <2>5, Unchanged
    <3>2. HistoryTold'
      BY <2>1, <2>5, <3>1 DEF HistoryTold, Tells
    <3> QED
      BY <2>2, <2>5, <3>1, <3>2
  <2> QED
    BY <2>3, <2>4, <2>5 DEF SessionNext
<1>3. SessionInv(states) => SessionSound
  <2> SUFFICES ASSUME SessionInv(states), NEW s \in Sessions
               PROVE  /\ LedgerFacts(s) = SourceFacts(Max({s.h, s.scan}))
                      /\ s.facts \subseteq ClosureOf(LedgerFacts(s))
                      /\ \A t \in s.supports : t.premises \cup {t.fact} \subseteq s.facts
    BY DEF SessionSound
  <2>1. Kept(s, states)
    BY DEF Sessions, SessionInv, SessionsKept
  <2> QED
    BY <2>1, KeptSound DEF SessionInv
<1> QED
  BY <1>1, <1>2, <1>3, PTL DEF SessionSpec

-----------------------------------------------------------------------------
(* Stored rules: the fixpoint of a component, and the order of components.  *)

(* What a closure may reach is finite, and it is reached one step at a time. *)
Goals(pairs) == {p[2] : p \in pairs}
ClosedBy(pairs, X) == \A p \in pairs : p[1] \subseteq X => p[2] \in X
FollowDo(X, i, pairs, none1, none2) == Follow(pairs, X)
FollowGood(X, n, k) ==
    /\ k.start \subseteq X
    /\ \A Y : k.start \subseteq Y /\ ClosedBy(k.pairs, Y) => X \subseteq Y
    /\ ClosedBy(k.pairs, X) \/ Cardinality(X \cap Goals(k.pairs)) >= n
Following == INSTANCE Folding WITH Do <- FollowDo, Good <- FollowGood

(* The numbers up to n, in order.                                            *)
LEMMA NumbersLength == ASSUME NEW n \in Nat PROVE Len(Numbers(n)) = n
<1>1. Numbers(n) \in Seq(1..n)
  BY DEF Numbers
<1> QED
  BY <1>1 DEF Numbers

(* A round of a closure keeps what it has reached closed, or reaches more.   *)
LEMMA FollowKeeps ==
    ASSUME NEW X, NEW k, NEW n \in Nat, n >= 1, IsFiniteSet(Goals(k.pairs)), FollowGood(X, n - 1, k)
    PROVE  FollowGood(Follow(k.pairs, X), n, k)
<1>1. PICK N : N = Follow(k.pairs, X)
  OBVIOUS
<1>2. PICK P : P = k.pairs
  OBVIOUS
<1>3. PICK G : G = Goals(P)
  OBVIOUS
<1>4. \A g : g \in N <=> g \in X \/ \E p \in P : p[1] \subseteq X /\ g = p[2]
  BY <1>1, <1>2 DEF Follow
<1>5. X \subseteq N
  BY <1>4
<1>6. ASSUME NEW Y, k.start \subseteq Y, ClosedBy(P, Y) PROVE N \subseteq Y
  <2>1. X \subseteq Y
    BY <1>2, <1>6 DEF FollowGood
  <2> QED
    BY <1>4, <1>6, <2>1 DEF ClosedBy
<1>7. ClosedBy(P, N) \/ Cardinality(N \cap G) >= n
  <2>1. CASE ClosedBy(P, X)
    <3>1. N = X
      BY <1>4, <2>1 DEF ClosedBy
    <3> QED
      BY <2>1, <3>1
  <2>2. CASE ~ ClosedBy(P, X)
    <3>1. PICK p \in P : p[1] \subseteq X /\ p[2] \notin X
      BY <2>2 DEF ClosedBy
    <3>2. p[2] \in N \cap G /\ p[2] \notin X \cap G
      BY <1>3, <1>4, <3>1 DEF Goals
    <3>3. (X \cap G) \cup {p[2]} \subseteq N \cap G
      BY <1>5, <3>2
    <3>4. IsFiniteSet(X \cap G) /\ IsFiniteSet(N \cap G)
      BY <1>2, <1>3, FS_Intersection
    <3>5. Cardinality((X \cap G) \cup {p[2]}) = Cardinality(X \cap G) + 1
      BY <3>2, <3>4, FS_AddElement
    <3>6. Cardinality((X \cap G) \cup {p[2]}) <= Cardinality(N \cap G)
      BY <3>3, <3>4, FS_Subset
    <3>7. Cardinality(X \cap G) >= n - 1
      BY <1>2, <1>3, <2>2 DEF FollowGood
    <3>8. Cardinality(X \cap G) \in Nat /\ Cardinality(N \cap G) \in Nat
      BY <3>4, FS_CardinalityType
    <3> QED
      BY <3>5, <3>6, <3>7, <3>8
  <2> QED
    BY <2>1, <2>2
<1>8. k.start \subseteq N
  BY <1>5 DEF FollowGood
<1> QED
  BY <1>1, <1>2, <1>3, <1>6, <1>7, <1>8 DEF FollowGood

(* A closure holds what it starts from and what follows from it, no more.   *)
LEMMA ClosureIs ==
    ASSUME NEW pairs, NEW S, IsFiniteSet(Goals(pairs))
    PROVE  /\ S \subseteq Closure(pairs, S) /\ ClosedBy(pairs, Closure(pairs, S))
           /\ \A Y : S \subseteq Y /\ ClosedBy(pairs, Y) => Closure(pairs, S) \subseteq Y
<1>1. PICK n \in Nat : n = Cardinality(Goals(pairs))
  BY FS_CardinalityType
<1>2. PICK k : k = [pairs |-> pairs, start |-> S]
  OBVIOUS
<1>3. Len(Numbers(n)) = n
  BY NumbersLength
<1>4. PICK C : C = Following!Run(S, Numbers(n), pairs, 0, 0)
  OBVIOUS
<1>5. Closure(pairs, S) = C
  BY <1>1, <1>4 DEF Closure, Fold, Goals, Following!Run, FollowDo
<1>6. FollowGood(S, 0, k)
  <2>1. IsFiniteSet(S \cap Goals(pairs))
    BY FS_Intersection
  <2>2. Cardinality(S \cap Goals(pairs)) \in Nat
    BY <2>1, FS_CardinalityType
  <2> QED
    BY <1>2, <2>2 DEF FollowGood
<1>7. \A X : \A i \in 1..Len(Numbers(n)) :
          FollowGood(X, i - 1, k) => FollowGood(FollowDo(X, Numbers(n)[i], pairs, 0, 0), i, k)
  BY <1>2, <1>3, FollowKeeps DEF FollowDo
<1>8. FollowGood(C, IF Len(Numbers(n)) \in Nat THEN Len(Numbers(n)) ELSE 0, k)
  BY <1>4, <1>6, <1>7, Following!Runs
<1>9. FollowGood(C, n, k)
  BY <1>3, <1>8
<1>10. ClosedBy(pairs, C)
  <2>1. CASE Cardinality(C \cap Goals(pairs)) >= n
    <3>1. C \cap Goals(pairs) \in SUBSET Goals(pairs)
      OBVIOUS
    <3>2. Cardinality(C \cap Goals(pairs)) <= n /\ IsFiniteSet(C \cap Goals(pairs))
      BY <1>1, <3>1, FS_Subset
    <3>3. Cardinality(C \cap Goals(pairs)) = n
      BY <2>1, <3>2, FS_CardinalityType
    <3>4. C \cap Goals(pairs) = Goals(pairs)
      BY <1>1, <3>1, <3>3, FS_Subset
    <3> QED
      BY <3>4 DEF ClosedBy, Goals
  <2> QED
    BY <1>2, <1>9, <2>1 DEF FollowGood
<1> QED
  BY <1>2, <1>5, <1>9, <1>10 DEF FollowGood

(* What the positive dependencies lead to from a fact.                      *)
LEMMA BehindIs ==
    ASSUME NEW rules \in SUBSET DOMAIN RuleVersions, NEW f \in Facts
    PROVE  /\ f \in Behind(rules)[f] /\ Behind(rules)[f] \subseteq Facts
           /\ \A g \in Behind(rules)[f] : Behind(rules)[g] \subseteq Behind(rules)[f]
<1>1. PICK pairs : pairs = {<<{e[1]}, e[2]>> : e \in PositiveEdges(rules)}
  OBVIOUS
<1>2. \A e \in PositiveEdges(rules) : e[2] \in Facts
  BY RulesAssumption DEF PositiveEdges, Ru
<1>3. \A p \in pairs : p[2] \in Facts
  BY <1>1, <1>2
<1>4. Goals(pairs) \in SUBSET Facts
  BY <1>3 DEF Goals
<1>5. IsFiniteSet(Goals(pairs))
  BY <1>4, FS_Subset, RulesAssumption
<1>6. \A g \in Facts : Behind(rules)[g] = Closure(pairs, {g})
  BY <1>1 DEF Behind
<1>7. ASSUME NEW g \in Facts PROVE g \in Behind(rules)[g] /\ ClosedBy(pairs, Behind(rules)[g])
  <2>1. {g} \subseteq Closure(pairs, {g}) /\ ClosedBy(pairs, Closure(pairs, {g}))
    BY <1>5, ClosureIs
  <2> QED
    BY <1>6, <2>1
<1>8. Behind(rules)[f] \subseteq Facts
  <2>1. ClosedBy(pairs, Facts)
    BY <1>3 DEF ClosedBy
  <2>2. \A Y : {f} \subseteq Y /\ ClosedBy(pairs, Y) => Closure(pairs, {f}) \subseteq Y
    BY <1>5, ClosureIs
  <2>3. Closure(pairs, {f}) \subseteq Facts
    BY <2>1, <2>2
  <2> QED
    BY <1>6, <2>3
<1>9. ASSUME NEW g \in Behind(rules)[f] PROVE Behind(rules)[g] \subseteq Behind(rules)[f]
  <2>1. g \in Facts /\ {g} \subseteq Behind(rules)[f]
    BY <1>8
  <2>2. \A Y : {g} \subseteq Y /\ ClosedBy(pairs, Y) => Closure(pairs, {g}) \subseteq Y
    BY <1>5, ClosureIs
  <2>3. Closure(pairs, {g}) \subseteq Behind(rules)[f]
    BY <1>7, <2>1, <2>2
  <2> QED
    BY <1>6, <2>1, <2>3
<1> QED
  BY <1>7, <1>8, <1>9

(* The components part the facts.                                           *)
LEMMA ComponentsPart ==
    ASSUME NEW rules \in SUBSET DOMAIN RuleVersions
    PROVE  /\ Components(rules) \subseteq SUBSET Facts /\ IsFiniteSet(Components(rules))
           /\ \A f \in Facts : \E c \in Components(rules) : f \in c
           /\ \A c \in Components(rules), d \in Components(rules) : c = d \/ c \cap d = {}
<1>1. PICK b : b = Behind(rules)
  OBVIOUS
<1>2. /\ \A f \in Facts : f \in b[f] /\ b[f] \subseteq Facts
      /\ \A f \in Facts : \A g \in b[f] : b[g] \subseteq b[f]
  BY <1>1, BehindIs
<1>3. PICK C : C = Components(rules)
  OBVIOUS
<1>4. C = {{g \in b[f] : f \in b[g]} : f \in Facts}
  BY <1>1, <1>3 DEF Components
<1>5. C \in SUBSET SUBSET Facts
  BY <1>2, <1>4
<1>6. IsFiniteSet(C)
  BY <1>5, FS_SUBSET, FS_Subset, RulesAssumption
<1>7. ASSUME NEW f \in Facts PROVE \E c \in C : f \in c
  <2>1. f \in {g \in b[f] : f \in b[g]}
    BY <1>2
  <2>2. {g \in b[f] : f \in b[g]} \in C
    BY <1>4
  <2> QED
    BY <2>1, <2>2
<1>8. ASSUME NEW c \in C, NEW d \in C, NEW x \in c, x \in d PROVE c = d
  <2>1. PICK f \in Facts : c = {g \in b[f] : f \in b[g]}
    BY <1>4
  <2>2. PICK h \in Facts : d = {g \in b[h] : h \in b[g]}
    BY <1>4
  <2>3. x \in b[f] /\ f \in b[x] /\ x \in b[h] /\ h \in b[x] /\ x \in Facts
    BY <1>2, <1>8, <2>1, <2>2
  <2>4. b[x] \subseteq b[f] /\ b[f] \subseteq b[x] /\ b[x] \subseteq b[h] /\ b[h] \subseteq b[x]
    BY <1>2, <2>3
  <2>5. b[f] = b[x] /\ b[h] = b[x]
    BY <2>4
  <2>6. ASSUME NEW g \in b[x] PROVE f \in b[g] <=> h \in b[g]
    <3>1. g \in Facts
      BY <1>2, <2>3
    <3>2. f \in b[g] => h \in b[g]
      BY <1>2, <2>3, <2>5, <3>1
    <3>3. h \in b[g] => f \in b[g]
      BY <1>2, <2>3, <2>5, <3>1
    <3> QED
      BY <3>2, <3>3
  <2> QED
    BY <2>1, <2>2, <2>5, <2>6
<1>9. \A c \in C, d \in C : c = d \/ c \cap d = {}
  BY <1>8
<1> QED
  BY <1>3, <1>5, <1>6, <1>7, <1>9

(* Components in an order in which nothing depends on a later one.          *)
Upto(strata, n) == UNION {strata[j] : j \in 1..n}
Sorted(done, comps, edges) ==
    /\ done \in Seq(comps)
    /\ \A i, j \in DOMAIN done : i # j => done[i] # done[j]
    /\ \A i \in DOMAIN done : \A e \in edges : e[2] \in done[i] => e[1] \in Upto(done, i)
OrderDo(done, i, comps, edges, none) == Ordered(comps, edges, done)
OrderGood(done, n, k) == Sorted(done, k.comps, k.edges)
Ordering == INSTANCE Folding WITH Do <- OrderDo, Good <- OrderGood

(* A component is placed after those that it depends on.                     *)
LEMMA OrderKeeps ==
    ASSUME NEW comps, NEW edges, NEW done, Sorted(done, comps, edges)
    PROVE  Sorted(Ordered(comps, edges, done), comps, edges)
<1>1. PICK ready : ready = Startable(comps, edges, done)
  OBVIOUS
<1>2. CASE ready = {}
  BY <1>1, <1>2 DEF Ordered
<1>3. CASE ready # {}
  <2>1. PICK c \in ready : c = CHOOSE x \in ready : TRUE
    BY <1>3
  <2>2. PICK next : next = Append(done, c)
    OBVIOUS
  <2>3. Ordered(comps, edges, done) = next
    BY <1>1, <1>3, <2>1, <2>2 DEF Ordered
  <2>4. c \in comps /\ c \notin Range(done)
    BY <1>1, <2>1 DEF Startable
  <2>5. \A e \in edges : e[2] \in c => e[1] \in c \cup UNION Range(done)
    BY <1>1, <2>1 DEF Startable
  <2>6. PICK n \in Nat : n = Len(done)
    BY DEF Sorted
  <2>7. /\ next \in Seq(comps) /\ DOMAIN next = 1..(n + 1) /\ DOMAIN done = 1..n
        /\ next[n + 1] = c /\ \A i \in 1..n : next[i] = done[i]
    BY <2>2, <2>4, <2>6 DEF Sorted
  <2>8. \A i \in 1..(n + 1) : i \in 1..n \/ i = n + 1
    BY <2>6
  <2>9. \A i \in 1..n : next[i] # c
    BY <2>4, <2>7 DEF Range
  <2>10. \A i, j \in DOMAIN next : i # j => next[i] # next[j]
    BY <2>7, <2>8, <2>9 DEF Sorted
  <2>11. ASSUME NEW i \in DOMAIN next, NEW e \in edges, e[2] \in next[i]
         PROVE  e[1] \in Upto(next, i)
    <3>1. CASE i \in 1..n
      <4>1. e[1] \in Upto(done, i)
        BY <2>7, <2>11, <3>1 DEF Sorted
      <4>2. PICK j \in 1..i : e[1] \in done[j]
        BY <4>1 DEF Upto
      <4>3. j \in 1..n
        BY <2>6, <3>1
      <4> QED
        BY <2>7, <4>2, <4>3 DEF Upto
    <3>2. CASE i = n + 1
      <4>1. e[1] \in c \/ \E j \in 1..n : e[1] \in done[j]
        BY <2>5, <2>7, <2>11, <3>2 DEF Range
      <4>2. n + 1 \in 1..i /\ \A j \in 1..n : j \in 1..i
        BY <2>6, <3>2
      <4> QED
        BY <2>7, <4>1, <4>2 DEF Upto
    <3> QED
      BY <2>7, <2>8, <3>1, <3>2
  <2> QED
    BY <2>3, <2>7, <2>10, <2>11 DEF Sorted
<1> QED
  BY <1>2, <1>3

(* Strata that a program can be evaluated by.                               *)
Layered(strata, rules) ==
    /\ strata \in Seq(SUBSET Facts)
    /\ \A i, j \in DOMAIN strata : i # j => strata[i] \cap strata[j] = {}
    /\ \A f \in Facts : \E i \in DOMAIN strata : f \in strata[i]
    /\ \A i \in DOMAIN strata, v \in rules : Ru(v).head \in strata[i] =>
           Range(Ru(v).body) \subseteq Upto(strata, i) /\ Ru(v).neg \subseteq Upto(strata, i - 1)

(* So the strata are components in order, as many as can be placed.          *)
LEMMA StrataSorted ==
    ASSUME NEW rules \in SUBSET DOMAIN RuleVersions
    PROVE  Sorted(Strata(rules), Components(rules), Edges(rules))
<1>1. PICK C : C = Components(rules)
  OBVIOUS
<1>2. PICK E : E = Edges(rules)
  OBVIOUS
<1>3. PICK n \in Nat : n = Cardinality(C)
  BY <1>1, ComponentsPart, FS_CardinalityType
<1>4. PICK k : k = [comps |-> C, edges |-> E]
  OBVIOUS
<1>5. PICK S : S = Ordering!Run(<<>>, Numbers(n), C, E, 0)
  OBVIOUS
<1>6. Strata(rules) = S
  BY <1>1, <1>2, <1>3, <1>5 DEF Strata, Fold, Ordering!Run, OrderDo
<1>7. OrderGood(<<>>, 0, k)
  BY <1>4 DEF OrderGood, Sorted
<1>8. \A X : \A i \in 1..Len(Numbers(n)) :
          OrderGood(X, i - 1, k) => OrderGood(OrderDo(X, Numbers(n)[i], C, E, 0), i, k)
  BY <1>4, OrderKeeps DEF OrderDo, OrderGood
<1>9. OrderGood(S, IF Len(Numbers(n)) \in Nat THEN Len(Numbers(n)) ELSE 0, k)
  BY <1>5, <1>7, <1>8, Ordering!Runs
<1> QED
  BY <1>1, <1>2, <1>4, <1>6, <1>9 DEF OrderGood

(* In a program that stratifies, rules look no higher, and negate only       *)
(* below.                                                                    *)
LEMMA StrataLayered ==
    ASSUME NEW rules \in SUBSET DOMAIN RuleVersions, Stratifies(rules)
    PROVE  Layered(Strata(rules), rules)
<1>1. PICK C : C = Components(rules)
  OBVIOUS
<1>2. PICK S : S = Strata(rules)
  OBVIOUS
<1>3. Sorted(S, C, Edges(rules))
  BY <1>1, <1>2, StrataSorted
<1>4. /\ C \subseteq SUBSET Facts /\ \A f \in Facts : \E c \in C : f \in c
      /\ \A c \in C, d \in C : c = d \/ c \cap d = {}
  BY <1>1, ComponentsPart
<1>5. Range(S) = C
  BY <1>1, <1>2 DEF Stratifies
<1>6. S \in Seq(SUBSET Facts)
  BY <1>3, <1>4 DEF Sorted
<1>7. \A i \in DOMAIN S : S[i] \in C
  BY <1>5 DEF Range
<1>8. \A i, j \in DOMAIN S : i # j => S[i] \cap S[j] = {}
  BY <1>3, <1>4, <1>7 DEF Sorted
<1>9. \A f \in Facts : \E i \in DOMAIN S : f \in S[i]
  BY <1>4, <1>5 DEF Range
<1>10. ASSUME NEW i \in DOMAIN S, NEW v \in rules, Ru(v).head \in S[i]
       PROVE  Range(Ru(v).body) \subseteq Upto(S, i) /\ Ru(v).neg \subseteq Upto(S, i - 1)
  <2>1. ASSUME NEW f \in Range(Ru(v).body) PROVE f \in Upto(S, i)
    <3>1. <<f, Ru(v).head>> \in Edges(rules)
      BY DEF Edges, PositiveEdges
    <3> QED
      BY <1>3, <1>10, <3>1 DEF Sorted
  <2>2. ASSUME NEW f \in Ru(v).neg PROVE f \in Upto(S, i - 1)
    <3>1. <<f, Ru(v).head>> \in NegativeEdges(rules)
      BY DEF NegativeEdges
    <3>2. f \in Upto(S, i)
      BY <1>3, <1>10, <3>1 DEF Sorted, Edges
    <3>3. f \notin S[i]
      BY <1>1, <1>7, <1>10, <3>1 DEF Stratifies
    <3>4. PICK j \in 1..i : f \in S[j]
      BY <3>2 DEF Upto
    <3>5. i \in Nat
      BY <1>6
    <3>6. j \in 1..(i - 1)
      BY <3>3, <3>4, <3>5
    <3> QED
      BY <3>4, <3>6 DEF Upto
  <2> QED
    BY <2>1, <2>2
<1> QED
  BY <1>2, <1>6, <1>8, <1>9, <1>10 DEF Layered

(* Validity is an interval.                                                 *)
LEMMA HullIs ==
    ASSUME NEW S \in SUBSET Instants, S # {}
    PROVE  S \subseteq Hull(S) /\ Hull(S) \subseteq Instants /\ Hull(Hull(S)) = Hull(S)
<1>1. PICK m \in Nat : Instants = 0..m
  BY InstantsAssumption
<1>2. PICK a \in S : \A j \in S : a <= j
  BY <1>1, LeastOf
<1>3. PICK D : D = {m - k : k \in S}
  OBVIOUS
<1>4. D \in SUBSET Nat /\ D # {}
  <2>1. \A k \in 0..m : m - k \in Nat
    OBVIOUS
  <2> QED
    BY <1>1, <1>3, <2>1
<1>5. PICK d \in D : \A e \in D : d <= e
  BY <1>4, LeastOf
<1>6. PICK b \in S : d = m - b
  BY <1>3
<1>7. \A j \in S : m - j \in D /\ j \in 0..m
  BY <1>1, <1>3
<1>8. \A j \in S : b >= j
  BY <1>1, <1>5, <1>6, <1>7
<1>9. Min(S) \in S /\ \A j \in S : Min(S) <= j
  BY <1>2 DEF Min
<1>10. Max(S) \in S /\ \A j \in S : Max(S) >= j
  BY <1>8 DEF Max
<1>11. Min(S) = a /\ Max(S) = b
  BY <1>2, <1>7, <1>8, <1>9, <1>10
<1>12. Hull(S) = a..b
  BY <1>11 DEF Hull
<1>13. a \in 0..m /\ b \in 0..m /\ a <= b
  BY <1>1, <1>2
<1>14. Hull(a..b) = a..b
  <2>1. Min(a..b) \in a..b /\ \A j \in a..b : Min(a..b) <= j
    <3>1. a \in a..b /\ \A j \in a..b : a <= j
      BY <1>13
    <3> QED
      BY <3>1 DEF Min
  <2>2. Max(a..b) \in a..b /\ \A j \in a..b : Max(a..b) >= j
    <3>1. b \in a..b /\ \A j \in a..b : b >= j
      BY <1>13
    <3> QED
      BY <3>1 DEF Max
  <2>3. Min(a..b) = a /\ Max(a..b) = b
    BY <1>13, <2>1, <2>2
  <2> QED
    BY <1>13, <2>3 DEF Hull
<1> QED
  BY <1>1, <1>7, <1>8, <1>2, <1>12, <1>13, <1>14

(* A rule applied to facts that match its body.                             *)
Shared(v, s) == {t \in Instants : \A i \in DOMAIN Ru(v).body : t \in s[i].valid}
Matches(v, s, facts) ==
    /\ s \in [DOMAIN Ru(v).body -> facts] /\ \A i \in DOMAIN Ru(v).body : s[i].fact = Ru(v).body[i]
    /\ Shared(v, s) # {} /\ Unblocked(v, Shared(v, s), facts)
RowOf(v, s) ==
    [key |-> Ru(v).head, valid |-> Shared(v, s), support |-> <<v, [i \in DOMAIN Ru(v).body |-> s[i].ref]>>]

(* The rows of a rule are its matches that use something new.                *)
LEMMA RowsAre ==
    ASSUME NEW v, NEW facts, NEW delta, NEW r
    PROVE  r \in Rows(v, facts, delta) <=>
               \E s : /\ Matches(v, s, facts) /\ r = RowOf(v, s)
                      /\ \E i \in DOMAIN Ru(v).body : s[i].ref \in delta
BY DEF Rows, Matches, RowOf, Shared

(* What an output gathers.                                                  *)
Gathered(k, out, rows, was) ==
    was[k] \cup (UNION {o.valid : o \in {p \in out : p.key = k}}) \cup (UNION {r.valid : r \in {q \in rows : q.key = k}})
MergeOf(k, out, rows, was) ==
    [key |-> k, valid |-> Hull(Gathered(k, out, rows, was)),
     supports |-> (UNION {o.supports : o \in {p \in out : p.key = k}}) \cup
                  {r.support : r \in {q \in rows : q.key = k}}]

(* What the records of one key hold together.                                *)
LEMMA Gathers ==
    ASSUME NEW S, NEW k
    PROVE  /\ \A x : x \in UNION {o.valid : o \in {p \in S : p.key = k}} <=> \E p \in S : p.key = k /\ x \in p.valid
           /\ \A x : x \in UNION {o.supports : o \in {p \in S : p.key = k}} <=> \E p \in S : p.key = k /\ x \in p.supports
           /\ \A x : x \in {r.support : r \in {p \in S : p.key = k}} <=> \E p \in S : p.key = k /\ x = p.support
<1>1. PICK P : P = {p \in S : p.key = k}
  OBVIOUS
<1>2. \A p : p \in P <=> p \in S /\ p.key = k
  BY <1>1
<1>3. \A x : x \in UNION {o.valid : o \in P} <=> \E p \in S : p.key = k /\ x \in p.valid
  BY <1>2, Zenon
<1>4. \A x : x \in UNION {o.supports : o \in P} <=> \E p \in S : p.key = k /\ x \in p.supports
  BY <1>2, Zenon
<1>5. \A x : x \in {r.support : r \in P} <=> \E p \in S : p.key = k /\ x = p.support
  BY <1>2, Zenon
<1> QED
  BY <1>1, <1>3, <1>4, <1>5

(* Merging leaves one record for each key, with all that was gathered for    *)
(* it.                                                                       *)
LEMMA MergedIs ==
    ASSUME NEW out, NEW rows, NEW was
    PROVE  Merged(out, rows, was) = {MergeOf(k, out, rows, was) : k \in Keys(out) \cup Keys(rows)}
BY DEF Merged, MergeOf, Gathered

(* The outputs of a round, and the facts that they become.                  *)
RowsFor(rules, facts, delta) == UNION {Rows(v, facts, delta) : v \in rules}
Renewed(out, next) == {o \in next : ~\E p \in out : p.key = o.key /\ p.valid = o.valid}

(* What a round does, by its outputs and those of them that are new.         *)
LEMMA RoundIs ==
    ASSUME NEW st, NEW rules, NEW ref, NEW was, st.delta # {}
    PROVE  \E next, fresh :
               /\ next = Merged(st.out, RowsFor(rules, st.facts, st.delta), was) /\ fresh = Renewed(st.out, next)
               /\ Round(st, rules, ref, was) =
                    [facts |-> {f \in st.facts : f.ref \notin {ref[o.key] : o \in fresh}} \cup
                               {[ref |-> ref[o.key], fact |-> o.key, valid |-> o.valid] : o \in fresh},
                     out |-> next, delta |-> {ref[o.key] : o \in fresh}]
BY DEF Round, Renewed, RowsFor

(* Outputs have one record for a key, and supports of the rules.            *)
Supported(s, rules, refs) ==
    /\ s = <<s[1], s[2]>> /\ s[1] \in rules /\ s[2] = [i \in DOMAIN Ru(s[1]).body |-> s[2][i]]
    /\ \A i \in DOMAIN Ru(s[1]).body : s[2][i] \in refs
Output(o, rules, refs) ==
    /\ o.key \in Facts
    /\ o.valid \in SUBSET Instants /\ o.valid # {} /\ Hull(o.valid) = o.valid
    /\ o.supports # {} /\ \A s \in o.supports : Supported(s, rules, refs)
RefsOf(facts, ref, out) == {f.ref : f \in facts} \cup {ref[k] : k \in Keys(out)}
Shaped(st, rules, facts, ref) ==
    /\ st = [facts |-> st.facts, out |-> st.out, delta |-> st.delta]
    /\ \A o \in st.out : Output(o, rules, RefsOf(facts, ref, st.out))
    /\ \A o, p \in st.out : o.key = p.key => o = p
    /\ \A f \in st.facts : f.ref \in RefsOf(facts, ref, st.out) /\ f.fact \in Facts /\ f.valid \in SUBSET Instants

(* A round leaves well-formed outputs, none of them smaller than before.     *)
LEMMA RoundShaped ==
    ASSUME NEW rules \in SUBSET DOMAIN RuleVersions, NEW facts, NEW ref, NEW was,
           \A k \in Facts : was[k] \in SUBSET Instants,
           NEW own \in SUBSET rules, NEW st, Shaped(st, rules, facts, ref)
    PROVE  /\ Shaped(Round(st, own, ref, was), rules, facts, ref)
           /\ Keys(st.out) \subseteq Keys(Round(st, own, ref, was).out)
           /\ \A o \in Round(st, own, ref, was).out : \A p \in st.out : o.key = p.key => p.valid \subseteq o.valid
<1>1. CASE st.delta = {}
  <2>1. Round(st, own, ref, was) = st
    BY <1>1 DEF Round
  <2>2. \A o \in st.out : \A p \in st.out : o.key = p.key => p.valid \subseteq o.valid
    BY DEF Shaped
  <2> QED
    BY <2>1, <2>2
<1>2. CASE st.delta # {}
  <2>1. PICK rows : rows = RowsFor(own, st.facts, st.delta)
    OBVIOUS
  <2>2. PICK next, fresh :
               /\ next = Merged(st.out, rows, was) /\ fresh = Renewed(st.out, next)
               /\ Round(st, own, ref, was) =
                    [facts |-> {f \in st.facts : f.ref \notin {ref[o.key] : o \in fresh}} \cup
                               {[ref |-> ref[o.key], fact |-> o.key, valid |-> o.valid] : o \in fresh},
                     out |-> next, delta |-> {ref[o.key] : o \in fresh}]
    BY <1>2, <2>1, RoundIs
  <2>3. PICK st2 : st2 = Round(st, own, ref, was)
    OBVIOUS
  <2>4. /\ st2.out = next
        /\ \A f \in st2.facts : f \in st.facts \/ \E o \in fresh : f = [ref |-> ref[o.key], fact |-> o.key, valid |-> o.valid]
    BY <2>2, <2>3
  <2>5. next = {MergeOf(k, st.out, rows, was) : k \in Keys(st.out) \cup Keys(rows)}
    BY <2>2, MergedIs
  <2>6. \A k : /\ MergeOf(k, st.out, rows, was).key = k
               /\ MergeOf(k, st.out, rows, was).valid = Hull(Gathered(k, st.out, rows, was))
               /\ MergeOf(k, st.out, rows, was).supports =
                    (UNION {o.supports : o \in {p \in st.out : p.key = k}}) \cup {r.support : r \in {q \in rows : q.key = k}}
    BY DEF MergeOf
  <2>7. \A o \in next : o.key \in Keys(st.out) \cup Keys(rows) /\ o = MergeOf(o.key, st.out, rows, was)
    BY <2>5, <2>6
  <2>8. Keys(next) = Keys(st.out) \cup Keys(rows)
    <3>1. \A k \in Keys(st.out) \cup Keys(rows) : k \in Keys(next)
      BY <2>5, <2>6 DEF Keys
    <3> QED
      BY <2>7, <3>1 DEF Keys
  <2>9. PICK R : R = RefsOf(facts, ref, st.out)
    OBVIOUS
  <2>10. PICK R2 : R2 = RefsOf(facts, ref, next)
    OBVIOUS
  <2>11. R \subseteq R2
    BY <2>8, <2>9, <2>10 DEF RefsOf
  <2>12. \A r \in rows : /\ r.key \in Facts /\ r.valid \in SUBSET Instants /\ r.valid # {}
                         /\ Supported(r.support, rules, R2)
    <3>1. TAKE r \in rows
    <3>2. PICK v \in own : r \in Rows(v, st.facts, st.delta)
      BY <2>1 DEF RowsFor
    <3>3. PICK s : Matches(v, s, st.facts) /\ r = RowOf(v, s)
      BY <3>2, RowsAre
    <3>4. v \in DOMAIN RuleVersions
      OBVIOUS
    <3>5. r.key \in Facts /\ r.valid \in SUBSET Instants /\ r.valid # {}
      BY <3>3, <3>4, RulesAssumption DEF RowOf, Matches, Shared, Ru
    <3>6. PICK refs : refs = [i \in DOMAIN Ru(v).body |-> s[i].ref]
      OBVIOUS
    <3>7. r.support = <<v, refs>>
      BY <3>3, <3>6 DEF RowOf
    <3>8. \A i \in DOMAIN Ru(v).body : refs[i] \in R2
      BY <2>9, <2>11, <3>3, <3>6 DEF Matches, Shaped
    <3>9. refs = [i \in DOMAIN Ru(v).body |-> refs[i]]
      BY <3>6
    <3>10. Supported(r.support, rules, R2)
      BY <3>7, <3>8, <3>9 DEF Supported
    <3> QED
      BY <3>5, <3>10
  <2>13. \A p \in st.out : Output(p, rules, R)
    BY <2>9 DEF Shaped
  <2>14. \A s : Supported(s, rules, R) => Supported(s, rules, R2)
    BY <2>11 DEF Supported
  <2>15. ASSUME NEW o \in next PROVE Output(o, rules, R2) /\ \A p \in st.out : o.key = p.key => p.valid \subseteq o.valid
    <3>1. PICK k : k = o.key
      OBVIOUS
    <3>2. PICK G : G = Gathered(k, st.out, rows, was)
      OBVIOUS
    <3>3. o.valid = Hull(G)
      BY <2>6, <2>7, <3>1, <3>2
    <3>4. o.supports = (UNION {p.supports : p \in {q \in st.out : q.key = k}}) \cup {r.support : r \in {q \in rows : q.key = k}}
      BY <2>6, <2>7, <3>1
    <3>5. (\E p \in st.out : p.key = k) \/ (\E r \in rows : r.key = k)
      BY <2>7, <3>1 DEF Keys
    <3>6. k \in Facts
      BY <2>12, <2>13, <3>5 DEF Output
    <3>7. \A x : x \in G <=> \/ x \in was[k]
                             \/ \E p \in st.out : p.key = k /\ x \in p.valid
                             \/ \E r \in rows : r.key = k /\ x \in r.valid
      <4>1. PICK U : U = UNION {o2.valid : o2 \in {p \in st.out : p.key = k}}
        OBVIOUS
      <4>2. PICK W : W = UNION {o2.valid : o2 \in {p \in rows : p.key = k}}
        OBVIOUS
      <4>3. G = was[k] \cup U \cup W
        BY <3>2, <4>1, <4>2 DEF Gathered
      <4>4. \A x : x \in U <=> \E p \in st.out : p.key = k /\ x \in p.valid
        BY <4>1, Gathers
      <4>5. \A x : x \in W <=> \E p \in rows : p.key = k /\ x \in p.valid
        BY <4>2, Gathers
      <4> QED
        BY <4>3, <4>4, <4>5
    <3>8. G \in SUBSET Instants
      BY <2>12, <2>13, <3>6, <3>7 DEF Output
    <3>9. G # {}
      BY <2>12, <2>13, <3>5, <3>7 DEF Output
    <3>10. G \subseteq Hull(G) /\ Hull(G) \subseteq Instants /\ Hull(Hull(G)) = Hull(G)
      BY <3>8, <3>9, HullIs
    <3>15. \A s : s \in o.supports <=> \/ \E p \in st.out : p.key = k /\ s \in p.supports
                                       \/ \E r \in rows : r.key = k /\ s = r.support
      <4>1. PICK U : U = UNION {o2.supports : o2 \in {p \in st.out : p.key = k}}
        OBVIOUS
      <4>2. PICK W : W = {r.support : r \in {p \in rows : p.key = k}}
        OBVIOUS
      <4>3. o.supports = U \cup W
        BY <3>4, <4>1, <4>2
      <4>4. \A x : x \in U <=> \E p \in st.out : p.key = k /\ x \in p.supports
        BY <4>1, Gathers
      <4>5. \A x : x \in W <=> \E p \in rows : p.key = k /\ x = p.support
        BY <4>2, Gathers
      <4> QED
        BY <4>3, <4>4, <4>5
    <3>11. o.supports # {}
      BY <2>13, <3>5, <3>15 DEF Output
    <3>12. \A s \in o.supports : Supported(s, rules, R2)
      BY <2>12, <2>13, <2>14, <3>15 DEF Output
    <3>13. Output(o, rules, R2)
      BY <3>1, <3>3, <3>6, <3>9, <3>10, <3>11, <3>12 DEF Output
    <3>14. \A p \in st.out : o.key = p.key => p.valid \subseteq o.valid
      BY <3>1, <3>3, <3>7, <3>10
    <3> QED
      BY <3>13, <3>14
  <2>16. \A o, p \in next : o.key = p.key => o = p
    BY <2>7
  <2>17. ASSUME NEW f \in st2.facts PROVE f.ref \in R2 /\ f.fact \in Facts /\ f.valid \in SUBSET Instants
    <3>1. CASE f \in st.facts
      BY <2>9, <2>11, <3>1 DEF Shaped
    <3>2. CASE f \notin st.facts
      <4>1. PICK o \in fresh : f = [ref |-> ref[o.key], fact |-> o.key, valid |-> o.valid]
        BY <2>4, <3>2
      <4>2. o \in next
        BY <2>2, <4>1 DEF Renewed
      <4>3. f.ref \in R2
        BY <2>10, <4>1, <4>2 DEF RefsOf, Keys
      <4>4. f.fact = o.key /\ f.valid = o.valid
        BY <4>1
      <4> QED
        BY <2>15, <4>2, <4>3, <4>4 DEF Output
    <3> QED
      BY <3>1, <3>2
  <2>19. st2 = [facts |-> st2.facts, out |-> st2.out, delta |-> st2.delta]
    BY <2>2, <2>3
  <2>18. Shaped(st2, rules, facts, ref)
    BY <2>4, <2>10, <2>15, <2>16, <2>17, <2>19 DEF Shaped
  <2> QED
    BY <2>3, <2>4, <2>8, <2>15, <2>18
<1> QED
  BY <1>1, <1>2

RoundDo(st, i, own, ref, was) == Round(st, own, ref, was)
SaturateDo(st, comp, rules, ref, was) == Saturated(st, comp, rules, ref, was)
ShapedGood(st, n, k) == Shaped(st, k.rules, k.facts, k.ref)
Shaping == INSTANCE Folding WITH Do <- RoundDo, Good <- ShapedGood
Lasting == INSTANCE Folding WITH Do <- SaturateDo, Good <- ShapedGood

(* So do all the rounds of a component.                                      *)
LEMMA SaturatedShaped ==
    ASSUME NEW rules \in SUBSET DOMAIN RuleVersions, NEW facts, NEW ref, NEW was,
           \A k \in Facts : was[k] \in SUBSET Instants,
           NEW comp, NEW st, Shaped(st, rules, facts, ref)
    PROVE  Shaped(Saturated(st, comp, rules, ref, was), rules, facts, ref)
<1>1. PICK own : own = Own(rules, comp)
  OBVIOUS
<1>2. own \in SUBSET rules
  BY <1>1 DEF Own
<1>3. PICK first : first = [st EXCEPT !.delta = {f.ref : f \in st.facts}]
  OBVIOUS
<1>4. first.facts = st.facts /\ first.out = st.out /\ first = [facts |-> first.facts, out |-> first.out, delta |-> first.delta]
  BY <1>3 DEF Shaped
<1>5. PICK k : k = [rules |-> rules, facts |-> facts, ref |-> ref]
  OBVIOUS
<1>6. PICK s : s = Numbers(MaxRounds(comp))
  OBVIOUS
<1>7. PICK last : last = Shaping!Run(first, s, own, ref, was)
  OBVIOUS
<1>8. Saturated(st, comp, rules, ref, was) = last
  BY <1>1, <1>3, <1>6, <1>7 DEF Saturated, Fold, Shaping!Run, RoundDo
<1>9. ShapedGood(first, 0, k)
  BY <1>4, <1>5 DEF ShapedGood, Shaped
<1>10. \A x : \A i \in 1..Len(s) : ShapedGood(x, i - 1, k) => ShapedGood(RoundDo(x, s[i], own, ref, was), i, k)
  BY <1>2, <1>5, RoundShaped DEF RoundDo, ShapedGood
<1>11. ShapedGood(last, IF Len(s) \in Nat THEN Len(s) ELSE 0, k)
  BY <1>7, <1>9, <1>10, Shaping!Runs
<1> QED
  BY <1>5, <1>8, <1>11 DEF ShapedGood

(* Well-formed outputs of rules over facts.                                 *)
Formed(out, rules, facts, ref) ==
    /\ \A o \in out : Output(o, rules, RefsOf(facts, ref, out))
    /\ \A o, p \in out : o.key = p.key => o = p

(* Whatever a program is evaluated from, its outputs are well formed.       *)
LEMMA EvaluatedShaped ==
    ASSUME NEW rules \in SUBSET DOMAIN RuleVersions, NEW facts, NEW ref, NEW was,
           \A k \in Facts : was[k] \in SUBSET Instants,
           \A f \in facts : f.fact \in Facts /\ f.valid \in SUBSET Instants,
           NEW out, out = Evaluated(rules, facts, ref, was)
    PROVE  Formed(out, rules, facts, ref)
<1>1. PICK first : first = [facts |-> facts, out |-> {}, delta |-> {}]
  OBVIOUS
<1>2. PICK k : k = [rules |-> rules, facts |-> facts, ref |-> ref]
  OBVIOUS
<1>3. PICK s : s = Strata(rules)
  OBVIOUS
<1>4. PICK last : last = Lasting!Run(first, s, rules, ref, was)
  OBVIOUS
<1>5. out = last.out
  BY <1>1, <1>3, <1>4 DEF Evaluated, Fold, Lasting!Run, SaturateDo
<1>6. ShapedGood(first, 0, k)
  BY <1>1, <1>2 DEF ShapedGood, Shaped, RefsOf
<1>7. \A x : \A i \in 1..Len(s) : ShapedGood(x, i - 1, k) => ShapedGood(SaturateDo(x, s[i], rules, ref, was), i, k)
  BY <1>2, SaturatedShaped DEF SaturateDo, ShapedGood
<1>8. ShapedGood(last, IF Len(s) \in Nat THEN Len(s) ELSE 0, k)
  BY <1>4, <1>6, <1>7, Lasting!Runs
<1>9. Shaped(last, rules, facts, ref)
  BY <1>2, <1>8 DEF ShapedGood
<1> QED
  BY <1>5, <1>9 DEF Shaped, Formed

(* In a maintenance pass the outputs are facts of their own.                *)
Naming == [k \in Facts |-> <<"derived", k>>]
Fromnew == [k \in Facts |-> {}]
Believed(st) == {f.fact : f \in st.facts}
Holding(facts, t) ==
    \A f \in facts : f.ref[1] = "version" /\ f.fact \in Facts /\ f.valid \in SUBSET Instants /\ t \in f.valid
Grounded(st, facts, t) ==
    /\ facts \subseteq st.facts
    /\ \A f \in st.facts : t \in f.valid /\ (f \in facts \/ (f.ref = <<"derived", f.fact>> /\ f.fact \in Keys(st.out)))
    /\ \A o \in st.out : t \in o.valid /\ o.key \in Believed(st)

(* What is believed is what the base states and what was concluded.          *)
LEMMA BelievedIs ==
    ASSUME NEW st, NEW facts, NEW t, Grounded(st, facts, t)
    PROVE  Believed(st) = {f.fact : f \in facts} \cup Keys(st.out)
<1>1. \A f \in st.facts : f.fact \in {g.fact : g \in facts} \cup Keys(st.out)
  BY DEF Grounded
<1>2. \A f \in facts : f.fact \in Believed(st)
  BY DEF Grounded, Believed
<1>3. \A k \in Keys(st.out) : k \in Believed(st)
  BY DEF Grounded, Keys
<1> QED
  BY <1>1, <1>2, <1>3 DEF Believed

(* A rule applies where its body is believed and what it negates is not.    *)
LEMMA MatchFires ==
    ASSUME NEW rules \in SUBSET DOMAIN RuleVersions, NEW v \in rules, NEW facts, NEW t \in Instants, NEW st,
           Grounded(st, facts, t), NEW s, Matches(v, s, st.facts)
    PROVE  t \in Shared(v, s) /\ Range(Ru(v).body) \subseteq Believed(st) /\ Ru(v).neg \cap Believed(st) = {}
<1>1. \A i \in DOMAIN Ru(v).body : s[i] \in st.facts /\ t \in s[i].valid /\ s[i].fact = Ru(v).body[i]
  BY DEF Matches, Grounded
<1>2. t \in Shared(v, s)
  BY <1>1 DEF Shared
<1>3. Range(Ru(v).body) \subseteq Believed(st)
  BY <1>1 DEF Range, Believed
<1>4. ASSUME NEW f \in st.facts, f.fact \in Ru(v).neg PROVE FALSE
  <2>1. f.valid \cap Shared(v, s) = {}
    BY <1>4 DEF Matches, Unblocked
  <2>2. t \in f.valid
    BY DEF Grounded
  <2> QED
    BY <1>2, <2>1, <2>2
<1> QED
  BY <1>2, <1>3, <1>4 DEF Believed

(* Where all that a rule asks for is believed, it has a match.               *)
LEMMA FiresMatch ==
    ASSUME NEW rules \in SUBSET DOMAIN RuleVersions, NEW v \in rules, NEW facts, NEW t \in Instants, NEW st,
           Grounded(st, facts, t), Range(Ru(v).body) \subseteq Believed(st), Ru(v).neg \cap Believed(st) = {}
    PROVE  \E s : Matches(v, s, st.facts)
<1>1. PICK D : D = DOMAIN Ru(v).body
  OBVIOUS
<1>2. \A i \in D : \E f \in st.facts : f.fact = Ru(v).body[i]
  BY <1>1 DEF Range, Believed
<1>3. PICK s : s = [i \in D |-> CHOOSE f \in st.facts : f.fact = Ru(v).body[i]]
  OBVIOUS
<1>4. \A i \in D : s[i] \in st.facts /\ s[i].fact = Ru(v).body[i]
  BY <1>2, <1>3
<1>5. s \in [D -> st.facts]
  BY <1>3, <1>4
<1>6. \A i \in D : t \in s[i].valid
  BY <1>4 DEF Grounded
<1>7. t \in Shared(v, s)
  BY <1>1, <1>6 DEF Shared
<1>8. Unblocked(v, Shared(v, s), st.facts)
  BY DEF Unblocked, Believed
<1> QED
  BY <1>1, <1>4, <1>5, <1>7, <1>8 DEF Matches

(* A round adds what a rule gives that uses something new, and its keys     *)
(* are believed from then on.                                               *)
Pushed(st, st2, own, facts, t) ==
    /\ Grounded(st2, facts, t) /\ Keys(st.out) \subseteq Keys(st2.out)
    /\ \A k \in Keys(st2.out) \ Keys(st.out) :
           \E v \in own : Ru(v).head = k /\ Range(Ru(v).body) \subseteq Believed(st) /\ Ru(v).neg \cap Believed(st) = {}
    /\ \A v \in own : \A s : Matches(v, s, st.facts) /\ (\E i \in DOMAIN Ru(v).body : s[i].ref \in st.delta) =>
           Ru(v).head \in Keys(st2.out)
    /\ \A f \in st2.facts : f \in st.facts \/ f.ref \in st2.delta
    /\ \A o \in st2.out : (\E p \in st.out : p.key = o.key /\ p.valid = o.valid) \/ st2.delta # {}
    /\ st2.delta # {} => \E o \in st2.out : (~\E p \in st.out : p.key = o.key /\ p.valid = o.valid)
                                            /\ \E v \in own : Ru(v).head = o.key

(* A round concludes what its rules allow at the instant, and nothing else.  *)
LEMMA RoundAdvances ==
    ASSUME NEW rules \in SUBSET DOMAIN RuleVersions, NEW t \in Instants, NEW facts, Holding(facts, t),
           NEW own \in SUBSET rules, NEW st, Shaped(st, rules, facts, Naming), Grounded(st, facts, t), st.delta # {},
           NEW st2, st2 = Round(st, own, Naming, Fromnew)
    PROVE  Pushed(st, st2, own, facts, t)
<1>1. PICK rows : rows = RowsFor(own, st.facts, st.delta)
  OBVIOUS
<1>2. PICK next, fresh :
               /\ next = Merged(st.out, rows, Fromnew) /\ fresh = Renewed(st.out, next)
               /\ Round(st, own, Naming, Fromnew) =
                    [facts |-> {f \in st.facts : f.ref \notin {Naming[o.key] : o \in fresh}} \cup
                               {[ref |-> Naming[o.key], fact |-> o.key, valid |-> o.valid] : o \in fresh},
                     out |-> next, delta |-> {Naming[o.key] : o \in fresh}]
  BY <1>1, RoundIs
<1>3. PICK D : D = {Naming[o.key] : o \in fresh}
  OBVIOUS
<1>4. /\ st2.out = next /\ st2.delta = D
      /\ st2.facts = {f \in st.facts : f.ref \notin D} \cup
                     {[ref |-> Naming[o.key], fact |-> o.key, valid |-> o.valid] : o \in fresh}
  BY <1>2, <1>3
<1>5. \A k \in Facts : Fromnew[k] \in SUBSET Instants /\ Naming[k] = <<"derived", k>>
  BY DEF Fromnew, Naming
<1>6. /\ Shaped(st2, rules, facts, Naming) /\ Keys(st.out) \subseteq Keys(st2.out)
      /\ \A o \in next : \A p \in st.out : o.key = p.key => p.valid \subseteq o.valid
  BY <1>4, <1>5, RoundShaped
<1>7. \A o \in next : o.key \in Facts /\ o.valid \in SUBSET Instants /\ o.valid # {}
  BY <1>4, <1>6 DEF Shaped, Output
<1>8. \A o \in fresh : o \in next /\ o.key \in Facts /\ Naming[o.key] = <<"derived", o.key>>
  BY <1>2, <1>5, <1>7 DEF Renewed
<1>9. next = {MergeOf(k, st.out, rows, Fromnew) : k \in Keys(st.out) \cup Keys(rows)}
  BY <1>2, MergedIs
<1>10. \A k : /\ MergeOf(k, st.out, rows, Fromnew).key = k
              /\ MergeOf(k, st.out, rows, Fromnew).valid = Hull(Gathered(k, st.out, rows, Fromnew))
  BY DEF MergeOf
<1>11. \A o \in next : o.key \in Keys(st.out) \cup Keys(rows) /\ o.valid = Hull(Gathered(o.key, st.out, rows, Fromnew))
  BY <1>9, <1>10
<1>12. Keys(rows) \subseteq Keys(next)
  BY <1>9, <1>10 DEF Keys
<1>13. \A r \in rows : \E v \in own : \E s : Matches(v, s, st.facts) /\ r = RowOf(v, s)
  <2>1. TAKE r \in rows
  <2>2. PICK v \in own : r \in Rows(v, st.facts, st.delta)
    BY <1>1 DEF RowsFor
  <2> QED
    BY <2>2, RowsAre
<1>14. \A v \in own : \A s : Matches(v, s, st.facts) /\ (\E i \in DOMAIN Ru(v).body : s[i].ref \in st.delta) => RowOf(v, s) \in rows
  <2>4. TAKE v \in own
  <2>1. TAKE s
  <2>2. HAVE Matches(v, s, st.facts) /\ (\E i \in DOMAIN Ru(v).body : s[i].ref \in st.delta)
  <2>3. RowOf(v, s) \in Rows(v, st.facts, st.delta)
    BY <2>2, RowsAre
  <2> QED
    BY <1>1, <2>3 DEF RowsFor
<1>15. \A k : \A x : x \in Gathered(k, st.out, rows, Fromnew) <=>
           \/ x \in Fromnew[k]
           \/ \E p \in st.out : p.key = k /\ x \in p.valid
           \/ \E r \in rows : r.key = k /\ x \in r.valid
  <2>1. TAKE k
  <2>2. PICK U : U = UNION {o.valid : o \in {p \in st.out : p.key = k}}
    OBVIOUS
  <2>3. PICK W : W = UNION {r.valid : r \in {q \in rows : q.key = k}}
    OBVIOUS
  <2>4. \A x : x \in U <=> \E p \in st.out : p.key = k /\ x \in p.valid
    BY <2>2, Gathers
  <2>5. \A x : x \in W <=> \E p \in rows : p.key = k /\ x \in p.valid
    BY <2>3, Gathers
  <2>6. Gathered(k, st.out, rows, Fromnew) = Fromnew[k] \cup U \cup W
    BY <2>2, <2>3 DEF Gathered
  <2> QED
    BY <2>4, <2>5, <2>6
<1>16. \A v \in own : \A s : Matches(v, s, st.facts) => t \in RowOf(v, s).valid
  BY MatchFires DEF RowOf
<1>17. \A o \in next : t \in o.valid
  <2>1. TAKE o \in next
  <2>2. PICK G : G = Gathered(o.key, st.out, rows, Fromnew)
    OBVIOUS
  <2>3. t \in G
    <3>1. CASE \E p \in st.out : p.key = o.key
      BY <1>15, <2>2, <3>1 DEF Grounded
    <3>2. CASE \E r \in rows : r.key = o.key
      BY <1>13, <1>15, <1>16, <2>2, <3>2
    <3> QED
      BY <1>11, <3>1, <3>2 DEF Keys
  <2>4. G \in SUBSET Instants
    <3>1. \A p \in st.out : p.valid \in SUBSET Instants
      BY DEF Shaped, Output
    <3>2. \A r \in rows : r.valid \in SUBSET Instants
      BY <1>13 DEF RowOf, Shared
    <3>3. Fromnew[o.key] \in SUBSET Instants
      BY <1>5, <1>7
    <3> QED
      BY <1>15, <2>2, <3>1, <3>2, <3>3
  <2>5. o.valid = Hull(G)
    BY <1>11, <2>2
  <2> QED
    BY <2>3, <2>4, <2>5, HullIs
<1>18. \A o \in fresh : [ref |-> Naming[o.key], fact |-> o.key, valid |-> o.valid] \in st2.facts
  BY <1>4
<1>19. facts \subseteq st2.facts
  <2>1. \A f \in facts : f \in st.facts /\ f.ref[1] = "version"
    BY DEF Grounded, Holding
  <2>2. \A d \in D : d[1] = "derived"
    BY <1>3, <1>8
  <2> QED
    BY <1>4, <2>1, <2>2
<1>20. ASSUME NEW f \in st2.facts
       PROVE  t \in f.valid /\ (f \in facts \/ (f.ref = <<"derived", f.fact>> /\ f.fact \in Keys(next)))
  <2>1. CASE f \in st.facts
    BY <1>4, <1>6, <2>1 DEF Grounded
  <2>2. CASE f \notin st.facts
    <3>1. PICK o \in fresh : f = [ref |-> Naming[o.key], fact |-> o.key, valid |-> o.valid]
      BY <1>4, <2>2
    <3>2. f.ref = <<"derived", o.key>> /\ f.fact = o.key /\ f.valid = o.valid /\ o \in next
      BY <1>8, <3>1
    <3> QED
      BY <1>17, <3>2 DEF Keys
  <2> QED
    BY <2>1, <2>2
<1>21. ASSUME NEW o \in next PROVE o.key \in Believed(st2)
  <2>1. CASE \E p \in fresh : p.key = o.key
    <3>1. PICK p \in fresh : p.key = o.key
      BY <2>1
    <3>2. PICK f \in st2.facts : f = [ref |-> Naming[p.key], fact |-> p.key, valid |-> p.valid]
      BY <1>18
    <3>3. f.fact = o.key
      BY <3>1, <3>2
    <3> QED
      BY <3>3 DEF Believed
  <2>2. CASE ~ \E p \in fresh : p.key = o.key
    <3>1. PICK p \in st.out : p.key = o.key
      BY <1>2, <2>2 DEF Renewed
    <3>2. PICK f \in st.facts : f.fact = o.key
      BY <3>1 DEF Grounded, Believed
    <3>3. f.ref \notin D
      <4>1. CASE f \in facts
        <5>1. \A q \in fresh : Naming[q.key][1] = "derived"
          BY <1>8
        <5>2. f.ref[1] = "version"
          BY <4>1 DEF Holding
        <5> QED
          BY <1>3, <5>1, <5>2
      <4>2. CASE f \notin facts
        <5>1. f.ref = <<"derived", o.key>>
          BY <3>2, <4>2 DEF Grounded
        <5>2. ASSUME NEW q \in fresh PROVE Naming[q.key] # f.ref
          BY <1>8, <2>2, <5>1
        <5> QED
          BY <1>3, <5>2
      <4> QED
        BY <4>1, <4>2
    <3>4. f \in st2.facts
      BY <1>4, <3>3
    <3> QED
      BY <3>2, <3>4 DEF Believed
  <2> QED
    BY <2>1, <2>2
<1>22. Grounded(st2, facts, t)
  BY <1>4, <1>17, <1>19, <1>20, <1>21 DEF Grounded
<1>23. \A v : \A s : RowOf(v, s).key = Ru(v).head
  BY DEF RowOf
<1>24. ASSUME NEW k \in Keys(rows)
       PROVE  \E v \in own : Ru(v).head = k /\ Range(Ru(v).body) \subseteq Believed(st) /\ Ru(v).neg \cap Believed(st) = {}
  <2>1. PICK r \in rows : r.key = k
    BY DEF Keys
  <2>4. PICK v \in own : \E s : Matches(v, s, st.facts) /\ r = RowOf(v, s)
    BY <1>13
  <2>2. PICK s : Matches(v, s, st.facts) /\ r = RowOf(v, s)
    BY <2>4
  <2>3. Range(Ru(v).body) \subseteq Believed(st) /\ Ru(v).neg \cap Believed(st) = {}
    BY <2>2, MatchFires
  <2> QED
    BY <1>23, <2>1, <2>2, <2>3
<1>25. \A k \in Keys(next) \ Keys(st.out) : k \in Keys(rows)
  BY <1>11 DEF Keys
<1>26. \A v \in own : \A s : Matches(v, s, st.facts) /\ (\E i \in DOMAIN Ru(v).body : s[i].ref \in st.delta) =>
           Ru(v).head \in Keys(next)
  BY <1>12, <1>14, <1>23 DEF Keys
<1>27. \A f \in st2.facts : f \in st.facts \/ f.ref \in D
  BY <1>3, <1>4
<1>28. \A o \in next : (\E p \in st.out : p.key = o.key /\ p.valid = o.valid) \/ D # {}
  BY <1>2, <1>3 DEF Renewed
<1>29. ASSUME D # {}
       PROVE  \E o \in next : (~\E p \in st.out : p.key = o.key /\ p.valid = o.valid) /\ \E v \in own : Ru(v).head = o.key
  <2>1. PICK o \in fresh : TRUE
    BY <1>3, <1>29
  <2>2. o \in next /\ ~\E p \in st.out : p.key = o.key /\ p.valid = o.valid
    BY <1>2 DEF Renewed
  <2>3. CASE o.key \in Keys(rows)
    BY <1>24, <2>2, <2>3
  <2>4. CASE o.key \notin Keys(rows)
    <3>1. PICK p \in st.out : p.key = o.key
      BY <1>11, <2>2, <2>4 DEF Keys
    <3>2. PICK G : G = Gathered(o.key, st.out, rows, Fromnew)
      OBVIOUS
    <3>3. Fromnew[o.key] = {}
      BY <1>7, <2>2 DEF Fromnew
    <3>4. \A q \in st.out : q.key = o.key => q = p
      BY <3>1 DEF Shaped
    <3>5. ~ \E r \in rows : r.key = o.key
      BY <2>4 DEF Keys
    <3>6. \A x : x \in G <=> x \in p.valid
      BY <1>15, <3>1, <3>2, <3>3, <3>4, <3>5
    <3>7. G = p.valid
      BY <3>6
    <3>8. Hull(p.valid) = p.valid
      BY DEF Shaped, Output
    <3> QED
      BY <1>11, <2>2, <3>1, <3>2, <3>7, <3>8
  <2> QED
    BY <2>3, <2>4
<1> QED
  BY <1>4, <1>6, <1>22, <1>24, <1>25, <1>26, <1>27, <1>28, <1>29 DEF Pushed

(* The strata up to one, and what the rules in them look at.                 *)
LEMMA UptoIs ==
    ASSUME NEW strata, NEW rules, Layered(strata, rules), NEW n \in DOMAIN strata
    PROVE  /\ n \in Nat \ {0} /\ Upto(strata, n) = Upto(strata, n - 1) \cup strata[n]
           /\ Upto(strata, n - 1) \cap strata[n] = {}
           /\ \A v \in rules : Ru(v).head \in Upto(strata, n) => Ru(v).neg \subseteq Upto(strata, n - 1)
           /\ \A v \in rules : Ru(v).head \in Upto(strata, n - 1) => Range(Ru(v).body) \subseteq Upto(strata, n - 1)
<1>1. DOMAIN strata = 1..Len(strata) /\ Len(strata) \in Nat
  BY DEF Layered
<1>2. n \in Nat \ {0}
  BY <1>1
<1>3. \A j : j \in 1..n <=> j \in 1..(n - 1) \/ j = n
  BY <1>2
<1>4. \A j \in 1..n : j \in DOMAIN strata
  BY <1>1
<1>5. Upto(strata, n) = Upto(strata, n - 1) \cup strata[n]
  BY <1>3 DEF Upto
<1>6. Upto(strata, n - 1) \cap strata[n] = {}
  <2>1. ASSUME NEW j \in 1..(n - 1) PROVE strata[j] \cap strata[n] = {}
    BY <1>1, <1>2 DEF Layered
  <2>2. ASSUME NEW x \in Upto(strata, n - 1), x \in strata[n] PROVE FALSE
    <3>1. PICK j \in 1..(n - 1) : x \in strata[j]
      BY DEF Upto
    <3> QED
      BY <2>1, <2>2, <3>1
  <2> QED
    BY <2>2
<1>7. ASSUME NEW j \in DOMAIN strata, NEW v \in rules, Ru(v).head \in strata[j]
      PROVE  /\ \A f \in Range(Ru(v).body) : \E i \in 1..j : f \in strata[i]
             /\ \A f \in Ru(v).neg : \E i \in 1..(j - 1) : f \in strata[i]
  <2>1. Range(Ru(v).body) \subseteq Upto(strata, j) /\ Ru(v).neg \subseteq Upto(strata, j - 1)
    BY <1>7 DEF Layered
  <2> QED
    BY <2>1 DEF Upto
<1>8. ASSUME NEW v \in rules, Ru(v).head \in Upto(strata, n) PROVE Ru(v).neg \subseteq Upto(strata, n - 1)
  <2>1. PICK j \in 1..n : Ru(v).head \in strata[j]
    BY <1>8 DEF Upto
  <2>2. \A i \in 1..(j - 1) : i \in 1..(n - 1)
    BY <1>2
  <2>3. \A f \in Ru(v).neg : \E i \in 1..(j - 1) : f \in strata[i]
    BY <1>4, <1>7, <2>1
  <2> QED
    BY <2>2, <2>3 DEF Upto
<1>9. ASSUME NEW v \in rules, Ru(v).head \in Upto(strata, n - 1) PROVE Range(Ru(v).body) \subseteq Upto(strata, n - 1)
  <2>1. PICK j \in 1..(n - 1) : Ru(v).head \in strata[j]
    BY <1>9 DEF Upto
  <2>2. j \in DOMAIN strata /\ \A i \in 1..j : i \in 1..(n - 1)
    BY <1>2, <1>4
  <2>3. \A f \in Range(Ru(v).body) : \E i \in 1..j : f \in strata[i]
    BY <1>7, <2>1, <2>2
  <2> QED
    BY <2>2, <2>3 DEF Upto
<1> QED
  BY <1>2, <1>5, <1>6, <1>8, <1>9

(* What is believed is the stable model of the rules of the first strata,   *)
(* up to what they still give.                                              *)
OpenRules(rules, strata, n, B) == {v \in rules : Ru(v).head \in Upto(strata, n) /\ Ru(v).neg \cap B = {}}
Applied(rules, X) == \A v \in rules : Range(Ru(v).body) \subseteq X => Ru(v).head \in X
Founded(K, B, rules) == \A k \in K : \E v \in rules : Ru(v).head = k /\ Range(Ru(v).body) \subseteq B
Model(K, B, rules, strata, n, base) ==
    /\ B = base \cup K /\ K \subseteq Upto(strata, n)
    /\ Founded(K, B, OpenRules(rules, strata, n, B))
    /\ \A X : base \subseteq X /\ Applied(OpenRules(rules, strata, n, B), X) => B \subseteq X
Complete(K, B, rules, strata, n) ==
    \A v \in OpenRules(rules, strata, n, B) : Range(Ru(v).body) \subseteq B => Ru(v).head \in K

(* Supported conclusions of a stratum keep a partial model one.              *)
LEMMA ModelGrows ==
    ASSUME NEW strata, NEW rules, Layered(strata, rules), NEW n \in DOMAIN strata, NEW base, NEW K, NEW B,
           Model(K, B, rules, strata, n, base), Complete(K, B, rules, strata, n - 1),
           NEW K2, K \subseteq K2, NEW B2, B2 = base \cup K2,
           \A k \in K2 \ K : \E v \in Own(rules, strata[n]) :
               Ru(v).head = k /\ Range(Ru(v).body) \subseteq B /\ Ru(v).neg \cap B = {}
    PROVE  Model(K2, B2, rules, strata, n, base) /\ Complete(K2, B2, rules, strata, n - 1)
<1>1. /\ Upto(strata, n) = Upto(strata, n - 1) \cup strata[n] /\ Upto(strata, n - 1) \cap strata[n] = {}
      /\ \A v \in rules : Ru(v).head \in Upto(strata, n) => Ru(v).neg \subseteq Upto(strata, n - 1)
      /\ \A v \in rules : Ru(v).head \in Upto(strata, n - 1) => Range(Ru(v).body) \subseteq Upto(strata, n - 1)
  BY UptoIs
<1>2. \A v : v \in Own(rules, strata[n]) <=> v \in rules /\ Ru(v).head \in strata[n]
  BY DEF Own
<1>3. \A k \in K2 \ K : k \in strata[n]
  BY <1>2
<1>4. B \subseteq B2 /\ \A b \in B2 : b \in B \/ b \in K2 \ K
  BY DEF Model
<1>5. \A x \in Upto(strata, n - 1) : x \in B2 <=> x \in B
  BY <1>1, <1>3, <1>4
<1>6. \A v \in rules : Ru(v).head \in Upto(strata, n) => (Ru(v).neg \cap B2 = {} <=> Ru(v).neg \cap B = {})
  BY <1>1, <1>5
<1>7. OpenRules(rules, strata, n, B2) = OpenRules(rules, strata, n, B)
  BY <1>6 DEF OpenRules
<1>8. OpenRules(rules, strata, n - 1, B2) = OpenRules(rules, strata, n - 1, B)
  BY <1>1, <1>6 DEF OpenRules
<1>9. PICK O : O = OpenRules(rules, strata, n, B)
  OBVIOUS
<1>10. \A k \in K2 \ K : \E v \in O : Ru(v).head = k /\ Range(Ru(v).body) \subseteq B
  BY <1>1, <1>2, <1>9 DEF OpenRules
<1>11. K2 \subseteq Upto(strata, n)
  BY <1>1, <1>3 DEF Model
<1>12. Founded(K2, B2, O)
  BY <1>4, <1>9, <1>10 DEF Model, Founded
<1>13. ASSUME NEW X, base \subseteq X, Applied(O, X) PROVE B2 \subseteq X
  <2>1. B \subseteq X
    BY <1>9, <1>13 DEF Model
  <2>2. \A k \in K2 \ K : k \in X
    BY <1>10, <1>13, <2>1 DEF Applied
  <2> QED
    BY <1>4, <2>1, <2>2
<1>14. Model(K2, B2, rules, strata, n, base)
  BY <1>7, <1>9, <1>11, <1>12, <1>13 DEF Model
<1>15. ASSUME NEW v \in OpenRules(rules, strata, n - 1, B2), Range(Ru(v).body) \subseteq B2 PROVE Ru(v).head \in K2
  <2>1. v \in OpenRules(rules, strata, n - 1, B) /\ v \in rules /\ Ru(v).head \in Upto(strata, n - 1)
    BY <1>8 DEF OpenRules
  <2>2. Range(Ru(v).body) \subseteq B
    BY <1>1, <1>5, <1>15, <2>1
  <2> QED
    BY <2>1, <2>2 DEF Complete
<1> QED
  BY <1>14, <1>15 DEF Complete

(* Semi-naive evaluation: what uses nothing new has been derived.           *)
Covered(st, own) ==
    \A v \in own : \A s : Matches(v, s, st.facts) /\ (\A i \in DOMAIN Ru(v).body : s[i].ref \notin st.delta) =>
        Ru(v).head \in Keys(st.out)

(* What was not new before a round, the rules have been applied to.          *)
LEMMA CoveredGrows ==
    ASSUME NEW rules \in SUBSET DOMAIN RuleVersions, NEW t \in Instants, NEW facts,
           NEW own \in SUBSET rules, NEW st, Grounded(st, facts, t), Covered(st, own),
           NEW st2, Pushed(st, st2, own, facts, t)
    PROVE  Covered(st2, own)
<1>1. SUFFICES ASSUME NEW v \in own, NEW s, Matches(v, s, st2.facts),
                      \A i \in DOMAIN Ru(v).body : s[i].ref \notin st2.delta
               PROVE  Ru(v).head \in Keys(st2.out)
  BY DEF Covered
<1>2. Believed(st) \subseteq Believed(st2)
  <2>1. Believed(st) = {f.fact : f \in facts} \cup Keys(st.out)
    BY BelievedIs
  <2>2. Grounded(st2, facts, t) /\ Keys(st.out) \subseteq Keys(st2.out)
    BY DEF Pushed
  <2>3. Believed(st2) = {f.fact : f \in facts} \cup Keys(st2.out)
    BY <2>2, BelievedIs
  <2> QED
    BY <2>1, <2>2, <2>3
<1>3. \A i \in DOMAIN Ru(v).body : s[i] \in st.facts
  BY <1>1 DEF Matches, Pushed
<1>4. Ru(v).neg \cap Believed(st2) = {}
  BY <1>1, MatchFires DEF Pushed
<1>5. \A f \in st.facts : f.fact \notin Ru(v).neg
  BY <1>2, <1>4 DEF Believed
<1>6. Matches(v, s, st.facts)
  <2>1. Unblocked(v, Shared(v, s), st.facts)
    BY <1>5 DEF Unblocked
  <2>2. s \in [DOMAIN Ru(v).body -> st.facts]
    BY <1>1, <1>3 DEF Matches
  <2> QED
    BY <1>1, <2>1, <2>2 DEF Matches
<1>7. CASE \E i \in DOMAIN Ru(v).body : s[i].ref \in st.delta
  BY <1>6, <1>7 DEF Pushed
<1>8. CASE \A i \in DOMAIN Ru(v).body : s[i].ref \notin st.delta
  BY <1>6, <1>8 DEF Covered, Pushed
<1> QED
  BY <1>7, <1>8

(* A round that leaves something new has extended what a component says.    *)
Extent(st, comp) == {x \in comp \X Instants : \E o \in st.out : o.key = x[1] /\ x[2] \in o.valid}

(* While something is new a component grows.                                 *)
LEMMA ExtentGrows ==
    ASSUME NEW rules \in SUBSET DOMAIN RuleVersions, NEW t \in Instants, NEW facts, NEW comp \in SUBSET Facts,
           NEW st, Shaped(st, rules, facts, Naming), NEW st2, Pushed(st, st2, Own(rules, comp), facts, t),
           Shaped(st2, rules, facts, Naming), st2.delta # {},
           \A o \in st2.out : \A p \in st.out : o.key = p.key => p.valid \subseteq o.valid
    PROVE  Cardinality(Extent(st2, comp)) >= Cardinality(Extent(st, comp)) + 1
<1>1. PICK o \in st2.out : /\ ~\E p \in st.out : p.key = o.key /\ p.valid = o.valid
                           /\ \E v \in Own(rules, comp) : Ru(v).head = o.key
  BY DEF Pushed
<1>2. o.key \in comp /\ o.valid \in SUBSET Instants /\ o.valid # {}
  BY <1>1 DEF Own, Shaped, Output
<1>3. PICK x \in Instants : x \in o.valid /\ ~\E p \in st.out : p.key = o.key /\ x \in p.valid
  <2>1. CASE \E p \in st.out : p.key = o.key
    <3>1. PICK p \in st.out : p.key = o.key
      BY <2>1
    <3>2. p.valid \subseteq o.valid /\ p.valid # o.valid
      BY <1>1, <3>1
    <3>3. \A q \in st.out : q.key = o.key => q = p
      BY <3>1 DEF Shaped
    <3> QED
      BY <1>2, <3>2, <3>3
  <2>2. CASE ~ \E p \in st.out : p.key = o.key
    BY <1>2, <2>2
  <2> QED
    BY <2>1, <2>2
<1>4. PICK E : E = Extent(st, comp)
  OBVIOUS
<1>5. PICK F : F = Extent(st2, comp)
  OBVIOUS
<1>6. \A p \in st.out : \E q \in st2.out : q.key = p.key
  BY DEF Pushed, Keys
<1>7. E \subseteq F
  BY <1>4, <1>5, <1>6 DEF Extent
<1>8. <<o.key, x>> \in F /\ <<o.key, x>> \notin E
  BY <1>2, <1>3, <1>4, <1>5 DEF Extent
<1>9. IsFiniteSet(comp \X Instants)
  <2>1. IsFiniteSet(comp)
    BY FS_Subset, RulesAssumption
  <2>2. IsFiniteSet(Instants)
    BY InstantsAssumption, FS_Interval
  <2> QED
    BY <2>1, <2>2, FS_Product
<1>10. E \in SUBSET (comp \X Instants) /\ F \in SUBSET (comp \X Instants)
  BY <1>4, <1>5 DEF Extent
<1>11. IsFiniteSet(E) /\ IsFiniteSet(F)
  BY <1>9, <1>10, FS_Subset
<1>12. Cardinality(E \cup {<<o.key, x>>}) = Cardinality(E) + 1
  BY <1>8, <1>11, FS_AddElement
<1>13. E \cup {<<o.key, x>>} \in SUBSET F
  BY <1>7, <1>8
<1>14. Cardinality(E \cup {<<o.key, x>>}) <= Cardinality(F)
  BY <1>11, <1>13, FS_Subset
<1>15. Cardinality(E) \in Nat /\ Cardinality(F) \in Nat
  BY <1>11, FS_CardinalityType
<1> QED
  BY <1>4, <1>5, <1>12, <1>14, <1>15

(* A component has grown as far as it can before its rounds are used up.     *)
LEMMA ExtentBound ==
    ASSUME NEW comp \in SUBSET Facts, NEW st
    PROVE  /\ Cardinality(Extent(st, comp)) \in Nat /\ MaxRounds(comp) \in Nat
           /\ Cardinality(Extent(st, comp)) < MaxRounds(comp)
<1>1. IsFiniteSet(comp)
  BY FS_Subset, RulesAssumption
<1>2. IsFiniteSet(Instants)
  BY InstantsAssumption, FS_Interval
<1>3. PICK c \in Nat : c = Cardinality(comp)
  BY <1>1, FS_CardinalityType
<1>4. PICK i \in Nat : i = Cardinality(Instants)
  BY <1>2, FS_CardinalityType
<1>5. IsFiniteSet(comp \X Instants) /\ Cardinality(comp \X Instants) = c * i
  BY <1>1, <1>2, <1>3, <1>4, FS_Product
<1>6. Extent(st, comp) \in SUBSET (comp \X Instants)
  BY DEF Extent
<1>7. IsFiniteSet(Extent(st, comp)) /\ Cardinality(Extent(st, comp)) <= c * i
  BY <1>5, <1>6, FS_Subset
<1>8. Cardinality(Extent(st, comp)) \in Nat
  BY <1>7, FS_CardinalityType
<1>9. MaxRounds(comp) = c * (i + 1) + 1
  BY <1>3, <1>4 DEF MaxRounds
<1>10. c * (i + 1) = c * i + c /\ c * i \in Nat
  OBVIOUS
<1> QED
  BY <1>7, <1>8, <1>9, <1>10

FactsOf(facts) == {f.fact : f \in facts}
Evaluating(st, rules, strata, n, facts, t) ==
    /\ Shaped(st, rules, facts, Naming) /\ Grounded(st, facts, t)
    /\ Model(Keys(st.out), Believed(st), rules, strata, n, FactsOf(facts))
PassGood(st, i, k) ==
    /\ Evaluating(st, k.rules, k.strata, k.n, k.facts, k.t)
    /\ Complete(Keys(st.out), Believed(st), k.rules, k.strata, k.n - 1)
    /\ Covered(st, Own(k.rules, k.strata[k.n]))
    /\ st.delta = {} \/ Cardinality(Extent(st, k.strata[k.n])) >= i
LayerGood(st, n, k) ==
    /\ Evaluating(st, k.rules, k.strata, n, k.facts, k.t)
    /\ Complete(Keys(st.out), Believed(st), k.rules, k.strata, n)
Passing == INSTANCE Folding WITH Do <- RoundDo, Good <- PassGood
Layering == INSTANCE Folding WITH Do <- SaturateDo, Good <- LayerGood

(* A round keeps what a component has a right to conclude.                   *)
LEMMA PassKeeps ==
    ASSUME NEW rules \in SUBSET DOMAIN RuleVersions, NEW t \in Instants, NEW facts, Holding(facts, t),
           NEW strata, Layered(strata, rules), NEW n \in DOMAIN strata,
           NEW k, k = [rules |-> rules, strata |-> strata, n |-> n, facts |-> facts, t |-> t],
           NEW i \in Nat, i >= 1, NEW st, PassGood(st, i - 1, k)
    PROVE  PassGood(Round(st, Own(rules, strata[n]), Naming, Fromnew), i, k)
<1>1. PICK own : own = Own(rules, strata[n])
  OBVIOUS
<1>2. PICK st2 : st2 = Round(st, own, Naming, Fromnew)
  OBVIOUS
<1>3. k.rules = rules /\ k.strata = strata /\ k.n = n /\ k.facts = facts /\ k.t = t
  OBVIOUS
<1>4. /\ Shaped(st, rules, facts, Naming) /\ Grounded(st, facts, t) /\ Covered(st, own)
      /\ Model(Keys(st.out), Believed(st), rules, strata, n, FactsOf(facts))
      /\ Complete(Keys(st.out), Believed(st), rules, strata, n - 1)
      /\ st.delta = {} \/ Cardinality(Extent(st, strata[n])) >= i - 1
  BY <1>1, <1>3 DEF PassGood, Evaluating
<1>5. CASE st.delta = {}
  <2>1. st2 = st
    BY <1>2, <1>5 DEF Round
  <2> QED
    BY <1>1, <1>2, <1>3, <1>4, <1>5, <2>1 DEF PassGood, Evaluating
<1>6. CASE st.delta # {}
  <2>1. own \in SUBSET rules
    BY <1>1 DEF Own
  <2>2. \A f \in Facts : Fromnew[f] \in SUBSET Instants
    BY DEF Fromnew
  <2>3. /\ Shaped(st2, rules, facts, Naming)
        /\ \A o \in st2.out : \A p \in st.out : o.key = p.key => p.valid \subseteq o.valid
    BY <1>2, <1>4, <2>1, <2>2, RoundShaped
  <2>4. Pushed(st, st2, own, facts, t)
    BY <1>2, <1>4, <1>6, <2>1, RoundAdvances
  <2>5. Grounded(st2, facts, t) /\ Keys(st.out) \subseteq Keys(st2.out)
        /\ \A x \in Keys(st2.out) \ Keys(st.out) : \E v \in own :
               Ru(v).head = x /\ Range(Ru(v).body) \subseteq Believed(st) /\ Ru(v).neg \cap Believed(st) = {}
    BY <2>4 DEF Pushed
  <2>6. Believed(st2) = FactsOf(facts) \cup Keys(st2.out)
    BY <2>5, BelievedIs DEF FactsOf
  <2>7. /\ Model(Keys(st2.out), Believed(st2), rules, strata, n, FactsOf(facts))
        /\ Complete(Keys(st2.out), Believed(st2), rules, strata, n - 1)
    BY <1>1, <1>4, <2>5, <2>6, ModelGrows
  <2>8. Covered(st2, own)
    BY <1>4, <2>1, <2>4, CoveredGrows
  <2>9. strata[n] \in SUBSET Facts
    BY DEF Layered
  <2>10. st2.delta = {} \/ Cardinality(Extent(st2, strata[n])) >= i
    <3>1. SUFFICES ASSUME st2.delta # {} PROVE Cardinality(Extent(st2, strata[n])) >= i
      OBVIOUS
    <3>2. Cardinality(Extent(st2, strata[n])) >= Cardinality(Extent(st, strata[n])) + 1
      BY <1>1, <1>4, <2>3, <2>4, <2>9, <3>1, ExtentGrows
    <3>3. Cardinality(Extent(st2, strata[n])) \in Nat /\ Cardinality(Extent(st, strata[n])) \in Nat
      BY <2>9, ExtentBound
    <3> QED
      BY <1>4, <1>6, <3>2, <3>3
  <2> QED
    BY <1>1, <1>2, <1>3, <2>3, <2>5, <2>7, <2>8, <2>10 DEF PassGood, Evaluating
<1> QED
  BY <1>5, <1>6

(* A component that is saturated completes its stratum.                      *)
LEMMA LayerKeeps ==
    ASSUME NEW rules \in SUBSET DOMAIN RuleVersions, NEW t \in Instants, NEW facts, Holding(facts, t),
           NEW strata, Layered(strata, rules), NEW n \in DOMAIN strata,
           NEW k, k = [rules |-> rules, strata |-> strata, facts |-> facts, t |-> t],
           NEW st, LayerGood(st, n - 1, k)
    PROVE  LayerGood(Saturated(st, strata[n], rules, Naming, Fromnew), n, k)
<1>1. PICK own : own = Own(rules, strata[n])
  OBVIOUS
<1>2. PICK first : first = [st EXCEPT !.delta = {f.ref : f \in st.facts}]
  OBVIOUS
<1>3. PICK q : q = [rules |-> rules, strata |-> strata, n |-> n, facts |-> facts, t |-> t]
  OBVIOUS
<1>4. strata[n] \in SUBSET Facts
  BY DEF Layered
<1>5. PICK m \in Nat : m = MaxRounds(strata[n])
  BY <1>4, ExtentBound
<1>6. PICK last : last = Passing!Run(first, Numbers(m), own, Naming, Fromnew)
  OBVIOUS
<1>7. Saturated(st, strata[n], rules, Naming, Fromnew) = last
  BY <1>1, <1>2, <1>5, <1>6 DEF Saturated, Fold, Passing!Run, RoundDo
<1>8. /\ Shaped(st, rules, facts, Naming) /\ Grounded(st, facts, t)
      /\ Model(Keys(st.out), Believed(st), rules, strata, n - 1, FactsOf(facts))
      /\ Complete(Keys(st.out), Believed(st), rules, strata, n - 1)
  BY DEF LayerGood, Evaluating
<1>9. /\ first.facts = st.facts /\ first.out = st.out /\ first.delta = {f.ref : f \in st.facts}
      /\ first = [facts |-> first.facts, out |-> first.out, delta |-> first.delta]
  BY <1>2, <1>8 DEF Shaped
<1>10. PassGood(first, 0, q)
  <2>1. Shaped(first, rules, facts, Naming)
    BY <1>8, <1>9 DEF Shaped
  <2>2. Grounded(first, facts, t) /\ Believed(first) = Believed(st)
    BY <1>8, <1>9 DEF Grounded, Believed
  <2>3. PICK K, B : K = Keys(st.out) /\ B = Believed(st)
    OBVIOUS
  <2>4. Model(K, B, rules, strata, n, FactsOf(facts))
    <3>1. Upto(strata, n - 1) \subseteq Upto(strata, n)
      BY UptoIs
    <3>2. OpenRules(rules, strata, n - 1, B) \subseteq OpenRules(rules, strata, n, B)
      BY <3>1 DEF OpenRules
    <3>3. \A X : Applied(OpenRules(rules, strata, n, B), X) => Applied(OpenRules(rules, strata, n - 1, B), X)
      BY <3>2 DEF Applied
    <3>4. Founded(K, B, OpenRules(rules, strata, n, B))
      BY <1>8, <2>3, <3>2 DEF Model, Founded
    <3> QED
      BY <1>8, <2>3, <3>1, <3>3, <3>4 DEF Model
  <2>5. Covered(first, own)
    <3>1. SUFFICES ASSUME NEW v \in own, NEW s, Matches(v, s, first.facts),
                          \A i \in DOMAIN Ru(v).body : s[i].ref \notin first.delta
                   PROVE  FALSE
      BY DEF Covered
    <3>2. v \in DOMAIN RuleVersions
      BY <1>1 DEF Own
    <3>3. PICK b : b = Ru(v).body
      OBVIOUS
    <3>4. b \in Seq(Facts) /\ b # <<>>
      BY <3>2, <3>3, RulesAssumption DEF Ru
    <3>5. 1 \in DOMAIN b
      BY <3>4
    <3>6. s[1] \in first.facts
      BY <3>1, <3>3, <3>5 DEF Matches
    <3> QED
      BY <1>9, <3>1, <3>3, <3>5, <3>6
  <2>6. Cardinality(Extent(first, strata[n])) \in Nat
    BY <1>4, ExtentBound
  <2>7. q.rules = rules /\ q.strata = strata /\ q.n = n /\ q.facts = facts /\ q.t = t
    BY <1>3
  <2> QED
    BY <1>1, <1>8, <1>9, <2>1, <2>2, <2>3, <2>4, <2>5, <2>6, <2>7 DEF PassGood, Evaluating
<1>11. Len(Numbers(m)) = m
  BY NumbersLength
<1>12. \A x : \A i \in 1..Len(Numbers(m)) :
           PassGood(x, i - 1, q) => PassGood(RoundDo(x, Numbers(m)[i], own, Naming, Fromnew), i, q)
  BY <1>1, <1>3, <1>11, PassKeeps DEF RoundDo
<1>13. PassGood(last, IF Len(Numbers(m)) \in Nat THEN Len(Numbers(m)) ELSE 0, q)
  BY <1>6, <1>10, <1>12, Passing!Runs
<1>14. /\ Evaluating(last, rules, strata, n, facts, t) /\ Covered(last, own)
       /\ Complete(Keys(last.out), Believed(last), rules, strata, n - 1)
       /\ last.delta = {} \/ Cardinality(Extent(last, strata[n])) >= m
  BY <1>1, <1>3, <1>11, <1>13 DEF PassGood
<1>15. last.delta = {}
  <2>1. Cardinality(Extent(last, strata[n])) \in Nat /\ Cardinality(Extent(last, strata[n])) < m
    BY <1>4, <1>5, ExtentBound
  <2> QED
    BY <1>14, <2>1
<1>16. Complete(Keys(last.out), Believed(last), rules, strata, n)
  <2>1. SUFFICES ASSUME NEW v \in rules, Ru(v).head \in Upto(strata, n), Ru(v).neg \cap Believed(last) = {},
                        Range(Ru(v).body) \subseteq Believed(last)
                 PROVE  Ru(v).head \in Keys(last.out)
    BY DEF Complete, OpenRules
  <2>2. CASE Ru(v).head \in Upto(strata, n - 1)
    BY <1>14, <2>1, <2>2 DEF Complete, OpenRules
  <2>3. CASE Ru(v).head \notin Upto(strata, n - 1)
    <3>1. v \in own
      BY <1>1, <2>1, <2>3, UptoIs DEF Own
    <3>2. Grounded(last, facts, t)
      BY <1>14 DEF Evaluating
    <3>3. PICK s : Matches(v, s, last.facts)
      BY <2>1, <3>2, FiresMatch
    <3> QED
      BY <1>14, <1>15, <3>1, <3>3 DEF Covered
  <2> QED
    BY <2>2, <2>3
<1>17. k.rules = rules /\ k.strata = strata /\ k.facts = facts /\ k.t = t
  OBVIOUS
<1> QED
  BY <1>7, <1>14, <1>16, <1>17 DEF LayerGood

(* What a pass concludes is the stable model of the program.                *)
Unopposed(rules, B) == {v \in rules : Ru(v).neg \cap B = {}}

Stable(out, B, rules, facts, t) ==
    /\ Founded(Keys(out), B, Unopposed(rules, B))
    /\ \A v \in Unopposed(rules, B) : Range(Ru(v).body) \subseteq B => Ru(v).head \in Keys(out)
    /\ \A X : FactsOf(facts) \subseteq X /\ Applied(Unopposed(rules, B), X) => B \subseteq X
    /\ \A o \in out : t \in o.valid

(* The outputs of a program: with the base they are founded, closed under    *)
(* the rules that what is believed does not block, and least.                *)
LEMMA EvaluatedIs ==
    ASSUME NEW rules \in SUBSET DOMAIN RuleVersions, Stratifies(rules), NEW t \in Instants, NEW facts, Holding(facts, t),
           NEW out, out = Evaluated(rules, facts, Naming, Fromnew), NEW B, B = FactsOf(facts) \cup Keys(out)
    PROVE  Stable(out, B, rules, facts, t)
<1>1. PICK first : first = [facts |-> facts, out |-> {}, delta |-> {}]
  OBVIOUS
<1>2. PICK s : s = Strata(rules)
  OBVIOUS
<1>3. PICK k : k = [rules |-> rules, strata |-> s, facts |-> facts, t |-> t]
  OBVIOUS
<1>4. PICK last : last = Layering!Run(first, s, rules, Naming, Fromnew)
  OBVIOUS
<1>5. out = last.out
  BY <1>1, <1>2, <1>4 DEF Evaluated, Fold, Layering!Run, SaturateDo
<1>6. Layered(s, rules)
  BY <1>2, StrataLayered
<1>7. LayerGood(first, 0, k)
  <2>1. first.facts = facts /\ first.out = {} /\ Keys(first.out) = {} /\ Believed(first) = FactsOf(facts)
    BY <1>1 DEF Keys, Believed, FactsOf
  <2>2. Shaped(first, rules, facts, Naming)
    BY <1>1, <2>1 DEF Shaped, RefsOf, Holding
  <2>3. Grounded(first, facts, t)
    <3>1. \A f \in facts : t \in f.valid
      BY DEF Holding
    <3>2. facts \subseteq first.facts /\ \A f \in first.facts : t \in f.valid /\ f \in facts
      BY <2>1, <3>1
    <3>3. \A o \in first.out : FALSE
      BY <2>1
    <3>4. \A f \in first.facts : t \in f.valid /\ (f \in facts \/ (f.ref = <<"derived", f.fact>> /\ f.fact \in Keys(first.out)))
      BY <3>2
    <3>5. \A o \in first.out : t \in o.valid /\ o.key \in Believed(first)
      BY <3>3
    <3> QED
      BY <3>2, <3>4, <3>5 DEF Grounded
  <2>4. Upto(s, 0) = {}
    BY DEF Upto
  <2>5. OpenRules(rules, s, 0, FactsOf(facts)) = {}
    BY <2>4 DEF OpenRules
  <2>6. Model({}, FactsOf(facts), rules, s, 0, FactsOf(facts))
    BY DEF Model, Founded
  <2>7. Complete({}, FactsOf(facts), rules, s, 0)
    BY <2>5 DEF Complete
  <2> QED
    BY <1>3, <2>1, <2>2, <2>3, <2>6, <2>7 DEF LayerGood, Evaluating
<1>8. Len(s) \in Nat /\ DOMAIN s = 1..Len(s)
  BY <1>6 DEF Layered
<1>9. \A x : \A i \in 1..Len(s) : LayerGood(x, i - 1, k) => LayerGood(SaturateDo(x, s[i], rules, Naming, Fromnew), i, k)
  BY <1>3, <1>6, <1>8, LayerKeeps DEF SaturateDo
<1>10. LayerGood(last, Len(s), k)
  <2>1. LayerGood(last, IF Len(s) \in Nat THEN Len(s) ELSE 0, k)
    BY <1>4, <1>7, <1>9, Layering!Runs
  <2> QED
    BY <1>8, <2>1
<1>11. /\ Evaluating(last, rules, s, Len(s), facts, t)
       /\ Complete(Keys(last.out), Believed(last), rules, s, Len(s))
  BY <1>3, <1>10 DEF LayerGood
<1>12. Believed(last) = B
  BY <1>5, <1>11, BelievedIs DEF Evaluating, FactsOf
<1>13. \A v \in rules : Ru(v).head \in Upto(s, Len(s))
  <2>1. TAKE v \in rules
  <2>2. Ru(v).head \in Facts
    BY RulesAssumption DEF Ru
  <2>3. PICK i \in DOMAIN s : Ru(v).head \in s[i]
    BY <1>6, <2>2 DEF Layered
  <2> QED
    BY <1>8, <2>3 DEF Upto
<1>14. OpenRules(rules, s, Len(s), B) = Unopposed(rules, B)
  BY <1>13 DEF OpenRules, Unopposed
<1>15. Model(Keys(out), B, rules, s, Len(s), FactsOf(facts)) /\ Grounded(last, facts, t)
  BY <1>5, <1>11, <1>12 DEF Evaluating
<1>16. Complete(Keys(out), B, rules, s, Len(s))
  BY <1>5, <1>11, <1>12
<1>17. \A o \in out : t \in o.valid
  BY <1>5, <1>15 DEF Grounded
<1> QED
  BY <1>14, <1>15, <1>16, <1>17 DEF Model, Complete, Stable

(* Records with a key of their own each are finitely many.                   *)
LEMMA KeyedFinite ==
    ASSUME NEW W, \A w \in W : w.key \in Facts, \A w, x \in W : w.key = x.key => w = x
    PROVE  IsFiniteSet(W)
<1>1. PICK f : f = [w \in W |-> w.key]
  OBVIOUS
<1>2. f \in [W -> Facts]
  BY <1>1
<1>3. \A a, b \in DOMAIN f : f[a] = f[b] => a = b
  BY <1>1
<1>4. f \in Injection(W, Facts)
  BY <1>2, <1>3 DEF Injection, IsInjective
<1> QED
  BY <1>4, FS_Injection, RulesAssumption

(* A sequence that has each element of a set once.                          *)
Enumerates(s, W, n) ==
    /\ s \in [1..n -> W] /\ \A i, j \in 1..n : s[i] = s[j] => i = j
    /\ \A w \in W : \E i \in 1..n : s[i] = w

(* SetToSeq lists a finite set.                                             *)
LEMMA ListsOnce ==
    ASSUME NEW W, IsFiniteSet(W)
    PROVE  \E n \in Nat : Enumerates(SetToSeq(W), W, n)
<1>1. PICK n \in Nat : n = Cardinality(W) /\ ExistsBijection(1..n, W)
  BY FS_CardinalityType
<1>2. PICK f : f \in Bijection(1..n, W)
  BY <1>1 DEF ExistsBijection
<1>3. f \in [1..n -> W] /\ IsInjective(f)
  BY <1>2 DEF Bijection, Injection
<1>4. PICK g : g = SetToSeq(W)
  OBVIOUS
<1>5. g \in [1..n -> W] /\ IsInjective(g)
  BY <1>1, <1>3, <1>4 DEF SetToSeq
<1>6. g \in Injection(1..n, W)
  BY <1>5 DEF Injection
<1>7. Cardinality(1..n) = n
  BY FS_Interval
<1>8. g \in Surjection(1..n, W)
  BY <1>1, <1>6, <1>7, FS_Injection
<1> QED
  BY <1>4, <1>5, <1>8 DEF IsInjective, Surjection, Enumerates

JoinOf(s, u, v, m, n) ==
    Len(v) = m + n /\ \A i \in 1..(m + n) : v[i] = IF i <= m THEN s[i] ELSE u[i - m]

(* Two sequences joined.                                                     *)
LEMMA Joined ==
    ASSUME NEW S, NEW s \in Seq(S), NEW u \in Seq(S)
    PROVE  s \o u \in Seq(S) /\ JoinOf(s, u, s \o u, Len(s), Len(u))
BY ConcatProperties DEF JoinOf

(* What a commit leaves.                                                    *)
Standing(writes, agent) == {w \in writes : w.supports # {} \/ agent # Engine}
Covers(S, agent, c, t) == \E w \in S : c = <<w.key, agent>> /\ t \in w.valid
VersionOf(w, agent, ids) == [claim |-> <<w.key, agent>>, valid |-> w.valid, supports |-> Encoded(w.supports, ids)]
Committed(V, V2, H, H2, agent, writes, ids) ==
    /\ Len(V) \in Nat /\ Len(V2) \in Nat /\ Len(V) <= Len(V2) /\ \A i \in 1..Len(V) : V2[i] = V[i]
    /\ \A w \in Standing(writes, agent) : ids[w.key] \in (Len(V) + 1)..Len(V2) /\ V2[ids[w.key]] = VersionOf(w, agent, ids)
    /\ \A i \in (Len(V) + 1)..Len(V2) : \E w \in Standing(writes, agent) : i = ids[w.key]
    /\ \A k \in Facts : k \in Keys(Standing(writes, agent)) \/ ids[k] = 0
    /\ \A c \in Statements, t \in Instants :
           H2[c][t] = IF Covers(Standing(writes, agent), agent, c, t) THEN ids[c[1]]
                      ELSE IF Covers(writes, agent, c, t) THEN 0 ELSE H[c][t]

(* What a commit does, by the identities it hands out.                       *)
LEMMA CommitIs ==
    ASSUME NEW agent, NEW writes, NEW asOf, CommitVersions(agent, writes, asOf),
           \E S : versions \in Seq(S),
           \A w \in Standing(writes, agent) : w.key \in Facts,
           \A w, x \in Standing(writes, agent) : w.key = x.key => w = x
    PROVE  /\ \E S : versions' \in Seq(S)
           /\ \E ids : Committed(versions, versions', held, held', agent, writes, ids)
           /\ held' = [c \in Statements |-> [t \in Instants |-> held'[c][t]]]
           /\ meta' = Append(meta, asOf)
<1>1. PICK W : W = Standing(writes, agent)
  OBVIOUS
<1>2. W = {w \in writes : w.supports # {} \/ agent # Engine}
  BY <1>1 DEF Standing
<1>3. PICK new : new = SetToSeq(W)
  OBVIOUS
<1>4. IsFiniteSet(W)
  BY <1>1, KeyedFinite
<1>34. PICK n \in Nat : Enumerates(new, W, n)
  BY <1>3, <1>4, ListsOnce
<1>5. /\ new \in [1..n -> W] /\ \A i, j \in 1..n : new[i] = new[j] => i = j
      /\ \A w \in W : \E i \in 1..n : new[i] = w
  BY <1>34 DEF Enumerates
<1>6. DOMAIN new = 1..n /\ Len(new) = n
  BY <1>5
<1>7. Range(new) = W
  BY <1>5, <1>6 DEF Range
<1>8. PICK ids : ids = [k \in Facts |-> IF \E i \in DOMAIN new : new[i].key = k
                                        THEN Len(versions) + (CHOOSE i \in DOMAIN new : new[i].key = k) ELSE 0]
  OBVIOUS
<1>9. PICK added : added = [i \in DOMAIN new |->
          [claim |-> <<new[i].key, agent>>, valid |-> new[i].valid, supports |-> Encoded(new[i].supports, ids)]]
  OBVIOUS
<1>10. versions' = versions \o added /\ meta' = Append(meta, asOf)
  BY <1>2, <1>3, <1>8, <1>9 DEF CommitVersions
<1>11. held' = [c \in Statements |-> [t \in Instants |->
                IF Covers(W, agent, c, t) THEN ids[c[1]] ELSE IF Covers(writes, agent, c, t) THEN 0 ELSE held[c][t]]]
  <2>1. held' = [c \in Statements |-> [t \in Instants |->
                  IF \E w \in Range(new) : c = <<w.key, agent>> /\ t \in w.valid THEN ids[c[1]]
                  ELSE IF \E w \in writes : c = <<w.key, agent>> /\ t \in w.valid THEN 0 ELSE held[c][t]]]
    BY <1>2, <1>3, <1>8, SMTT(60) DEF CommitVersions
  <2> QED
    BY <1>7, <2>1 DEF Covers
<1>12. PICK S : versions \in Seq(S)
  OBVIOUS
<1>13. PICK T : T = S \cup {VersionOf(w, agent, ids) : w \in W}
  OBVIOUS
<1>14. \A i \in 1..n : added[i] = VersionOf(new[i], agent, ids) /\ new[i] \in W
  BY <1>5, <1>6, <1>9 DEF VersionOf
<1>15. added \in [1..n -> T]
  BY <1>6, <1>9, <1>13, <1>14
<1>16. added \in Seq(T) /\ Len(added) = n /\ versions \in Seq(T)
  BY <1>12, <1>13, <1>15
<1>17. PICK m \in Nat : m = Len(versions)
  BY <1>12
<1>18. PICK V2 : V2 = versions \o added
  OBVIOUS
<1>19. /\ V2 \in Seq(T) /\ Len(V2) = m + n
       /\ \A i \in 1..(m + n) : V2[i] = IF i <= m THEN versions[i] ELSE added[i - m]
  <2>1. versions \o added \in Seq(T) /\ JoinOf(versions, added, versions \o added, Len(versions), Len(added))
    BY <1>16, Joined
  <2>2. Len(versions) = m /\ Len(added) = n
    BY <1>16, <1>17
  <2>3. V2 \in Seq(T) /\ JoinOf(versions, added, V2, m, n)
    BY <1>18, <2>1, <2>2
  <2> QED
    BY <2>3 DEF JoinOf
<1>20. \A i \in 1..n : ids[new[i].key] = m + i
  <2>1. TAKE i \in 1..n
  <2>2. new[i].key \in Facts
    BY <1>1, <1>14
  <2>3. \A j \in 1..n : new[j].key = new[i].key => j = i
    BY <1>1, <1>5, <1>14
  <2>4. (CHOOSE j \in DOMAIN new : new[j].key = new[i].key) = i
    BY <1>6, <2>3
  <2> QED
    BY <1>6, <1>8, <1>17, <2>2, <2>4
<1>21. \A w \in W : \E i \in 1..n : w = new[i] /\ ids[w.key] = m + i
  BY <1>5, <1>20
<1>22. \A i \in (m + 1)..(m + n) : i - m \in 1..n /\ ~(i <= m) /\ i \in 1..(m + n)
  OBVIOUS
<1>23. \A i \in 1..n : m + i \in (m + 1)..(m + n) /\ (m + i) - m = i
  OBVIOUS
<1>24. ASSUME NEW w \in W PROVE ids[w.key] \in (m + 1)..(m + n) /\ V2[ids[w.key]] = VersionOf(w, agent, ids)
  <2>1. PICK i \in 1..n : w = new[i] /\ ids[w.key] = m + i
    BY <1>21
  <2> QED
    BY <1>14, <1>19, <1>22, <1>23, <2>1
<1>25. ASSUME NEW i \in (m + 1)..(m + n) PROVE \E w \in W : i = ids[w.key]
  <2>1. i - m \in 1..n /\ m + (i - m) = i
    BY <1>22
  <2> QED
    BY <1>14, <1>20, <2>1
<1>26. ASSUME NEW k \in Facts, k \notin Keys(W) PROVE ids[k] = 0
  <2>1. ~ \E i \in DOMAIN new : new[i].key = k
    BY <1>6, <1>14, <1>26 DEF Keys
  <2> QED
    BY <1>8, <2>1
<1>27. \A c \in Statements, t \in Instants :
           held'[c][t] = IF Covers(W, agent, c, t) THEN ids[c[1]] ELSE IF Covers(writes, agent, c, t) THEN 0 ELSE held[c][t]
  BY <1>11
<1>28. \A i \in 1..m : i \in 1..(m + n) /\ i <= m
  OBVIOUS
<1>29. \A i \in 1..m : V2[i] = versions[i]
  BY <1>19, <1>28
<1>30. m <= m + n /\ m + n \in Nat
  OBVIOUS
<1>31. versions' = V2
  BY <1>10, <1>18
<1>32. Committed(versions, V2, held, held', agent, writes, ids)
  BY <1>1, <1>17, <1>19, <1>24, <1>25, <1>26, <1>27, <1>29, <1>30 DEF Committed
<1>33. held' = [c \in Statements |-> [t \in Instants |-> held'[c][t]]]
  BY <1>11
<1> QED
  BY <1>10, <1>19, <1>31, <1>32, <1>33

(* Premises are named by version, or by an output that is written with them. *)
Refers(ref, n, ks) == (\E j \in 1..n : ref = <<"version", j>>) \/ (\E k \in ks : ref = <<"derived", k>>)
Pending(s, n, ks) ==
    /\ s = <<s[1], s[2]>> /\ s[2] = [i \in DOMAIN s[2] |-> s[2][i]]
    /\ \A i \in DOMAIN s[2] : Refers(s[2][i], n, ks)
Versioned(V) ==
    \A i \in 1..Len(V) : /\ V[i].claim \in Statements /\ V[i].valid \in SUBSET Instants
                         /\ \A s \in V[i].supports : Pending(s, Len(V), {})
ShownIn(V, H) ==
    \A c \in Statements, t \in Instants :
        H[c][t] = 0 \/ (H[c][t] \in 1..Len(V) /\ V[H[c][t]].claim = c /\ t \in V[H[c][t]].valid)
Writable(writes, agent, n) ==
    /\ agent \in Agents \cup {Engine}
    /\ \A w \in writes : /\ w.key \in Facts /\ w.valid \in SUBSET Instants
                         /\ \A s \in w.supports : Pending(s, n, Keys(Standing(writes, agent)))
    /\ \A w, x \in Standing(writes, agent) : w.key = x.key => w = x

Renamed(ref, ids) == IF ref[1] = "derived" /\ ids[ref[2]] # 0 THEN <<"version", ids[ref[2]]>> ELSE ref

(* Encoding renames every premise.                                           *)
LEMMA EncodedIs ==
    ASSUME NEW supports, NEW ids
    PROVE  Encoded(supports, ids) = {<<s[1], [i \in DOMAIN s[2] |-> Renamed(s[2][i], ids)]>> : s \in supports}
BY DEF Encoded, Renamed

(* A support that can be stored can be stored later.                         *)
LEMMA PendingMore ==
    ASSUME NEW s, NEW n \in Nat, NEW m \in Nat, n <= m, NEW ks, NEW ls, ks \subseteq ls, Pending(s, n, ks)
    PROVE  Pending(s, m, ls)
<1>1. \A j \in 1..n : j \in 1..m
  OBVIOUS
<1>2. \A ref : Refers(ref, n, ks) => Refers(ref, m, ls)
  BY <1>1 DEF Refers
<1> QED
  BY <1>2 DEF Pending

(* A commit of writes that can be stored keeps the store well formed.        *)
LEMMA StoreKept ==
    ASSUME NEW V, NEW V2, NEW H, NEW H2, NEW agent, NEW writes, NEW ids,
           Committed(V, V2, H, H2, agent, writes, ids), Versioned(V), ShownIn(V, H), Writable(writes, agent, Len(V))
    PROVE  Versioned(V2) /\ ShownIn(V2, H2)
<1>1. PICK W : W = Standing(writes, agent)
  OBVIOUS
<1>2. PICK n \in Nat : n = Len(V)
  BY DEF Committed
<1>3. PICK m \in Nat : m = Len(V2)
  BY DEF Committed
<1>4. /\ n <= m /\ \A i \in 1..n : V2[i] = V[i]
      /\ \A w \in W : ids[w.key] \in (n + 1)..m /\ V2[ids[w.key]] = VersionOf(w, agent, ids)
      /\ \A i \in (n + 1)..m : \E w \in W : i = ids[w.key]
      /\ \A c \in Statements, t \in Instants :
             H2[c][t] = IF Covers(W, agent, c, t) THEN ids[c[1]] ELSE IF Covers(writes, agent, c, t) THEN 0 ELSE H[c][t]
  BY <1>1, <1>2, <1>3 DEF Committed
<1>5. /\ agent \in Agents \cup {Engine}
      /\ \A w \in W : /\ w.key \in Facts /\ w.valid \in SUBSET Instants
                      /\ \A s \in w.supports : Pending(s, n, Keys(W))
  BY <1>1, <1>2 DEF Writable, Standing
<1>6. \A i \in 1..m : i \in 1..n \/ i \in (n + 1)..m
  OBVIOUS
<1>7. \A i \in (n + 1)..m : i \in 1..m
  OBVIOUS
<1>8. \A i \in 1..n : i \in 1..m
  BY <1>4
<1>9. \A k \in Keys(W) : ids[k] \in (n + 1)..m
  BY <1>4 DEF Keys
<1>10. ASSUME NEW ref, Refers(ref, n, Keys(W)) PROVE Refers(Renamed(ref, ids), m, {})
  <2>1. CASE \E j \in 1..n : ref = <<"version", j>>
    <3>1. Renamed(ref, ids) = ref
      BY <2>1 DEF Renamed
    <3> QED
      BY <1>8, <2>1, <3>1 DEF Refers
  <2>2. CASE \E k \in Keys(W) : ref = <<"derived", k>>
    <3>1. PICK k \in Keys(W) : ref = <<"derived", k>>
      BY <2>2
    <3>2. ids[k] \in 1..m /\ ids[k] # 0
      BY <1>7, <1>9
    <3>3. Renamed(ref, ids) = <<"version", ids[k]>>
      BY <3>1, <3>2 DEF Renamed
    <3> QED
      BY <3>2, <3>3 DEF Refers
  <2> QED
    BY <1>10, <2>1, <2>2 DEF Refers
<1>11. ASSUME NEW w \in W, NEW x \in Encoded(w.supports, ids) PROVE Pending(x, m, {})
  <2>1. PICK s \in w.supports : x = <<s[1], [i \in DOMAIN s[2] |-> Renamed(s[2][i], ids)]>>
    BY <1>11, EncodedIs
  <2>2. PICK refs : refs = [i \in DOMAIN s[2] |-> Renamed(s[2][i], ids)]
    OBVIOUS
  <2>3. x = <<s[1], refs>> /\ refs = [i \in DOMAIN refs |-> refs[i]] /\ DOMAIN refs = DOMAIN s[2]
    BY <2>1, <2>2
  <2>4. \A i \in DOMAIN s[2] : Refers(refs[i], m, {})
    BY <1>5, <1>10, <2>2 DEF Pending
  <2> QED
    BY <2>3, <2>4 DEF Pending
<1>12. ASSUME NEW i \in 1..m
       PROVE  /\ V2[i].claim \in Statements /\ V2[i].valid \in SUBSET Instants
              /\ \A s \in V2[i].supports : Pending(s, m, {})
  <2>1. CASE i \in 1..n
    <3>1. V2[i] = V[i] /\ V[i].claim \in Statements /\ V[i].valid \in SUBSET Instants
          /\ \A s \in V[i].supports : Pending(s, n, {})
      BY <1>2, <1>4, <2>1 DEF Versioned
    <3>2. \A s \in V[i].supports : Pending(s, m, {})
      BY <1>4, <3>1, PendingMore
    <3> QED
      BY <3>1, <3>2
  <2>2. CASE i \in (n + 1)..m
    <3>1. PICK w \in W : i = ids[w.key]
      BY <1>4, <2>2
    <3>2. V2[i] = VersionOf(w, agent, ids)
      BY <1>4, <3>1
    <3>3. V2[i].claim = <<w.key, agent>> /\ V2[i].valid = w.valid /\ V2[i].supports = Encoded(w.supports, ids)
      BY <3>2 DEF VersionOf
    <3> QED
      BY <1>5, <1>11, <3>3 DEF Statements
  <2> QED
    BY <1>6, <2>1, <2>2
<1>13. ASSUME NEW c \in Statements, NEW t \in Instants
       PROVE  H2[c][t] = 0 \/ (H2[c][t] \in 1..m /\ V2[H2[c][t]].claim = c /\ t \in V2[H2[c][t]].valid)
  <2>1. CASE Covers(W, agent, c, t)
    <3>1. PICK w \in W : c = <<w.key, agent>> /\ t \in w.valid
      BY <2>1 DEF Covers
    <3>2. H2[c][t] = ids[w.key]
      BY <1>4, <2>1, <3>1
    <3>3. V2[ids[w.key]].claim = <<w.key, agent>> /\ V2[ids[w.key]].valid = w.valid /\ ids[w.key] \in 1..m
      <4>1. V2[ids[w.key]] = VersionOf(w, agent, ids) /\ ids[w.key] \in (n + 1)..m
        BY <1>4
      <4>2. VersionOf(w, agent, ids).claim = <<w.key, agent>> /\ VersionOf(w, agent, ids).valid = w.valid
        BY DEF VersionOf
      <4> QED
        BY <1>7, <4>1, <4>2
    <3> QED
      BY <3>1, <3>2, <3>3
  <2>2. CASE ~Covers(W, agent, c, t)
    <3>1. H2[c][t] = 0 \/ H2[c][t] = H[c][t]
      BY <1>4, <2>2
    <3>2. H[c][t] = 0 \/ (H[c][t] \in 1..n /\ V[H[c][t]].claim = c /\ t \in V[H[c][t]].valid)
      BY <1>2 DEF ShownIn
    <3> QED
      BY <1>4, <1>8, <3>1, <3>2
  <2> QED
    BY <2>1, <2>2
<1> QED
  BY <1>3, <1>12, <1>13 DEF Versioned, ShownIn

-----------------------------------------------------------------------------
(* The instant of the last pass, from the log and the stored state.         *)

Stamped(M) == {i \in DOMAIN M : M[i] # None}
Latest(M, s) == IF Stamped(M) # {} /\ Newer(Max(Stamped(M)), s) THEN M[Max(Stamped(M))] ELSE s.instant

(* The last instant depends on the log and the stored state.                 *)
LEMMA LastIs == LastInstant = Latest(meta, state)
BY DEF LastInstant, Latest, Stamped

(* No instant is None.                                                       *)
LEMMA NoInstant == None \notin Instants
BY InstantsAssumption DEF None

(* A record of a pass that is added to the log is the latest.                *)
LEMMA LatestAppended ==
    ASSUME NEW M \in Seq(Instants \cup {None}), NEW s, s.through \in 0..Len(M), NEW x \in Instants \cup {None}
    PROVE  Latest(Append(M, x), s) = IF x = None THEN Latest(M, s) ELSE x
<1>1. PICK n \in Nat : n = Len(M)
  OBVIOUS
<1>2. PICK N : N = Append(M, x)
  OBVIOUS
<1>3. DOMAIN N = 1..(n + 1) /\ DOMAIN M = 1..n /\ N[n + 1] = x /\ \A i \in 1..n : N[i] = M[i]
  BY <1>1, <1>2
<1>4. \A i : i \in 1..(n + 1) <=> i \in 1..n \/ i = n + 1
  BY <1>1
<1>5. CASE x = None
  <2>1. Stamped(N) = Stamped(M)
    BY <1>3, <1>4, <1>5 DEF Stamped
  <2>2. Stamped(M) \in SUBSET (1..n)
    BY <1>3 DEF Stamped
  <2>3. Stamped(M) # {} => Max(Stamped(M)) \in 1..n
    BY <2>2, LastOf
  <2>4. Stamped(M) # {} => N[Max(Stamped(M))] = M[Max(Stamped(M))]
    BY <1>3, <2>3
  <2> QED
    BY <1>2, <1>5, <2>1, <2>4 DEF Latest
<1>6. CASE x # None
  <2>1. n + 1 \in Stamped(N)
    BY <1>3, <1>4, <1>6 DEF Stamped
  <2>2. Stamped(N) \in SUBSET (1..(n + 1))
    BY <1>3 DEF Stamped
  <2>3. Max(Stamped(N)) \in 1..(n + 1) /\ n + 1 <= Max(Stamped(N))
    <3>1. PICK h \in Nat : h = n + 1
      OBVIOUS
    <3>2. Stamped(N) \in SUBSET (1..h) /\ Stamped(N) # {}
      BY <2>1, <2>2, <3>1
    <3>3. Max(Stamped(N)) \in Stamped(N) /\ \A j \in Stamped(N) : j <= Max(Stamped(N))
      BY <3>2, LastOf
    <3> QED
      BY <2>1, <2>2, <3>3
  <2>4. Max(Stamped(N)) = n + 1
    BY <2>3
  <2>5. Newer(Max(Stamped(N)), s)
    BY <1>1, <2>4 DEF Newer
  <2>6. Latest(N, s) = x
    BY <1>3, <2>1, <2>4, <2>5 DEF Latest
  <2> QED
    BY <1>2, <1>6, <2>6
<1> QED
  BY <1>5, <1>6

Logged ==
    /\ meta \in Seq(Instants \cup {None})
    /\ state.through \in 0..Len(meta) /\ state.instant \in Instants \cup {None}
    /\ saving = NoState \/ (saving.through = Len(meta) /\ saving.instant \in Instants)
    /\ LastInstant = lastPass

(* The last instant is one, or None.                                         *)
LEMMA LastTyped == ASSUME Logged PROVE LastInstant \in Instants \cup {None}
<1>1. Stamped(meta) \in SUBSET (1..Len(meta)) /\ Len(meta) \in Nat
  BY DEF Stamped, Logged
<1>2. Stamped(meta) # {} => Max(Stamped(meta)) \in 1..Len(meta)
  BY <1>1, LastOf
<1>3. Stamped(meta) # {} => meta[Max(Stamped(meta))] \in Instants \cup {None}
  BY <1>2 DEF Logged
<1> QED
  BY <1>3, LastIs DEF Latest, Logged

(* A commit that says which pass it is from keeps the log right.             *)
LEMMA LogGrows ==
    ASSUME Logged, NEW x \in Instants \cup {None}, meta' = Append(meta, x), UNCHANGED state,
           lastPass' = (IF x = None THEN lastPass ELSE x),
           saving' = NoState \/ (saving'.through = Len(meta') /\ saving'.instant \in Instants)
    PROVE  Logged'
<1>1. meta' \in Seq(Instants \cup {None}) /\ Len(meta') = Len(meta) + 1 /\ Len(meta) \in Nat
  BY DEF Logged
<1>2. Latest(meta', state') = IF x = None THEN Latest(meta, state) ELSE x
  BY LatestAppended DEF Logged
<1>3. LastInstant' = Latest(meta', state')
  BY DEF LastInstant, Latest, Stamped
<1>4. LastInstant' = lastPass'
  BY <1>2, <1>3, LastIs DEF Logged
<1>5. state'.through \in 0..Len(meta') /\ state'.instant \in Instants \cup {None}
  BY <1>1 DEF Logged
<1> QED
  BY <1>1, <1>4, <1>5 DEF Logged

Stored ==
    /\ \E S : versions \in Seq(S)
    /\ held = [c \in Statements |-> [t \in Instants |-> held[c][t]]]
    /\ Versioned(versions) /\ ShownIn(versions, held)
    /\ active \in SUBSET DOMAIN RuleVersions /\ Stratifies(active)

(* What the base states at an instant is a version of an agent that holds    *)
(* there.                                                                    *)
LEMMA BaseHolds ==
    ASSUME Stored, NEW t \in Instants
    PROVE  /\ Holding(BaseAt(t), t)
           /\ \A f \in BaseAt(t) : \E j \in 1..Len(versions) : f.ref = <<"version", j>> /\ versions[j].claim[2] # Engine
<1>1. ASSUME NEW f \in BaseAt(t)
      PROVE  /\ f.ref[1] = "version" /\ f.fact \in Facts /\ f.valid \in SUBSET Instants /\ t \in f.valid
             /\ \E j \in 1..Len(versions) : f.ref = <<"version", j>> /\ versions[j].claim[2] # Engine
  <2>1. PICK c \in Statements : /\ c[2] # Engine /\ held[c][t] # 0
                                /\ f = [ref |-> <<"version", held[c][t]>>, fact |-> c[1], valid |-> versions[held[c][t]].valid]
    BY DEF BaseAt
  <2>2. PICK j : j = held[c][t]
    OBVIOUS
  <2>3. j \in 1..Len(versions) /\ versions[j].claim = c /\ t \in versions[j].valid
    BY <2>1, <2>2 DEF Stored, ShownIn
  <2>4. versions[j].valid \in SUBSET Instants
    BY <2>3 DEF Stored, Versioned
  <2>5. f.ref = <<"version", j>> /\ f.fact = c[1] /\ f.valid = versions[j].valid
    BY <2>1, <2>2
  <2> QED
    BY <2>1, <2>3, <2>4, <2>5 DEF Statements
<1> QED
  BY <1>1 DEF Holding

(* A premise of an output of a pass is a version that an agent stated, or   *)
(* another output.                                                          *)
Premise(ref, V, K) ==
    (\E j \in 1..Len(V) : ref = <<"version", j>> /\ V[j].claim[2] # Engine) \/ (\E k \in K : ref = <<"derived", k>>)
Sourced(s, V, K) ==
    /\ s = <<s[1], s[2]>> /\ s[2] = [i \in DOMAIN s[2] |-> s[2][i]]
    /\ \A i \in DOMAIN s[2] : Premise(s[2][i], V, K)
PassOutputs(out, t, V) ==
    /\ \A o \in out : /\ o.key \in Facts /\ o.valid \in SUBSET Instants /\ t \in o.valid /\ o.supports # {}
                      /\ \A s \in o.supports : Sourced(s, V, Keys(out)) /\ s[1] \in DOMAIN RuleVersions
    /\ \A o, p \in out : o.key = p.key => o = p

(* The outputs of a pass hold at its instant, and rest on the base or on     *)
(* each other.                                                               *)
LEMMA PassIs ==
    ASSUME Stored, NEW t \in Instants, NEW out, out = MaintenanceOutputs(t)
    PROVE  PassOutputs(out, t, versions)
<1>1. PICK A : A = active
  OBVIOUS
<1>2. PICK base : base = BaseAt(t)
  OBVIOUS
<1>3. out = Evaluated(A, base, Naming, Fromnew)
  BY <1>1, <1>2 DEF MaintenanceOutputs, MaintenanceBase, Naming, Fromnew
<1>4. A \in SUBSET DOMAIN RuleVersions /\ Stratifies(A)
  BY <1>1 DEF Stored
<1>5. Holding(base, t) /\ \A f \in base : \E j \in 1..Len(versions) : f.ref = <<"version", j>> /\ versions[j].claim[2] # Engine
  BY <1>2, BaseHolds
<1>6. \A k \in Facts : Fromnew[k] \in SUBSET Instants
  BY DEF Fromnew
<1>7. \A f \in base : f.fact \in Facts /\ f.valid \in SUBSET Instants
  BY <1>5 DEF Holding
<1>13. Formed(out, A, base, Naming)
  BY <1>3, <1>4, <1>6, <1>7, EvaluatedShaped
<1>8. /\ \A o \in out : Output(o, A, RefsOf(base, Naming, out))
      /\ \A o, p \in out : o.key = p.key => o = p
  BY <1>13 DEF Formed
<1>14. Stable(out, FactsOf(base) \cup Keys(out), A, base, t)
  BY <1>3, <1>4, <1>5, EvaluatedIs
<1>9. \A o \in out : t \in o.valid
  BY <1>14 DEF Stable
<1>10. \A k \in Keys(out) : k \in Facts /\ Naming[k] = <<"derived", k>>
  BY <1>8 DEF Keys, Output, Naming
<1>11. \A ref \in RefsOf(base, Naming, out) : Premise(ref, versions, Keys(out))
  <2>1. TAKE ref \in RefsOf(base, Naming, out)
  <2>2. CASE \E f \in base : ref = f.ref
    BY <1>5, <2>2 DEF Premise
  <2>3. CASE \E k \in Keys(out) : ref = Naming[k]
    BY <1>10, <2>3 DEF Premise
  <2> QED
    BY <2>2, <2>3 DEF RefsOf
<1>12. ASSUME NEW o \in out, NEW s \in o.supports PROVE Sourced(s, versions, Keys(out)) /\ s[1] \in DOMAIN RuleVersions
  <2>1. Supported(s, A, RefsOf(base, Naming, out))
    BY <1>8 DEF Output
  <2>2. DOMAIN s[2] = DOMAIN Ru(s[1]).body
    BY <2>1 DEF Supported
  <2> QED
    BY <1>4, <1>11, <2>1, <2>2 DEF Supported, Sourced
<1> QED
  BY <1>8, <1>9, <1>12 DEF PassOutputs, Output

(* The outputs that are written again.                                      *)
Amiss(out, existing) == {p \in out : existing[p.key] = 0 \/ Differs(existing[p.key], p)}

(* What is amiss is changed, and nothing is if nothing is amiss.             *)
LEMMA ChangedIs ==
    ASSUME NEW out, \A o \in out : o.key \in Facts, NEW existing
    PROVE  /\ ChangedOutputs(out, existing) \subseteq out
           /\ Amiss(out, existing) \subseteq ChangedOutputs(out, existing)
           /\ Amiss(out, existing) = {} => ChangedOutputs(out, existing) = {}
<1>1. PICK pairs : pairs = Dependents(out)
  OBVIOUS
<1>2. PICK first : first = {o.key : o \in Amiss(out, existing)}
  OBVIOUS
<1>3. PICK keys : keys = Closure(pairs, first)
  OBVIOUS
<1>4. ChangedOutputs(out, existing) = {o \in out : o.key \in keys}
  BY <1>1, <1>2, <1>3 DEF ChangedOutputs, Amiss
<1>5. \A p \in pairs : p[2] \in Facts /\ p[1] # {}
  <2>1. TAKE p \in pairs
  <2>2. PICK o \in out : \E r : p = <<{r}, o.key>>
    <3>1. PICK o \in out : \E s \in o.supports : p \in {<<{x[2]}, o.key>> : x \in {r \in Range(s[2]) : r[1] = "derived"}}
      BY <1>1 DEF Dependents
    <3> QED
      BY <3>1
  <2> QED
    BY <2>2
<1>6. Goals(pairs) \in SUBSET Facts
  BY <1>5 DEF Goals
<1>7. IsFiniteSet(Goals(pairs))
  BY <1>6, FS_Subset, RulesAssumption
<1>8. first \subseteq keys /\ \A Y : first \subseteq Y /\ ClosedBy(pairs, Y) => keys \subseteq Y
  BY <1>3, <1>7, ClosureIs
<1>9. ASSUME Amiss(out, existing) = {} PROVE keys = {}
  <2>1. first = {}
    BY <1>2, <1>9
  <2>2. ClosedBy(pairs, {})
    BY <1>5 DEF ClosedBy
  <2> QED
    BY <1>8, <2>1, <2>2
<1> QED
  BY <1>2, <1>4, <1>8, <1>9 DEF Amiss

(* What a pass writes.                                                      *)
KeptIds(changed, existing) == [k \in Facts |-> IF k \in Keys(changed) THEN 0 ELSE existing[k]]
Redone(changed, existing) == {Write(o.key, o.valid, Encoded(o.supports, KeptIds(changed, existing))) : o \in changed}
Undone(w, out, changed, existing) ==
    /\ w.valid # {}
    /\ \/ \E o \in changed : w = Retraction(o.key, ValidOf(existing[o.key]) \ o.valid)
       \/ \E k \in Facts \ Keys(out) : w = Retraction(k, ValidOf(existing[k]))

(* The writes of a pass: the changed conclusions, and what is retracted.     *)
LEMMA RepairsAre ==
    ASSUME NEW out, NEW changed, NEW existing, NEW w
    PROVE  w \in Repairs(out, changed, existing) <=>
             w \in Redone(changed, existing) \/ Undone(w, out, changed, existing)
BY DEF Repairs, Redone, KeptIds, Undone

(* A pass over what an earlier one left writes nothing.                     *)
Upheld(t) ==
    /\ Derived(t) = Keys(MaintenanceOutputs(t))
    /\ \A o \in MaintenanceOutputs(t) : ~Differs(ExistingAt(t)[o.key], o)

(* Over conclusions as a pass leaves them, another writes nothing.           *)
LEMMA UpheldSettles ==
    ASSUME Stored, NEW t \in Instants, Upheld(t)
    PROVE  Settled(t)
<1>1. PICK out : out = MaintenanceOutputs(t)
  OBVIOUS
<1>2. PICK existing : existing = ExistingAt(t)
  OBVIOUS
<1>3. PassOutputs(out, t, versions)
  BY <1>1, PassIs
<1>4. \A k \in Facts : k \in Keys(out) <=> existing[k] # 0
  BY <1>1, <1>2 DEF Upheld, Derived
<1>5. \A o \in out : o.key \in Facts /\ o.key \in Keys(out)
  BY <1>3 DEF PassOutputs, Keys
<1>6. Amiss(out, existing) = {}
  BY <1>1, <1>2, <1>4, <1>5 DEF Upheld, Amiss
<1>7. ChangedOutputs(out, existing) = {}
  BY <1>5, <1>6, ChangedIs
<1>8. \A k \in Facts \ Keys(out) : ValidOf(existing[k]) = {}
  BY <1>4 DEF ValidOf
<1>11. PICK changed : changed = ChangedOutputs(out, existing)
  OBVIOUS
<1>9. ASSUME NEW w \in Repairs(out, changed, existing) PROVE FALSE
  <2>1. \A o \in changed : FALSE
    BY <1>7, <1>11
  <2>2. w \notin Redone(changed, existing)
    BY <2>1 DEF Redone
  <2>3. PICK k \in Facts \ Keys(out) : w.valid # {} /\ w = Retraction(k, ValidOf(existing[k]))
    <3>1. Undone(w, out, changed, existing)
      BY <1>9, <2>2, RepairsAre
    <3> QED
      BY <2>1, <3>1 DEF Undone
  <2>4. w.valid = {}
    BY <1>8, <2>3 DEF Retraction, Write
  <2> QED
    BY <2>3, <2>4
<1>10. Repairs(out, ChangedOutputs(out, existing), existing) = {}
  BY <1>9, <1>11
<1> QED
  BY <1>1, <1>2, <1>10 DEF Settled

(* ... and what it left is the stable model of the active program.          *)
LEMMA UpheldIsModel ==
    ASSUME Stored, NEW t \in Instants, Upheld(t), NEW B, B = BaseFacts(t) \cup Derived(t)
    PROVE  LET unblocked == {v \in active : Ru(v).neg \cap B = {}}
           IN  B = Least(unblocked, BaseFacts(t)) /\ Derived(t) = Fires(unblocked, B)
<1>1. PICK A : A = active
  OBVIOUS
<1>2. PICK base : base = BaseAt(t)
  OBVIOUS
<1>3. PICK out : out = MaintenanceOutputs(t)
  OBVIOUS
<1>4. out = Evaluated(A, base, Naming, Fromnew)
  BY <1>1, <1>2, <1>3 DEF MaintenanceOutputs, MaintenanceBase, Naming, Fromnew
<1>5. A \in SUBSET DOMAIN RuleVersions /\ Stratifies(A)
  BY <1>1 DEF Stored
<1>6. Holding(base, t)
  BY <1>2, BaseHolds
<1>7. PICK F : F = FactsOf(base)
  OBVIOUS
<1>8. F = BaseFacts(t)
  BY <1>2, <1>7 DEF FactsOf, BaseFacts
<1>9. Derived(t) = Keys(out) /\ B = F \cup Keys(out)
  BY <1>3, <1>8 DEF Upheld
<1>10. PICK U : U = Unopposed(A, B)
  OBVIOUS
<1>11. /\ Founded(Keys(out), B, U)
       /\ \A v \in U : Range(Ru(v).body) \subseteq B => Ru(v).head \in Keys(out)
       /\ \A X : F \subseteq X /\ Applied(U, X) => B \subseteq X
  <2>1. B = FactsOf(base) \cup Keys(out)
    BY <1>7, <1>9
  <2>2. Stable(out, B, A, base, t)
    BY <1>4, <1>5, <1>6, <2>1, EvaluatedIs
  <2> QED
    BY <1>7, <1>10, <2>2 DEF Stable
<1>12. U = {v \in active : Ru(v).neg \cap B = {}} /\ U \subseteq DOMAIN RuleVersions
  BY <1>1, <1>5, <1>10 DEF Unopposed
<1>13. PICK pairs : pairs = {<<Range(Ru(v).body), Ru(v).head>> : v \in U}
  OBVIOUS
<1>14. \A p \in pairs : p[2] \in Facts
  BY <1>12, <1>13, RulesAssumption DEF Ru
<1>15. Goals(pairs) \in SUBSET Facts
  BY <1>14 DEF Goals
<1>16. IsFiniteSet(Goals(pairs))
  BY <1>15, FS_Subset, RulesAssumption
<1>17. PICK L : L = Closure(pairs, F)
  OBVIOUS
<1>18. F \subseteq L /\ ClosedBy(pairs, L) /\ \A Y : F \subseteq Y /\ ClosedBy(pairs, Y) => L \subseteq Y
  BY <1>16, <1>17, ClosureIs
<1>19. \A X : ClosedBy(pairs, X) <=> Applied(U, X)
  <2>1. TAKE X
  <2>2. ASSUME ClosedBy(pairs, X), NEW v \in U, Range(Ru(v).body) \subseteq X PROVE Ru(v).head \in X
    <3>1. PICK p \in pairs : p = <<Range(Ru(v).body), Ru(v).head>>
      BY <1>13
    <3> QED
      BY <2>2, <3>1 DEF ClosedBy
  <2>3. ASSUME Applied(U, X), NEW p \in pairs, p[1] \subseteq X PROVE p[2] \in X
    <3>1. PICK v \in U : p = <<Range(Ru(v).body), Ru(v).head>>
      BY <1>13
    <3> QED
      BY <2>3, <3>1 DEF Applied
  <2> QED
    BY <2>2, <2>3 DEF ClosedBy, Applied
<1>20. Applied(U, B)
  BY <1>9, <1>11 DEF Applied
<1>21. L = B
  BY <1>9, <1>11, <1>18, <1>19, <1>20
<1>22. Least(U, F) = L
  BY <1>13, <1>17 DEF Least
<1>23. Fires(U, B) = Keys(out)
  <2>1. \A k \in Keys(out) : \E v \in U : Ru(v).head = k /\ Range(Ru(v).body) \subseteq B
    BY <1>11 DEF Founded
  <2>2. \A x : x \in Fires(U, B) <=> \E v \in U : Range(Ru(v).body) \subseteq B /\ x = Ru(v).head
    BY DEF Fires
  <2>3. ASSUME NEW x \in Keys(out) PROVE x \in Fires(U, B)
    BY <2>1, <2>2, <2>3
  <2>4. ASSUME NEW x \in Fires(U, B) PROVE x \in Keys(out)
    <3>1. PICK v \in U : Range(Ru(v).body) \subseteq B /\ x = Ru(v).head
      BY <2>2, <2>4
    <3> QED
      BY <1>11, <3>1
  <2> QED
    BY <2>3, <2>4
<1> QED
  BY <1>8, <1>9, <1>12, <1>21, <1>22, <1>23

(* A support that is stored by version is read back by conclusion.          *)
PremiseIn(V, ref) == IF V[ref[2]].claim[2] = Engine THEN <<"derived", V[ref[2]].claim[1]>> ELSE ref
ReadBack(V, s) == <<s[1], [i \in DOMAIN s[2] |-> PremiseIn(V, s[2][i])]>>
EncodedOne(s, ids) == <<s[1], [i \in DOMAIN s[2] |-> Renamed(s[2][i], ids)]>>
SupportsIn(V, id) == {ReadBack(V, s) : s \in V[id].supports}

(* Reading back and encoding, one support at a time.                         *)
LEMMA ReadIs ==
    /\ \A id : SemanticSupports(id) = SupportsIn(versions, id)
    /\ \A supports, ids : Encoded(supports, ids) = {EncodedOne(s, ids) : s \in supports}
<1>1. \A id : SemanticSupports(id) = SupportsIn(versions, id)
  BY DEF SemanticSupports, SemanticPremise, SupportsIn, ReadBack, PremiseIn
<1>2. \A supports, ids : Encoded(supports, ids) = {EncodedOne(s, ids) : s \in supports}
  BY DEF Encoded, EncodedOne, Renamed
<1> QED
  BY <1>1, <1>2

Identified(V, V2, K, kept, ids) ==
    /\ Len(V) \in Nat /\ \A i \in 1..Len(V) : V2[i] = V[i]
    /\ \A k \in K : IF kept[k] # 0 THEN kept[k] \in 1..Len(V) /\ V[kept[k]].claim = <<k, Engine>>
                    ELSE ids[k] # 0 /\ V2[ids[k]].claim = <<k, Engine>>

(* A premise that was stored is read back as it was.                         *)
LEMMA PremiseBack ==
    ASSUME NEW V, NEW V2, NEW K, NEW kept, NEW ids, Identified(V, V2, K, kept, ids), NEW ref, Premise(ref, V, K)
    PROVE  PremiseIn(V2, Renamed(Renamed(ref, kept), ids)) = ref
<1>1. CASE \E j \in 1..Len(V) : ref = <<"version", j>> /\ V[j].claim[2] # Engine
  <2>1. PICK j \in 1..Len(V) : ref = <<"version", j>> /\ V[j].claim[2] # Engine
    BY <1>1
  <2>2. Renamed(ref, kept) = ref /\ Renamed(ref, ids) = ref
    BY <2>1 DEF Renamed
  <2>3. V2[j] = V[j]
    BY DEF Identified
  <2> QED
    BY <2>1, <2>2, <2>3 DEF PremiseIn
<1>2. CASE \E k \in K : ref = <<"derived", k>>
  <2>1. PICK k \in K : ref = <<"derived", k>>
    BY <1>2
  <2>2. CASE kept[k] # 0
    <3>1. Renamed(ref, kept) = <<"version", kept[k]>>
      BY <2>1, <2>2 DEF Renamed
    <3>2. Renamed(<<"version", kept[k]>>, ids) = <<"version", kept[k]>>
      BY DEF Renamed
    <3>3. V2[kept[k]].claim = <<k, Engine>>
      BY <2>2 DEF Identified
    <3> QED
      BY <2>1, <3>1, <3>2, <3>3 DEF PremiseIn
  <2>3. CASE kept[k] = 0
    <3>1. Renamed(ref, kept) = ref
      BY <2>1, <2>3 DEF Renamed
    <3>2. ids[k] # 0 /\ V2[ids[k]].claim = <<k, Engine>>
      BY <2>3 DEF Identified
    <3>3. Renamed(ref, ids) = <<"version", ids[k]>>
      BY <2>1, <3>2 DEF Renamed
    <3> QED
      BY <2>1, <3>1, <3>2, <3>3 DEF PremiseIn
  <2> QED
    BY <2>2, <2>3
<1> QED
  BY <1>1, <1>2 DEF Premise

(* So is a support.                                                          *)
LEMMA SupportBack ==
    ASSUME NEW V, NEW V2, NEW K, NEW kept, NEW ids, Identified(V, V2, K, kept, ids), NEW s, Sourced(s, V, K)
    PROVE  ReadBack(V2, EncodedOne(EncodedOne(s, kept), ids)) = s
<1>1. PICK r : r = s[2]
  OBVIOUS
<1>2. PICK y : y = [i \in DOMAIN r |-> Renamed(r[i], kept)]
  OBVIOUS
<1>3. PICK z : z = [i \in DOMAIN r |-> Renamed(y[i], ids)]
  OBVIOUS
<1>4. EncodedOne(s, kept) = <<s[1], y>>
  BY <1>1, <1>2 DEF EncodedOne
<1>5. DOMAIN y = DOMAIN r
  BY <1>2
<1>6. EncodedOne(<<s[1], y>>, ids) = <<s[1], z>>
  BY <1>3, <1>5 DEF EncodedOne
<1>7. DOMAIN z = DOMAIN r
  BY <1>3
<1>8. ReadBack(V2, <<s[1], z>>) = <<s[1], [i \in DOMAIN r |-> PremiseIn(V2, z[i])]>>
  BY <1>7 DEF ReadBack
<1>9. ASSUME NEW i \in DOMAIN r PROVE PremiseIn(V2, z[i]) = r[i]
  <2>1. z[i] = Renamed(Renamed(r[i], kept), ids)
    BY <1>2, <1>3
  <2>2. Premise(r[i], V, K)
    BY <1>1 DEF Sourced
  <2> QED
    BY <2>1, <2>2, PremiseBack
<1>10. [i \in DOMAIN r |-> PremiseIn(V2, z[i])] = [i \in DOMAIN r |-> r[i]]
  BY <1>9
<1>11. [i \in DOMAIN r |-> r[i]] = r /\ s = <<s[1], r>>
  BY <1>1 DEF Sourced
<1> QED
  BY <1>4, <1>6, <1>8, <1>10, <1>11

(* So are all the supports of a conclusion.                                  *)
LEMMA SupportsBack ==
    ASSUME NEW V, NEW V2, NEW K, NEW kept, NEW ids, Identified(V, V2, K, kept, ids),
           NEW S, \A s \in S : Sourced(s, V, K), NEW id, V2[id].supports = Encoded(Encoded(S, kept), ids)
    PROVE  SupportsIn(V2, id) = S
<1>1. PICK E : E = {EncodedOne(s, kept) : s \in S}
  OBVIOUS
<1>2. PICK F : F = {EncodedOne(s, ids) : s \in E}
  OBVIOUS
<1>3. V2[id].supports = F
  BY <1>1, <1>2, ReadIs
<1>4. SupportsIn(V2, id) = {ReadBack(V2, s) : s \in F}
  BY <1>3 DEF SupportsIn
<1>5. \A s \in S : ReadBack(V2, EncodedOne(EncodedOne(s, kept), ids)) = s
  BY SupportBack
<1>6. \A s \in S : EncodedOne(EncodedOne(s, kept), ids) \in F
  BY <1>1, <1>2
<1>7. \A x \in F : \E s \in S : x = EncodedOne(EncodedOne(s, kept), ids)
  BY <1>1, <1>2
<1>8. ASSUME NEW x \in SupportsIn(V2, id) PROVE x \in S
  BY <1>4, <1>5, <1>7
<1>9. ASSUME NEW s \in S PROVE s \in SupportsIn(V2, id)
  BY <1>4, <1>5, <1>6
<1> QED
  BY <1>8, <1>9

(* What was stored before reads the same.                                   *)
LEMMA ReadsSame ==
    ASSUME NEW V, NEW V2, Len(V) \in Nat, \A i \in 1..Len(V) : V2[i] = V[i], Versioned(V), NEW id \in 1..Len(V)
    PROVE  SupportsIn(V2, id) = SupportsIn(V, id)
<1>1. ASSUME NEW s \in V[id].supports PROVE ReadBack(V2, s) = ReadBack(V, s)
  <2>1. Pending(s, Len(V), {})
    BY DEF Versioned
  <2>2. ASSUME NEW i \in DOMAIN s[2] PROVE PremiseIn(V2, s[2][i]) = PremiseIn(V, s[2][i])
    <3>1. PICK j \in 1..Len(V) : s[2][i] = <<"version", j>>
      BY <2>1 DEF Pending, Refers
    <3>2. s[2][i][2] = j
      BY <3>1
    <3> QED
      BY <3>2 DEF PremiseIn
  <2> QED
    BY <2>2 DEF ReadBack
<1>2. V2[id] = V[id]
  OBVIOUS
<1> QED
  BY <1>1, <1>2 DEF SupportsIn

-----------------------------------------------------------------------------
(* A maintenance pass.                                                      *)

Repairing(t, out, existing, changed, writes) ==
    /\ out = MaintenanceOutputs(t) /\ existing = ExistingAt(t)
    /\ changed = ChangedOutputs(out, existing) /\ writes = Repairs(out, changed, existing)

(* What a pass writes anew are its changed conclusions, and it can be        *)
(* stored.                                                                   *)
LEMMA RepairsStand ==
    ASSUME Stored, NEW t \in Instants, NEW out, NEW existing, NEW changed, NEW writes,
           Repairing(t, out, existing, changed, writes)
    PROVE  /\ Standing(writes, Engine) = Redone(changed, existing)
           /\ Keys(Redone(changed, existing)) = Keys(changed) /\ changed \subseteq out
           /\ Writable(writes, Engine, Len(versions))
           /\ \A k \in Keys(out) : k \in Keys(changed) \/ existing[k] # 0
           /\ \A k \in Facts : existing[k] = 0 \/ (/\ existing[k] \in 1..Len(versions)
                                                   /\ versions[existing[k]].claim = <<k, Engine>>
                                                   /\ t \in versions[existing[k]].valid)
<1>1. PassOutputs(out, t, versions)
  BY PassIs DEF Repairing
<1>2. PICK n \in Nat : n = Len(versions)
  BY DEF Stored
<1>3. PICK kept : kept = KeptIds(changed, existing)
  OBVIOUS
<1>4. \A o \in out : o.key \in Facts
  BY <1>1 DEF PassOutputs
<1>5. changed \subseteq out /\ Amiss(out, existing) \subseteq changed
  BY <1>4, ChangedIs DEF Repairing
<1>6. Redone(changed, existing) = {Write(o.key, o.valid, Encoded(o.supports, kept)) : o \in changed}
  BY <1>3 DEF Redone
<1>7. \A o \in changed : Encoded(o.supports, kept) # {}
  <2>1. TAKE o \in changed
  <2>2. o.supports # {}
    BY <1>1, <1>5 DEF PassOutputs
  <2>3. Encoded(o.supports, kept) = {EncodedOne(s, kept) : s \in o.supports}
    BY ReadIs
  <2> QED
    BY <2>2, <2>3
<1>8. \A w \in Redone(changed, existing) : w.supports # {}
  BY <1>6, <1>7 DEF Write
<1>9. \A w : Undone(w, out, changed, existing) => w.supports = {} /\ w.key \in Facts
  BY <1>4, <1>5 DEF Undone, Retraction, Write
<1>10. \A w : w \in writes <=> w \in Redone(changed, existing) \/ Undone(w, out, changed, existing)
  BY RepairsAre DEF Repairing
<1>11. Standing(writes, Engine) = Redone(changed, existing)
  BY <1>8, <1>9, <1>10 DEF Standing
<1>12. Keys(Redone(changed, existing)) = Keys(changed)
  <2>1. \A o \in changed : Write(o.key, o.valid, Encoded(o.supports, kept)).key = o.key
    BY DEF Write
  <2> QED
    BY <1>6, <2>1 DEF Keys
<1>13. \A k \in Keys(out) : k \in Keys(changed) \/ existing[k] # 0
  BY <1>5 DEF Keys, Amiss
<1>14. \A k \in Facts : existing[k] = 0 \/ (/\ existing[k] \in 1..n /\ versions[existing[k]].claim = <<k, Engine>>
                                            /\ t \in versions[existing[k]].valid)
  <2>1. TAKE k \in Facts
  <2>2. existing[k] = held[<<k, Engine>>][t]
    BY DEF Repairing, ExistingAt
  <2>3. PICK c \in Statements : c = <<k, Engine>>
    BY DEF Statements
  <2>4. ShownIn(versions, held)
    BY DEF Stored
  <2>5. held[c][t] = 0 \/ (held[c][t] \in 1..n /\ versions[held[c][t]].claim = c /\ t \in versions[held[c][t]].valid)
    BY <1>2, <2>4 DEF ShownIn
  <2> QED
    BY <2>2, <2>3, <2>5
<1>15. \A k \in Facts : ValidOf(existing[k]) \in SUBSET Instants
  <2>1. TAKE k \in Facts
  <2>2. existing[k] # 0 => versions[existing[k]].valid \in SUBSET Instants
    BY <1>2, <1>14 DEF Stored, Versioned
  <2> QED
    BY <2>2 DEF ValidOf
<1>16. ASSUME NEW o \in changed, NEW s \in o.supports PROVE Pending(EncodedOne(s, kept), n, Keys(changed))
  <2>1. Sourced(s, versions, Keys(out))
    BY <1>1, <1>5 DEF PassOutputs
  <2>2. PICK y : y = [i \in DOMAIN s[2] |-> Renamed(s[2][i], kept)]
    OBVIOUS
  <2>3. EncodedOne(s, kept) = <<s[1], y>> /\ DOMAIN y = DOMAIN s[2] /\ y = [i \in DOMAIN y |-> y[i]]
    BY <2>2 DEF EncodedOne
  <2>4. ASSUME NEW i \in DOMAIN s[2] PROVE Refers(y[i], n, Keys(changed))
    <3>1. Premise(s[2][i], versions, Keys(out)) /\ y[i] = Renamed(s[2][i], kept)
      BY <2>1, <2>2 DEF Sourced
    <3>2. CASE \E j \in 1..n : s[2][i] = <<"version", j>>
      BY <3>1, <3>2 DEF Renamed, Refers
    <3>3. CASE \E k \in Keys(out) : s[2][i] = <<"derived", k>>
      <4>1. PICK k \in Keys(out) : s[2][i] = <<"derived", k>>
        BY <3>3
      <4>2. k \in Facts
        BY <1>4 DEF Keys
      <4>3. kept[k] = IF k \in Keys(changed) THEN 0 ELSE existing[k]
        BY <1>3, <4>2 DEF KeptIds
      <4>4. CASE k \in Keys(changed)
        <5>1. y[i] = <<"derived", k>>
          BY <3>1, <4>1, <4>3, <4>4 DEF Renamed
        <5> QED
          BY <4>4, <5>1 DEF Refers
      <4>5. CASE k \notin Keys(changed)
        <5>1. kept[k] # 0 /\ kept[k] \in 1..n
          BY <1>13, <1>14, <4>2, <4>3, <4>5
        <5>2. y[i] = <<"version", kept[k]>>
          BY <3>1, <4>1, <5>1 DEF Renamed
        <5> QED
          BY <5>1, <5>2 DEF Refers
      <4> QED
        BY <4>4, <4>5
    <3> QED
      BY <1>2, <3>1, <3>2, <3>3 DEF Premise
  <2> QED
    BY <2>3, <2>4 DEF Pending
<1>17. ASSUME NEW w \in Redone(changed, existing)
       PROVE  /\ w.key \in Facts /\ w.valid \in SUBSET Instants
              /\ \A s \in w.supports : Pending(s, n, Keys(changed))
  <2>1. PICK o \in changed : w = Write(o.key, o.valid, Encoded(o.supports, kept))
    BY <1>6
  <2>2. w.key = o.key /\ w.valid = o.valid /\ w.supports = {EncodedOne(s, kept) : s \in o.supports}
    BY <2>1, ReadIs DEF Write
  <2>3. o.key \in Facts /\ o.valid \in SUBSET Instants
    BY <1>1, <1>5 DEF PassOutputs
  <2> QED
    BY <1>16, <2>2, <2>3
<1>18. ASSUME NEW w, Undone(w, out, changed, existing)
       PROVE  w.key \in Facts /\ w.valid \in SUBSET Instants /\ w.supports = {}
  <2>1. CASE \E o \in changed : w = Retraction(o.key, ValidOf(existing[o.key]) \ o.valid)
    <3>1. PICK o \in changed : w = Retraction(o.key, ValidOf(existing[o.key]) \ o.valid)
      BY <2>1
    <3>2. o.key \in Facts /\ w.valid = ValidOf(existing[o.key]) \ o.valid
      BY <1>4, <1>5, <3>1 DEF Retraction, Write
    <3> QED
      BY <1>9, <1>15, <1>18, <3>2
  <2>2. CASE \E k \in Facts \ Keys(out) : w = Retraction(k, ValidOf(existing[k]))
    BY <1>9, <1>15, <1>18, <2>2 DEF Retraction, Write
  <2> QED
    BY <1>18, <2>1, <2>2 DEF Undone
<1>19. \A w, x \in Redone(changed, existing) : w.key = x.key => w = x
  <2>1. \A o, p \in changed : o.key = p.key => o = p
    BY <1>1, <1>5 DEF PassOutputs
  <2>2. \A o \in changed : Write(o.key, o.valid, Encoded(o.supports, kept)).key = o.key
    BY DEF Write
  <2> QED
    BY <1>6, <2>1, <2>2
<1>20. Writable(writes, Engine, n)
  BY <1>10, <1>11, <1>12, <1>17, <1>18, <1>19 DEF Writable
<1> QED
  BY <1>2, <1>5, <1>11, <1>12, <1>13, <1>14, <1>20

ShownNext(H, H2, writes, W, ids, t, k) ==
    /\ \A w \in W : (w.key = k /\ t \in w.valid) => H2[<<k, Engine>>][t] = ids[k]
    /\ k \notin Keys(W) => \A w \in writes : (w.key = k /\ t \in w.valid) => H2[<<k, Engine>>][t] = 0
    /\ (k \notin Keys(writes) /\ k \notin Keys(W)) => H2[<<k, Engine>>][t] = H[<<k, Engine>>][t]
    /\ (k \notin Keys(W) /\ H[<<k, Engine>>][t] = 0) => H2[<<k, Engine>>][t] = 0

(* What a claim of the engine shows after a commit.                         *)
LEMMA ShownAfter ==
    ASSUME NEW V, NEW V2, NEW H, NEW H2, NEW writes, NEW ids, NEW t \in Instants, NEW k \in Facts, NEW W,
           Committed(V, V2, H, H2, Engine, writes, ids), W = Standing(writes, Engine)
    PROVE  ShownNext(H, H2, writes, W, ids, t, k)
<1>1. PICK c \in Statements : c = <<k, Engine>>
  BY DEF Statements
<1>2. H2[c][t] = IF Covers(W, Engine, c, t) THEN ids[k] ELSE IF Covers(writes, Engine, c, t) THEN 0 ELSE H[c][t]
  BY <1>1 DEF Committed
<1>3. \A S : Covers(S, Engine, c, t) <=> \E w \in S : w.key = k /\ t \in w.valid
  BY <1>1 DEF Covers
<1>4. k \notin Keys(W) => ~Covers(W, Engine, c, t)
  BY <1>3 DEF Keys
<1>5. k \notin Keys(writes) => ~Covers(writes, Engine, c, t)
  BY <1>3 DEF Keys
<1> QED
  BY <1>1, <1>2, <1>3, <1>4, <1>5 DEF ShownNext

(* The claims of agents are as before.                                      *)
LEMMA BaseSame ==
    ASSUME Stored, Stored', NEW t \in Instants, NEW writes, NEW ids,
           Committed(versions, versions', held, held', Engine, writes, ids)
    PROVE  BaseAt(t)' = BaseAt(t)
<1>1. PICK V, V2, H, H2 : V = versions /\ V2 = versions' /\ H = held /\ H2 = held'
  OBVIOUS
<1>2. PICK D : D = {c \in Statements : c[2] # Engine /\ H[c][t] # 0}
  OBVIOUS
<1>3. \A c \in Statements : c[2] # Engine => H2[c][t] = H[c][t]
  <2>1. TAKE c \in Statements
  <2>2. HAVE c[2] # Engine
  <2>3. \A S : ~Covers(S, Engine, c, t)
    BY <2>2 DEF Covers
  <2> QED
    BY <1>1, <2>3 DEF Committed
<1>4. D = {c \in Statements : c[2] # Engine /\ H2[c][t] # 0}
  BY <1>2, <1>3
<1>5. \A c \in D : H2[c][t] = H[c][t] /\ V2[H[c][t]] = V[H[c][t]]
  <2>1. TAKE c \in D
  <2>2. c \in Statements /\ c[2] # Engine /\ H[c][t] # 0
    BY <1>2
  <2>3. H[c][t] \in 1..Len(V)
    BY <1>1, <2>2 DEF Stored, ShownIn
  <2>4. V2[H[c][t]] = V[H[c][t]]
    BY <1>1, <2>3 DEF Committed
  <2> QED
    BY <1>3, <2>2, <2>4
<1>6. BaseAt(t) = {[ref |-> <<"version", H[c][t]>>, fact |-> c[1], valid |-> V[H[c][t]].valid] : c \in D}
  BY <1>1, <1>2 DEF BaseAt
<1>7. BaseAt(t)' = {[ref |-> <<"version", H2[c][t]>>, fact |-> c[1], valid |-> V2[H2[c][t]].valid] : c \in D}
  BY <1>1, <1>4 DEF BaseAt
<1> QED
  BY <1>5, <1>6, <1>7

(* After its commit a pass finds its outputs as it would write them.        *)
LEMMA RepairsUphold ==
    ASSUME Stored, Stored', NEW t \in Instants, NEW out, NEW existing, NEW changed, NEW writes, NEW ids,
           Repairing(t, out, existing, changed, writes), UNCHANGED active,
           Committed(versions, versions', held, held', Engine, writes, ids)
    PROVE  Upheld(t)'
<1>1. PICK V, V2, H, H2 : V = versions /\ V2 = versions' /\ H = held /\ H2 = held'
  OBVIOUS
<1>2. PICK W : W = Standing(writes, Engine)
  OBVIOUS
<1>3. PICK kept : kept = KeptIds(changed, existing)
  OBVIOUS
<1>4. PICK n \in Nat : n = Len(V)
  BY <1>1 DEF Stored
<1>5. /\ W = Redone(changed, existing) /\ Keys(W) = Keys(changed) /\ changed \subseteq out
      /\ \A k \in Keys(out) : k \in Keys(changed) \/ existing[k] # 0
      /\ \A k \in Facts : existing[k] = 0 \/ (/\ existing[k] \in 1..n /\ V[existing[k]].claim = <<k, Engine>>
                                              /\ t \in V[existing[k]].valid)
  BY <1>1, <1>2, <1>4, RepairsStand
<1>6. PassOutputs(out, t, V)
  BY <1>1, PassIs DEF Repairing
<1>7. Committed(V, V2, H, H2, Engine, writes, ids)
  BY <1>1
<1>25. \A k \in Facts : ShownNext(H, H2, writes, W, ids, t, k)
  BY <1>2, <1>7, ShownAfter
<1>8. \A i \in 1..n : V2[i] = V[i]
  BY <1>4, <1>7 DEF Committed
<1>9. \A o \in out : o.key \in Facts /\ o.key \in Keys(out)
  BY <1>6 DEF PassOutputs, Keys
<1>10. \A k \in Facts : existing[k] = H[<<k, Engine>>][t]
  BY <1>1 DEF Repairing, ExistingAt
<1>11. PICK later : later = ExistingAt(t)'
  OBVIOUS
<1>12. \A k \in Facts : later[k] = H2[<<k, Engine>>][t]
  BY <1>1, <1>11 DEF ExistingAt
<1>13. \A w \in writes : w \in W \/ Undone(w, out, changed, existing)
  BY <1>5, RepairsAre DEF Repairing
<1>14. \A k \in Keys(out) : k \notin Keys(changed) => k \notin Keys(writes)
  <2>1. TAKE k \in Keys(out)
  <2>2. HAVE k \notin Keys(changed)
  <2>3. ASSUME NEW w \in writes PROVE w.key # k
    <3>1. CASE w \in W
      BY <1>5, <2>2, <3>1 DEF Keys
    <3>2. CASE w \notin W
      <4>1. Undone(w, out, changed, existing)
        BY <1>13, <3>2
      <4>2. CASE \E o \in changed : w = Retraction(o.key, ValidOf(existing[o.key]) \ o.valid)
        BY <2>2, <4>2 DEF Retraction, Write, Keys
      <4>3. CASE \E j \in Facts \ Keys(out) : w = Retraction(j, ValidOf(existing[j]))
        BY <4>3 DEF Retraction, Write
      <4> QED
        BY <4>1, <4>2, <4>3 DEF Undone
    <3> QED
      BY <3>1, <3>2
  <2> QED
    BY <2>3 DEF Keys
<1>15. ASSUME NEW o \in changed
       PROVE  /\ later[o.key] = ids[o.key] /\ ids[o.key] \in (n + 1)..Len(V2)
              /\ V2[ids[o.key]].claim = <<o.key, Engine>> /\ V2[ids[o.key]].valid = o.valid
              /\ V2[ids[o.key]].supports = Encoded(Encoded(o.supports, kept), ids)
  <2>1. PICK w \in W : w = Write(o.key, o.valid, Encoded(o.supports, kept))
    BY <1>3, <1>5 DEF Redone
  <2>2. w.key = o.key /\ w.valid = o.valid /\ w.supports = Encoded(o.supports, kept)
    BY <2>1 DEF Write
  <2>3. o.key \in Facts /\ t \in o.valid
    BY <1>5, <1>6 DEF PassOutputs
  <2>4. later[o.key] = ids[o.key]
    <3>1. ShownNext(H, H2, writes, W, ids, t, o.key)
      BY <1>25, <2>3
    <3>2. H2[<<o.key, Engine>>][t] = ids[o.key]
      BY <2>2, <2>3, <3>1 DEF ShownNext
    <3> QED
      BY <1>12, <2>3, <3>2
  <2>5. ids[w.key] \in (n + 1)..Len(V2) /\ V2[ids[w.key]] = VersionOf(w, Engine, ids)
    BY <1>2, <1>4, <1>7 DEF Committed
  <2>6. /\ VersionOf(w, Engine, ids).claim = <<w.key, Engine>> /\ VersionOf(w, Engine, ids).valid = w.valid
        /\ VersionOf(w, Engine, ids).supports = Encoded(w.supports, ids)
    BY DEF VersionOf
  <2> QED
    BY <2>2, <2>4, <2>5, <2>6
<1>16. ASSUME NEW k \in Keys(out), k \notin Keys(changed) PROVE later[k] = existing[k]
  <2>1. k \in Facts
    BY <1>9 DEF Keys
  <2>2. H2[<<k, Engine>>][t] = H[<<k, Engine>>][t]
    BY <1>5, <1>14, <1>16, <1>25, <2>1 DEF ShownNext
  <2> QED
    BY <1>10, <1>12, <2>1, <2>2
<1>17. ASSUME NEW k \in Facts, k \notin Keys(out) PROVE later[k] = 0
  <2>1. k \notin Keys(W)
    BY <1>5, <1>17 DEF Keys
  <2>2. CASE existing[k] = 0
    BY <1>10, <1>12, <1>25, <2>1, <2>2 DEF ShownNext
  <2>3. CASE existing[k] # 0
    <3>1. t \in ValidOf(existing[k])
      BY <1>1, <1>5, <2>3 DEF ValidOf
    <3>2. PICK w : w = Retraction(k, ValidOf(existing[k]))
      OBVIOUS
    <3>3. w.key = k /\ w.valid = ValidOf(existing[k])
      BY <3>2 DEF Retraction, Write
    <3>4. Undone(w, out, changed, existing)
      BY <1>17, <3>1, <3>2, <3>3 DEF Undone
    <3>5. w \in writes
      BY <3>4, RepairsAre DEF Repairing
    <3> QED
      BY <1>12, <1>25, <2>1, <3>1, <3>3, <3>5 DEF ShownNext
  <2> QED
    BY <2>2, <2>3
<1>18. \A k \in Keys(out) : later[k] # 0
  <2>1. TAKE k \in Keys(out)
  <2>2. CASE k \in Keys(changed)
    <3>1. PICK o \in changed : o.key = k
      BY <2>2 DEF Keys
    <3> QED
      BY <1>4, <1>15, <3>1
  <2>3. CASE k \notin Keys(changed)
    BY <1>5, <1>16, <2>3
  <2> QED
    BY <2>2, <2>3
<1>19. MaintenanceOutputs(t)' = out
  <2>1. BaseAt(t)' = BaseAt(t)
    BY BaseSame
  <2> QED
    BY <2>1 DEF MaintenanceOutputs, MaintenanceBase, Repairing
<1>20. Derived(t)' = Keys(out)
  <2>1. Derived(t)' = {k \in Facts : later[k] # 0}
    BY <1>11 DEF Derived
  <2>2. Keys(out) \subseteq Facts
    BY <1>9 DEF Keys
  <2> QED
    BY <1>17, <1>18, <2>1, <2>2
<1>21. Identified(V, V2, Keys(out), kept, ids)
  <2>1. ASSUME NEW k \in Keys(out)
        PROVE  IF kept[k] # 0 THEN kept[k] \in 1..n /\ V[kept[k]].claim = <<k, Engine>>
               ELSE ids[k] # 0 /\ V2[ids[k]].claim = <<k, Engine>>
    <3>1. k \in Facts
      BY <1>9 DEF Keys
    <3>2. kept[k] = IF k \in Keys(changed) THEN 0 ELSE existing[k]
      BY <1>3, <3>1 DEF KeptIds
    <3>3. CASE k \in Keys(changed)
      <4>1. PICK o \in changed : o.key = k
        BY <3>3 DEF Keys
      <4>2. kept[k] = 0
        BY <3>2, <3>3
      <4>3. ids[k] \in (n + 1)..Len(V2) /\ V2[ids[k]].claim = <<k, Engine>>
        BY <1>15, <4>1
      <4>4. ids[k] # 0
        BY <1>4, <4>3
      <4> QED
        BY <4>2, <4>3, <4>4
    <3>4. CASE k \notin Keys(changed)
      BY <1>5, <3>1, <3>2, <3>4
    <3> QED
      BY <3>3, <3>4
  <2> QED
    BY <1>4, <1>8, <2>1 DEF Identified
<1>22. ASSUME NEW o \in out
       PROVE  V2[later[o.key]].valid = o.valid /\ SupportsIn(V2, later[o.key]) = o.supports
  <2>1. CASE o.key \in Keys(changed)
    <3>1. PICK p \in changed : p.key = o.key
      BY <2>1 DEF Keys
    <3>2. p = o
      BY <1>5, <1>6, <3>1 DEF PassOutputs
    <3>3. \A s \in o.supports : Sourced(s, V, Keys(out))
      BY <1>6 DEF PassOutputs
    <3>4. V2[later[o.key]].valid = o.valid /\ V2[later[o.key]].supports = Encoded(Encoded(o.supports, kept), ids)
      BY <1>15, <3>2
    <3> QED
      BY <1>21, <3>3, <3>4, SupportsBack
  <2>2. CASE o.key \notin Keys(changed)
    <3>1. PICK id : id = existing[o.key]
      OBVIOUS
    <3>2. later[o.key] = id /\ id \in 1..n
      BY <1>5, <1>9, <1>16, <2>2, <3>1
    <3>3. o \notin Amiss(out, existing)
      <4>1. Amiss(out, existing) \subseteq changed
        BY <1>9, ChangedIs DEF Repairing
      <4> QED
        BY <2>2, <4>1 DEF Keys
    <3>4. ~Differs(id, o)
      BY <3>1, <3>3 DEF Amiss
    <3>5. V[id].valid = o.valid /\ SupportsIn(V, id) = o.supports
      BY <1>1, <3>4, ReadIs DEF Differs
    <3>6. SupportsIn(V2, id) = SupportsIn(V, id)
      BY <1>1, <1>4, <1>8, <3>2, ReadsSame DEF Stored
    <3> QED
      BY <1>8, <3>2, <3>5, <3>6
  <2> QED
    BY <2>1, <2>2
<1>23. \A id : SemanticSupports(id)' = SupportsIn(V2, id)
  BY <1>1 DEF SemanticSupports, SemanticPremise, SupportsIn, ReadBack, PremiseIn
<1>24. \A o \in out : ~(Differs(later[o.key], o)')
  BY <1>1, <1>22, <1>23 DEF Differs
<1> QED
  BY <1>11, <1>19, <1>20, <1>24 DEF Upheld

-----------------------------------------------------------------------------
(* The invariant: a well-formed store, the writes of a run in progress, a   *)
(* log that says when the last pass was, and outputs as the last pass left  *)
(* them.                                                                    *)

RuleInv ==
    /\ Stored
    /\ run.on => Writable(run.writes, Engine, Len(versions)) /\ run.instant \in Instants
    /\ Logged
    /\ maintained # None => maintained \in Instants /\ Upheld(maintained)

(* Init establishes the invariant.                                           *)
LEMMA StoredStarts == ASSUME Init PROVE RuleInv
<1>1. versions = <<>> /\ Len(versions) = 0 /\ versions \in Seq({})
  BY DEF Init
<1>2. \A c \in Statements, t \in Instants : held[c][t] = 0
  BY DEF Init
<1>3. held = [c \in Statements |-> [t \in Instants |-> held[c][t]]]
  BY DEF Init
<1>4. Versioned(versions)
  BY <1>1 DEF Versioned
<1>5. ShownIn(versions, held)
  BY <1>2 DEF ShownIn
<1>6. active \in SUBSET DOMAIN RuleVersions /\ Stratifies(active)
  BY ProgramsAssumption DEF Init
<1>7. Stored
  BY <1>1, <1>3, <1>4, <1>5, <1>6 DEF Stored
<1>8. ~run.on /\ maintained = None
  BY DEF Init, NoRun
<1>9. Logged
  <2>1. meta = <<>> /\ Stamped(meta) = {} /\ meta \in Seq(Instants \cup {None}) /\ Len(meta) = 0
    BY DEF Init, Stamped
  <2>2. state.instant = None /\ state.through = 0 /\ saving = NoState /\ lastPass = None
    BY DEF Init, NoState
  <2> QED
    BY <2>1, <2>2, LastIs DEF Logged, Latest
<1> QED
  BY <1>7, <1>8, <1>9 DEF RuleInv

(* What depends on the store and the program only.                           *)
LEMMA StoredSame ==
    ASSUME UNCHANGED <<versions, held, active>>
    PROVE  (Stored <=> Stored') /\ \A t : Upheld(t) <=> Upheld(t)'
<1>1. Stored <=> Stored'
  BY DEF Stored
<1>2. ASSUME NEW t PROVE Upheld(t) <=> Upheld(t)'
  <2>1. MaintenanceOutputs(t)' = MaintenanceOutputs(t)
    BY DEF MaintenanceOutputs, MaintenanceBase, BaseAt
  <2>2. ExistingAt(t)' = ExistingAt(t)
    BY DEF ExistingAt
  <2>3. Derived(t)' = Derived(t)
    BY <2>2 DEF Derived
  <2>4. \A id : SemanticSupports(id)' = SemanticSupports(id)
    BY DEF SemanticSupports, SemanticPremise
  <2>5. \A id, o : Differs(id, o)' <=> Differs(id, o)
    BY <2>4 DEF Differs
  <2> QED
    BY <2>1, <2>2, <2>3, <2>5 DEF Upheld
<1> QED
  BY <1>1, <1>2

(* What depends on the log only.                                             *)
LEMMA LoggedSame == ASSUME Logged, UNCHANGED <<meta, state, saving, lastPass>> PROVE Logged'
BY DEF Logged, LastInstant, Latest

(* Writes that can be stored can be stored after others.                     *)
LEMMA WritableMore ==
    ASSUME NEW writes, NEW agent, NEW n \in Nat, NEW m \in Nat, n <= m, Writable(writes, agent, n)
    PROVE  Writable(writes, agent, m)
<1>1. \A w \in writes : \A s \in w.supports : Pending(s, m, Keys(Standing(writes, agent)))
  BY PendingMore DEF Writable
<1> QED
  BY <1>1 DEF Writable

(* A commit of well-formed writes.                                          *)
LEMMA CommitKeeps ==
    ASSUME Stored, NEW agent, NEW writes, NEW asOf, CommitVersions(agent, writes, asOf),
           Writable(writes, agent, Len(versions)), UNCHANGED active
    PROVE  /\ Stored' /\ meta' = Append(meta, asOf)
           /\ Len(versions) \in Nat /\ Len(versions') \in Nat /\ Len(versions) <= Len(versions')
           /\ \E ids : Committed(versions, versions', held, held', agent, writes, ids)
<1>1. /\ \A w \in Standing(writes, agent) : w.key \in Facts
      /\ \A w, x \in Standing(writes, agent) : w.key = x.key => w = x
  BY DEF Writable, Standing
<1>2. \E S : versions \in Seq(S)
  BY DEF Stored
<1>3. /\ \E S : versions' \in Seq(S)
      /\ \E ids : Committed(versions, versions', held, held', agent, writes, ids)
      /\ held' = [c \in Statements |-> [t \in Instants |-> held'[c][t]]]
      /\ meta' = Append(meta, asOf)
  BY <1>1, <1>2, CommitIs
<1>4. PICK ids : Committed(versions, versions', held, held', agent, writes, ids)
  BY <1>3
<1>5. Versioned(versions) /\ ShownIn(versions, held)
  BY DEF Stored
<1>6. Versioned(versions') /\ ShownIn(versions', held')
  BY <1>4, <1>5, StoreKept
<1>7. Stored'
  BY <1>3, <1>6 DEF Stored
<1> QED
  BY <1>3, <1>4, <1>7 DEF Committed

-----------------------------------------------------------------------------
(* The actions, one by one.                                                 *)

(* AssertClaim keeps it.                                                     *)
LEMMA AssertKeeps ==
    ASSUME RuleInv, NEW c \in BaseClaims, NEW valid \in Intervals, AssertClaim(c[1], c[2], valid)
    PROVE  RuleInv'
<1>1. PICK f \in Facts, a \in Agents : c = <<f, a>>
  BY RulesAssumption
<1>2. PICK w : w = Write(f, valid, {})
  OBVIOUS
<1>3. w.key = f /\ w.valid = valid /\ w.supports = {}
  BY <1>2 DEF Write
<1>4. CommitVersions(a, {w}, None)
  BY <1>1, <1>2 DEF AssertClaim
<1>5. \A x, y \in Standing({w}, a) : x = y
  BY DEF Standing
<1>6. valid \in SUBSET Instants
  BY InstantsAssumption
<1>7. Writable({w}, a, Len(versions))
  BY <1>3, <1>5, <1>6 DEF Writable
<1>8. UNCHANGED <<active, run, state, saving, lastPass>> /\ maintained' = None /\ saving = NoState
  BY DEF AssertClaim, Changed, GuardFree
<1>9. /\ Stored' /\ meta' = Append(meta, None)
      /\ Len(versions) \in Nat /\ Len(versions') \in Nat /\ Len(versions) <= Len(versions')
  BY <1>4, <1>7, <1>8, CommitKeeps DEF RuleInv
<1>10. Logged'
  BY <1>8, <1>9, LogGrows DEF RuleInv
<1>11. run'.on => Writable(run'.writes, Engine, Len(versions')) /\ run'.instant \in Instants
  BY <1>8, <1>9, WritableMore DEF RuleInv
<1> QED
  BY <1>8, <1>9, <1>10, <1>11 DEF RuleInv

(* RetractClaim keeps it.                                                    *)
LEMMA RetractKeeps ==
    ASSUME RuleInv, NEW c \in BaseClaims, NEW valid \in Intervals, RetractClaim(c[1], c[2], valid)
    PROVE  RuleInv'
<1>1. PICK d : d = <<c[1], c[2]>>
  OBVIOUS
<1>2. held' = [held EXCEPT ![d] = [t \in Instants |-> IF t \in valid THEN 0 ELSE held[d][t]]]
  BY <1>1 DEF RetractClaim
<1>3. held = [e \in Statements |-> [t \in Instants |-> held[e][t]]]
  BY DEF RuleInv, Stored
<1>4. PICK H : H = held
  OBVIOUS
<1>5. PICK H2 : H2 = held'
  OBVIOUS
<1>6. H2 = [e \in Statements |-> IF e = d THEN [t \in Instants |-> IF t \in valid THEN 0 ELSE H[d][t]] ELSE H[e]]
  BY <1>2, <1>3, <1>4, <1>5
<1>7. \A e \in Statements : H[e] = [t \in Instants |-> H[e][t]]
  BY <1>3, <1>4
<1>8. \A e \in Statements : H2[e] = [t \in Instants |-> H2[e][t]]
  BY <1>6, <1>7
<1>9. H2 = [e \in Statements |-> [t \in Instants |-> H2[e][t]]]
  BY <1>6, <1>8
<1>10. \A e \in Statements, t \in Instants : H2[e][t] = 0 \/ H2[e][t] = H[e][t]
  BY <1>6
<1>11. UNCHANGED <<versions, active, run, state, saving, lastPass>> /\ maintained' = None /\ saving = NoState
       /\ meta' = Append(meta, None)
  BY DEF RetractClaim, Changed, GuardFree
<1>12. ShownIn(versions, H)
  BY <1>4 DEF RuleInv, Stored
<1>13. ShownIn(versions, H2)
  BY <1>10, <1>12 DEF ShownIn
<1>14. Stored'
  BY <1>5, <1>9, <1>11, <1>13 DEF RuleInv, Stored
<1>15. Logged'
  BY <1>11, LogGrows DEF RuleInv
<1> QED
  BY <1>11, <1>14, <1>15 DEF RuleInv

(* CreateRule keeps it.                                                      *)
LEMMA CreateKeeps ==
    ASSUME RuleInv, NEW v \in DOMAIN RuleVersions, CreateRule(v)
    PROVE  RuleInv'
<1>1. PICK next : next = {w \in active : Ru(w).rule # Ru(v).rule} \cup {v}
  OBVIOUS
<1>2. Stratifies(next) /\ active' = next
  BY <1>1 DEF CreateRule
<1>3. UNCHANGED <<versions, held, meta, run, state, saving, lastPass>> /\ maintained' = None
  BY DEF CreateRule, Changed
<1>4. next \in SUBSET DOMAIN RuleVersions
  BY <1>1 DEF RuleInv, Stored
<1>5. Stored'
  BY <1>2, <1>3, <1>4 DEF RuleInv, Stored
<1>6. Logged'
  BY <1>3, LoggedSame DEF RuleInv
<1> QED
  BY <1>3, <1>5, <1>6 DEF RuleInv

(* What a run that was read writes once it commits.                         *)
LEMMA ReadWrites ==
    ASSUME Stored, NEW t \in Instants, NEW out, out = RunOutputs(t), NEW existing, existing = ExistingAt(t)
    PROVE  Writable(RunWrites(out, existing), Engine, Len(versions))
<1>28. PICK n \in Nat : n = Len(versions)
  BY DEF Stored
<1>29. PICK V : V = versions
  OBVIOUS
<1>1. n = Len(versions) /\ V = versions
  BY <1>28, <1>29
<1>2. \A k \in Facts : existing[k] = 0 \/ existing[k] \in 1..n
  BY <1>1 DEF Stored, ShownIn, ExistingAt, Statements
<1>3. \A j \in 1..n : V[j].valid \in SUBSET Instants /\ \A s \in V[j].supports : Pending(s, n, {})
  BY <1>1 DEF Stored, Versioned
<1>4. \A k \in Facts : /\ ValidOf(existing[k]) \in SUBSET Instants
                       /\ \A s \in SupportsOf(existing[k]) : Pending(s, n, {})
  BY <1>1, <1>2, <1>3 DEF ValidOf, SupportsOf
<1>5. PICK known : known = {k \in Facts : existing[k] # 0}
  OBVIOUS
<1>6. PICK ref : ref = [k \in Facts |-> IF k \in known THEN <<"version", existing[k]>> ELSE <<"derived", k>>]
  OBVIOUS
<1>7. PICK seeds : seeds = {[ref |-> ref[k], fact |-> k, valid |-> ValidOf(existing[k])] : k \in known}
  OBVIOUS
<1>8. PICK was : was = [k \in Facts |-> ValidOf(existing[k])]
  OBVIOUS
<1>9. PICK A : A = active
  OBVIOUS
<1>10. PICK base : base = BaseAt(t)
  OBVIOUS
<1>11. PICK facts : facts = base \cup (IF \E v \in A : Ru(v).neg # {} THEN {} ELSE seeds)
  OBVIOUS
<1>12. out = Evaluated(A, facts, ref, was)
  BY <1>5, <1>6, <1>7, <1>8, <1>9, <1>10, <1>11 DEF RunOutputs
<1>13. \A k \in Facts : k \in known => ref[k] = <<"version", existing[k]>> /\ existing[k] \in 1..n
  BY <1>2, <1>5, <1>6
<1>14. \A f \in base : f.fact \in Facts /\ f.valid \in SUBSET Instants /\ \E j \in 1..n : f.ref = <<"version", j>>
  BY <1>1, <1>10, BaseHolds DEF Holding
<1>15. \A f \in seeds : f.fact \in Facts /\ f.valid \in SUBSET Instants /\ \E j \in 1..n : f.ref = <<"version", j>>
  <2>1. TAKE f \in seeds
  <2>2. PICK k \in known : f = [ref |-> ref[k], fact |-> k, valid |-> ValidOf(existing[k])]
    BY <1>7
  <2>3. k \in Facts /\ f.fact = k /\ f.valid = ValidOf(existing[k]) /\ f.ref = ref[k]
    BY <1>5, <2>2
  <2> QED
    BY <1>4, <1>13, <2>2, <2>3
<1>16. \A f \in facts : f.fact \in Facts /\ f.valid \in SUBSET Instants /\ \E j \in 1..n : f.ref = <<"version", j>>
  BY <1>11, <1>14, <1>15
<1>17. A \in SUBSET DOMAIN RuleVersions /\ \A k \in Facts : was[k] \in SUBSET Instants
  BY <1>4, <1>8, <1>9 DEF Stored
<1>30. Formed(out, A, facts, ref)
  BY <1>12, <1>16, <1>17, EvaluatedShaped
<1>18. /\ \A o \in out : Output(o, A, RefsOf(facts, ref, out))
       /\ \A o, p \in out : o.key = p.key => o = p
  BY <1>30 DEF Formed
<1>19. PICK writes : writes = RunWrites(out, existing)
  OBVIOUS
<1>20. \A w \in writes : \E o \in out : w = Write(o.key, o.valid, o.supports \cup SupportsOf(existing[o.key]))
  BY <1>19 DEF RunWrites
<1>21. \A o \in out : existing[o.key] = 0 => Write(o.key, o.valid, o.supports \cup SupportsOf(existing[o.key])) \in writes
  BY <1>19 DEF RunWrites, Write
<1>22. PICK K : K = Keys(Standing(writes, Engine))
  OBVIOUS
<1>23. \A k \in Keys(out) : k \in Facts /\ (k \notin known => k \in K)
  <2>1. TAKE k \in Keys(out)
  <2>2. PICK o \in out : o.key = k
    BY DEF Keys
  <2>3. k \in Facts /\ o.supports # {}
    BY <1>18, <2>2 DEF Output
  <2>4. CASE k \notin known
    <3>1. PICK w : w = Write(o.key, o.valid, o.supports \cup SupportsOf(existing[o.key]))
      OBVIOUS
    <3>2. w \in writes
      BY <1>5, <1>21, <2>2, <2>3, <2>4, <3>1
    <3>3. w.key = k /\ w.supports # {}
      BY <2>2, <2>3, <3>1 DEF Write
    <3> QED
      BY <1>22, <2>3, <3>2, <3>3 DEF Standing, Keys
  <2> QED
    BY <2>3, <2>4
<1>24. \A x \in RefsOf(facts, ref, out) : Refers(x, n, K)
  <2>1. TAKE x \in RefsOf(facts, ref, out)
  <2>2. CASE \E f \in facts : x = f.ref
    BY <1>16, <2>2 DEF Refers
  <2>3. CASE \E k \in Keys(out) : x = ref[k]
    <3>1. PICK k \in Keys(out) : x = ref[k]
      BY <2>3
    <3>2. CASE k \in known
      BY <1>13, <1>23, <3>1, <3>2 DEF Refers
    <3>3. CASE k \notin known
      <4>1. x = <<"derived", k>> /\ k \in K
        BY <1>6, <1>23, <3>1, <3>3
      <4> QED
        BY <4>1 DEF Refers
    <3> QED
      BY <3>2, <3>3
  <2> QED
    BY <2>2, <2>3 DEF RefsOf
<1>25. ASSUME NEW o \in out, NEW s \in o.supports PROVE Pending(s, n, K)
  <2>1. Supported(s, A, RefsOf(facts, ref, out))
    BY <1>18 DEF Output
  <2>2. DOMAIN s[2] = DOMAIN Ru(s[1]).body
    BY <2>1 DEF Supported
  <2> QED
    BY <1>24, <2>1, <2>2 DEF Supported, Pending
<1>26. ASSUME NEW w \in writes
       PROVE  w.key \in Facts /\ w.valid \in SUBSET Instants /\ \A s \in w.supports : Pending(s, n, K)
  <2>1. PICK o \in out : w = Write(o.key, o.valid, o.supports \cup SupportsOf(existing[o.key]))
    BY <1>20
  <2>2. w.key = o.key /\ w.valid = o.valid /\ w.supports = o.supports \cup SupportsOf(existing[o.key])
    BY <2>1 DEF Write
  <2>3. o.key \in Facts /\ o.valid \in SUBSET Instants
    BY <1>18 DEF Output
  <2>4. \A s \in SupportsOf(existing[o.key]) : Pending(s, n, K)
    BY <1>4, <2>3, PendingMore
  <2> QED
    BY <1>25, <2>2, <2>3, <2>4
<1>27. ASSUME NEW w \in writes, NEW x \in writes, w.key = x.key PROVE w = x
  <2>1. PICK o \in out : w = Write(o.key, o.valid, o.supports \cup SupportsOf(existing[o.key]))
    BY <1>20
  <2>2. PICK p \in out : x = Write(p.key, p.valid, p.supports \cup SupportsOf(existing[p.key]))
    BY <1>20
  <2>3. o.key = p.key
    BY <1>27, <2>1, <2>2 DEF Write
  <2> QED
    BY <1>18, <2>1, <2>2, <2>3
<1> QED
  BY <1>1, <1>19, <1>22, <1>26, <1>27 DEF Writable, Standing

(* RunRead keeps it.                                                         *)
LEMMA ReadKeeps ==
    ASSUME RuleInv, NEW t \in AsOf, RunRead(t)
    PROVE  RuleInv'
<1>1. PICK out : /\ out = RunOutputs(t)
                 /\ run' = [on |-> TRUE, writes |-> RunWrites(out, ExistingAt(t)), instant |-> t]
  BY DEF RunRead
<1>2. UNCHANGED <<versions, held, meta, active, state, saving, maintained, lastPass>>
  BY DEF RunRead
<1>3. t \in Instants
  BY InstantsAssumption
<1>4. Writable(RunWrites(out, ExistingAt(t)), Engine, Len(versions))
  BY <1>1, <1>3, ReadWrites DEF RuleInv
<1>5. PICK writes : writes = RunWrites(out, ExistingAt(t))
  OBVIOUS
<1>6. run'.writes = writes /\ run'.instant = t
  BY <1>1, <1>5
<1>7. Stored' /\ Logged'
  BY <1>2, StoredSame, LoggedSame DEF RuleInv
<1>8. maintained' # None => maintained' \in Instants /\ Upheld(maintained)'
  <2>1. PICK m : m = maintained
    OBVIOUS
  <2>2. m # None => m \in Instants /\ Upheld(m)
    BY <2>1 DEF RuleInv
  <2>3. Upheld(m) <=> Upheld(m)'
    BY <1>2, StoredSame
  <2> QED
    BY <1>2, <2>1, <2>2, <2>3
<1>9. Writable(run'.writes, Engine, Len(versions'))
  BY <1>2, <1>4, <1>5, <1>6
<1> QED
  BY <1>3, <1>6, <1>7, <1>8, <1>9 DEF RuleInv

(* A step that leaves the store alone leaves the conclusions upheld.         *)
LEMMA UpheldSame ==
    ASSUME RuleInv, UNCHANGED <<versions, held, active, maintained>>
    PROVE  maintained' # None => maintained' \in Instants /\ Upheld(maintained)'
<1>1. PICK m : m = maintained
  OBVIOUS
<1>2. m # None => m \in Instants /\ Upheld(m)
  BY <1>1 DEF RuleInv
<1>3. Upheld(m) <=> Upheld(m)'
  BY StoredSame
<1> QED
  BY <1>1, <1>2, <1>3

(* RunCommit keeps it.                                                       *)
LEMMA RunKeeps ==
    ASSUME RuleInv, RunCommit
    PROVE  RuleInv'
<1>1. ~run'.on /\ UNCHANGED <<active, state, saving>> /\ saving = NoState /\ run.on
  BY DEF RunCommit, NoRun, GuardFree
<1>2. CASE run.writes = {}
  <2>1. UNCHANGED <<versions, held, meta, maintained, lastPass>>
    BY <1>2 DEF RunCommit
  <2>2. Stored' /\ Logged'
    BY <1>1, <2>1, StoredSame, LoggedSame DEF RuleInv
  <2>3. maintained' # None => maintained' \in Instants /\ Upheld(maintained)'
    BY <1>1, <2>1, UpheldSame
  <2> QED
    BY <1>1, <2>2, <2>3 DEF RuleInv
<1>3. CASE run.writes # {}
  <2>1. CommitVersions(Engine, run.writes, run.instant) /\ maintained' = None /\ lastPass' = run.instant
    BY <1>3 DEF RunCommit
  <2>2. PICK writes, t : writes = run.writes /\ t = run.instant
    OBVIOUS
  <2>3. Writable(writes, Engine, Len(versions)) /\ t \in Instants
    BY <1>1, <2>2 DEF RuleInv
  <2>4. CommitVersions(Engine, writes, t)
    BY <2>1, <2>2
  <2>5. Stored' /\ meta' = Append(meta, t)
    BY <1>1, <2>3, <2>4, CommitKeeps DEF RuleInv
  <2>6. t # None /\ lastPass' = t
    BY <2>1, <2>2, <2>3, NoInstant
  <2>7. Logged'
    BY <1>1, <2>3, <2>5, <2>6, LogGrows DEF RuleInv
  <2> QED
    BY <1>1, <2>1, <2>5, <2>7 DEF RuleInv
<1> QED
  BY <1>2, <1>3

(* A pass with nothing to write is one whose conclusions stand already.     *)
LEMMA QuietUpholds ==
    ASSUME Stored, NEW t \in Instants, NEW out, NEW existing, NEW changed,
           Repairing(t, out, existing, changed, {})
    PROVE  Upheld(t)
<1>1. \A w : w \notin Redone(changed, existing) /\ ~Undone(w, out, changed, existing)
  BY RepairsAre DEF Repairing
<1>2. changed = {}
  <2>1. ASSUME NEW o \in changed PROVE FALSE
    <3>1. Write(o.key, o.valid, Encoded(o.supports, KeptIds(changed, existing))) \in Redone(changed, existing)
      BY DEF Redone
    <3> QED
      BY <1>1, <3>1
  <2> QED
    BY <2>1
<1>3. PassOutputs(out, t, versions)
  BY PassIs DEF Repairing
<1>4. \A o \in out : o.key \in Facts
  BY <1>3 DEF PassOutputs
<1>5. Amiss(out, existing) = {}
  BY <1>2, <1>4, ChangedIs DEF Repairing
<1>6. \A k \in Facts \ Keys(out) : existing[k] = 0
  <2>1. TAKE k \in Facts \ Keys(out)
  <2>2. SUFFICES ASSUME existing[k] # 0 PROVE FALSE
    OBVIOUS
  <2>3. t \in versions[existing[k]].valid
    BY <2>2, RepairsStand
  <2>4. PICK w : w = Retraction(k, ValidOf(existing[k]))
    OBVIOUS
  <2>5. t \in w.valid
    BY <2>2, <2>3, <2>4 DEF Retraction, Write, ValidOf
  <2> QED
    BY <1>1, <2>4, <2>5 DEF Undone
<1>7. \A o \in out : existing[o.key] # 0 /\ ~Differs(existing[o.key], o)
  BY <1>5 DEF Amiss
<1>8. \A k \in Keys(out) : k \in Facts /\ existing[k] # 0
  BY <1>4, <1>7 DEF Keys
<1>9. Derived(t) = Keys(out)
  BY <1>6, <1>8 DEF Derived, Repairing
<1> QED
  BY <1>7, <1>9 DEF Upheld, Repairing

(* Maintain keeps it.                                                        *)
LEMMA MaintainKeeps ==
    ASSUME RuleInv, NEW t \in AsOf \cup ({LastInstant} \ {None}), Maintain(t)
    PROVE  RuleInv'
<1>1. t \in Instants
  BY LastTyped, InstantsAssumption DEF RuleInv
<1>2. PICK out, existing, changed, writes :
          /\ Repairing(t, out, existing, changed, writes)
          /\ \/ writes = {} /\ UNCHANGED <<versions, held, meta, lastPass>>
             \/ writes # {} /\ CommitVersions(Engine, writes, t) /\ lastPass' = t
  BY DEF Maintain, Repairing
<1>3. /\ saving' = [instant |-> t, through |-> Len(meta')] /\ maintained' = t
      /\ UNCHANGED <<active, run, state>> /\ saving = NoState
  BY DEF Maintain, GuardFree
<1>4. saving'.through = Len(meta') /\ saving'.instant = t
  BY <1>3
<1>5. t # None
  BY <1>1, NoInstant
<1>6. Stored
  BY DEF RuleInv
<1>7. CASE writes = {} /\ UNCHANGED <<versions, held, meta, lastPass>>
  <2>1. Stored' /\ (Upheld(t) <=> Upheld(t)')
    BY <1>3, <1>6, <1>7, StoredSame
  <2>2. Repairing(t, out, existing, changed, {})
    BY <1>2, <1>7
  <2>3. Upheld(t)
    BY <1>1, <1>6, <2>2, QuietUpholds
  <2>4. Upheld(maintained)'
    BY <1>3, <2>1, <2>3
  <2>5. LastInstant' = LastInstant
    BY <1>3, <1>7 DEF LastInstant
  <2>6. Logged'
    BY <1>1, <1>3, <1>4, <1>7, <2>5 DEF RuleInv, Logged
  <2>7. run'.on => Writable(run'.writes, Engine, Len(versions')) /\ run'.instant \in Instants
    BY <1>3, <1>7 DEF RuleInv
  <2> QED
    BY <1>1, <1>3, <2>1, <2>4, <2>6, <2>7 DEF RuleInv
<1>8. CASE writes # {} /\ CommitVersions(Engine, writes, t) /\ lastPass' = t
  <2>1. Writable(writes, Engine, Len(versions))
    BY <1>1, <1>2, <1>6, RepairsStand
  <2>2. /\ Stored' /\ meta' = Append(meta, t)
        /\ Len(versions) \in Nat /\ Len(versions') \in Nat /\ Len(versions) <= Len(versions')
        /\ \E ids : Committed(versions, versions', held, held', Engine, writes, ids)
    BY <1>3, <1>6, <1>8, <2>1, CommitKeeps
  <2>3. PICK ids : Committed(versions, versions', held, held', Engine, writes, ids)
    BY <2>2
  <2>4. Upheld(t)'
    BY <1>1, <1>2, <1>3, <1>6, <2>2, <2>3, RepairsUphold
  <2>5. Upheld(maintained)'
    BY <1>3, <2>4
  <2>6. Logged'
    BY <1>1, <1>3, <1>4, <1>5, <1>8, <2>2, LogGrows DEF RuleInv
  <2>7. run'.on => Writable(run'.writes, Engine, Len(versions')) /\ run'.instant \in Instants
    BY <1>3, <2>2, WritableMore DEF RuleInv
  <2> QED
    BY <1>1, <1>3, <2>2, <2>5, <2>6, <2>7 DEF RuleInv
<1> QED
  BY <1>2, <1>7, <1>8

(* SaveState keeps it.                                                       *)
LEMMA SaveKeeps ==
    ASSUME RuleInv, SaveState
    PROVE  RuleInv'
<1>1. UNCHANGED <<versions, held, meta, active, run, maintained>>
  BY DEF SaveState
<1>2. state' = saving /\ saving # NoState /\ lastPass' = saving.instant /\ saving' = NoState
  BY DEF SaveState
<1>3. saving.through = Len(meta) /\ saving.instant \in Instants /\ meta \in Seq(Instants \cup {None}) /\ Len(meta) \in Nat
  BY <1>2 DEF RuleInv, Logged
<1>4. LastInstant' = Latest(meta, saving)
  BY <1>1, <1>2 DEF LastInstant, Latest, Stamped
<1>5. Stamped(meta) \in SUBSET (1..Len(meta))
  BY <1>3 DEF Stamped
<1>6. Stamped(meta) # {} => Max(Stamped(meta)) \in 1..Len(meta)
  BY <1>3, <1>5, LastOf
<1>7. Stamped(meta) # {} => ~Newer(Max(Stamped(meta)), saving)
  BY <1>3, <1>6 DEF Newer
<1>8. LastInstant' = saving.instant
  BY <1>4, <1>7 DEF Latest
<1>9. Logged'
  BY <1>1, <1>2, <1>3, <1>8 DEF Logged
<1>10. Stored'
  BY <1>1, StoredSame DEF RuleInv
<1>11. maintained' # None => maintained' \in Instants /\ Upheld(maintained)'
  BY <1>1, UpheldSame
<1> QED
  BY <1>1, <1>9, <1>10, <1>11 DEF RuleInv

(* Die keeps it.                                                             *)
LEMMA DieKeeps ==
    ASSUME RuleInv, Die
    PROVE  RuleInv'
<1>1. UNCHANGED <<versions, held, meta, active, state, maintained, lastPass>> /\ ~run'.on /\ saving' = NoState
  BY DEF Die, NoRun
<1>2. Stored'
  BY <1>1, StoredSame DEF RuleInv
<1>3. maintained' # None => maintained' \in Instants /\ Upheld(maintained)'
  BY <1>1, UpheldSame
<1>4. LastInstant' = LastInstant
  BY <1>1 DEF LastInstant
<1>5. Logged'
  BY <1>1, <1>4 DEF RuleInv, Logged
<1> QED
  BY <1>1, <1>2, <1>3, <1>5 DEF RuleInv

(* The invariant holds in every behaviour.                                   *)
LEMMA RuleInvStands == Spec => []RuleInv
<1>1. Init => RuleInv
  BY StoredStarts
<1>2. RuleInv /\ [Next]_vars => RuleInv'
  <2>1. SUFFICES ASSUME RuleInv, [Next]_vars PROVE RuleInv'
    OBVIOUS
  <2>2. ASSUME NEW c \in BaseClaims, NEW valid \in Intervals,
               AssertClaim(c[1], c[2], valid) \/ RetractClaim(c[1], c[2], valid)
        PROVE  RuleInv'
    BY <2>1, <2>2, AssertKeeps, RetractKeeps
  <2>3. ASSUME NEW v \in DOMAIN RuleVersions, CreateRule(v) PROVE RuleInv'
    BY <2>1, <2>3, CreateKeeps
  <2>4. ASSUME NEW t \in AsOf, RunRead(t) PROVE RuleInv'
    BY <2>1, <2>4, ReadKeeps
  <2>5. ASSUME NEW t \in AsOf \cup ({LastInstant} \ {None}), Maintain(t) PROVE RuleInv'
    BY <2>1, <2>5, MaintainKeeps
  <2>6. CASE RunCommit
    BY <2>1, <2>6, RunKeeps
  <2>7. CASE SaveState
    BY <2>1, <2>7, SaveKeeps
  <2>8. CASE Die
    BY <2>1, <2>8, DieKeeps
  <2>9. CASE UNCHANGED vars
    <3>1. UNCHANGED <<versions, held, meta, active, run, state, saving, maintained, lastPass>>
      BY <2>9 DEF vars
    <3>2. Stored' /\ Logged'
      BY <2>1, <3>1, StoredSame, LoggedSame DEF RuleInv
    <3>3. maintained' # None => maintained' \in Instants /\ Upheld(maintained)'
      BY <2>1, <3>1, UpheldSame
    <3> QED
      BY <2>1, <3>1, <3>2, <3>3 DEF RuleInv
  <2> QED
    BY <2>1, <2>2, <2>3, <2>4, <2>5, <2>6, <2>7, <2>8, <2>9 DEF Next
<1> QED
  BY <1>1, <1>2, PTL DEF Spec

(* After a maintenance pass the conclusions of the engine at its instant,    *)
(* with the base, are the stable model of the active program, a second pass  *)
(* writes nothing, and the instant a later pass defaults to is that of the   *)
(* last one that left a trace, whatever interleaves and dies                 *)
(* (maintain_truth, run_rules).                                              *)
THEOREM TruthMaintained == Spec => []MaintainedExact
<1>1. RuleInv => MaintainedExact
  <2>1. SUFFICES ASSUME RuleInv PROVE MaintainedExact
    OBVIOUS
  <2>2. LastInstant = lastPass
    BY <2>1 DEF RuleInv, Logged
  <2>3. PICK t : t = maintained
    OBVIOUS
  <2>4. PICK B : B = BaseFacts(t) \cup Derived(t)
    OBVIOUS
  <2>5. PICK U : U = {v \in active : Ru(v).neg \cap B = {}}
    OBVIOUS
  <2>6. ASSUME t # None PROVE B = Least(U, BaseFacts(t)) /\ Derived(t) = Fires(U, B) /\ Settled(t)
    <3>1. t \in Instants /\ Upheld(t) /\ Stored
      BY <2>1, <2>3, <2>6 DEF RuleInv
    <3>2. Settled(t)
      BY <3>1, UpheldSettles
    <3>3. B = Least(U, BaseFacts(t)) /\ Derived(t) = Fires(U, B)
      BY <2>4, <2>5, <3>1, UpheldIsModel
    <3> QED
      BY <3>2, <3>3
  <2> QED
    BY <2>2, <2>3, <2>4, <2>5, <2>6 DEF MaintainedExact
<1> QED
  BY <1>1, RuleInvStands, PTL

(* What supports a conclusion that a pass left is what an evaluation found.  *)
LEMMA UpheldCurrent ==
    ASSUME Stored, NEW t \in Instants, Upheld(t), NEW k \in Derived(t), NEW s,
           s \in versions[ExistingAt(t)[k]].supports
    PROVE  /\ s[1] \in active
           /\ \A i \in DOMAIN s[2] :
                  IF versions[s[2][i][2]].claim[2] = Engine THEN versions[s[2][i][2]].claim[1] \in Derived(t)
                  ELSE held[versions[s[2][i][2]].claim][t] = s[2][i][2]
<1>1. PICK V, H : V = versions /\ H = held
  OBVIOUS
<1>2. PICK A : A = active
  OBVIOUS
<1>3. PICK base : base = BaseAt(t)
  OBVIOUS
<1>4. PICK out : out = MaintenanceOutputs(t)
  OBVIOUS
<1>5. out = Evaluated(A, base, Naming, Fromnew)
  BY <1>2, <1>3, <1>4 DEF MaintenanceOutputs, MaintenanceBase, Naming, Fromnew
<1>6. A \in SUBSET DOMAIN RuleVersions
  BY <1>2 DEF Stored
<1>7. \A f \in base : f.fact \in Facts /\ f.valid \in SUBSET Instants
  BY <1>3, BaseHolds DEF Holding
<1>8. \A x \in Facts : Fromnew[x] \in SUBSET Instants
  BY DEF Fromnew
<1>25. Formed(out, A, base, Naming)
  BY <1>5, <1>6, <1>7, <1>8, EvaluatedShaped
<1>9. \A o \in out : Output(o, A, RefsOf(base, Naming, out))
  BY <1>25 DEF Formed
<1>10. Derived(t) = Keys(out)
  BY <1>4 DEF Upheld
<1>11. PICK o \in out : o.key = k
  BY <1>10 DEF Keys
<1>12. PICK id : id = ExistingAt(t)[k]
  OBVIOUS
<1>13. SupportsIn(V, id) = o.supports
  BY <1>1, <1>4, <1>11, <1>12, ReadIs DEF Upheld, Differs
<1>14. ReadBack(V, s) \in o.supports
  BY <1>1, <1>12, <1>13 DEF SupportsIn
<1>15. PICK r : r = ReadBack(V, s)
  OBVIOUS
<1>16. r[1] = s[1] /\ r[2] = [i \in DOMAIN s[2] |-> PremiseIn(V, s[2][i])]
  BY <1>15 DEF ReadBack
<1>17. Supported(r, A, RefsOf(base, Naming, out))
  BY <1>9, <1>14, <1>15 DEF Output
<1>18. DOMAIN r[2] = DOMAIN Ru(r[1]).body /\ DOMAIN r[2] = DOMAIN s[2]
  BY <1>16, <1>17 DEF Supported
<1>19. \A i \in DOMAIN s[2] : PremiseIn(V, s[2][i]) \in RefsOf(base, Naming, out)
  BY <1>16, <1>17, <1>18 DEF Supported
<1>20. \A f \in base : \E c \in Statements : f.ref = <<"version", H[c][t]>> /\ V[H[c][t]].claim = c /\ c[2] # Engine
  <2>1. TAKE f \in base
  <2>2. PICK c \in Statements : c[2] # Engine /\ H[c][t] # 0 /\ f.ref = <<"version", H[c][t]>>
    BY <1>1, <1>3 DEF BaseAt
  <2>3. V[H[c][t]].claim = c
    BY <1>1, <2>2 DEF Stored, ShownIn
  <2> QED
    BY <2>2, <2>3
<1>21. \A x \in Keys(out) : Naming[x] = <<"derived", x>>
  BY <1>9 DEF Keys, Output, Naming
<1>24. \A i \in DOMAIN s[2] : \E j : s[2][i] = <<"version", j>>
  <2>1. id # 0 /\ id \in 1..Len(V)
    <3>1. k \in Facts /\ ExistingAt(t)[k] # 0
      BY DEF Derived
    <3>2. ExistingAt(t)[k] = H[<<k, Engine>>][t] /\ <<k, Engine>> \in Statements
      BY <1>1, <3>1 DEF ExistingAt, Statements
    <3> QED
      BY <1>1, <1>12, <3>1, <3>2 DEF Stored, ShownIn
  <2>2. Pending(s, Len(V), {})
    BY <1>1, <1>12, <2>1 DEF Stored, Versioned
  <2> QED
    BY <2>2 DEF Pending, Refers
<1>22. ASSUME NEW i \in DOMAIN s[2], NEW j, j = s[2][i][2]
       PROVE  /\ V[j].claim[2] = Engine => V[j].claim[1] \in Keys(out)
              /\ V[j].claim[2] # Engine => H[V[j].claim][t] = j
  <2>1. PremiseIn(V, s[2][i]) = IF V[j].claim[2] = Engine THEN <<"derived", V[j].claim[1]>> ELSE s[2][i]
    BY <1>22 DEF PremiseIn
  <2>2. PICK ref : ref = PremiseIn(V, s[2][i])
    OBVIOUS
  <2>3. (\E f \in base : ref = f.ref) \/ (\E x \in Keys(out) : ref = <<"derived", x>>)
    BY <1>19, <1>21, <2>2 DEF RefsOf
  <2>4. (\E c \in Statements : ref = <<"version", H[c][t]>> /\ V[H[c][t]].claim = c /\ c[2] # Engine)
        \/ (\E x \in Keys(out) : ref = <<"derived", x>>)
    BY <1>20, <2>3
  <2>5. CASE V[j].claim[2] = Engine
    <3>1. ref = <<"derived", V[j].claim[1]>>
      BY <2>1, <2>2, <2>5
    <3> QED
      BY <2>4, <2>5, <3>1
  <2>6. CASE V[j].claim[2] # Engine
    <3>1. ref = s[2][i]
      BY <2>1, <2>2, <2>6
    <3>2. CASE \E c \in Statements : ref = <<"version", H[c][t]>> /\ V[H[c][t]].claim = c /\ c[2] # Engine
      BY <1>22, <2>6, <3>1, <3>2
    <3>3. CASE \E x \in Keys(out) : ref = <<"derived", x>>
      <4>1. PICK y : s[2][i] = <<"version", y>>
        BY <1>24
      <4>2. PICK x \in Keys(out) : ref = <<"derived", x>>
        BY <3>3
      <4>3. <<"version", y>> = <<"derived", x>>
        BY <3>1, <4>1, <4>2
      <4> QED
        BY <4>3
    <3> QED
      BY <2>4, <3>2, <3>3
  <2> QED
    BY <2>5, <2>6
<1>23. s[1] \in A
  BY <1>16, <1>17 DEF Supported
<1> QED
  BY <1>1, <1>2, <1>10, <1>22, <1>23

(* After a maintenance pass every recorded support of a conclusion is of an  *)
(* active rule version and of premises that hold (maintain_truth).           *)
THEOREM SupportsStand == Spec => []SupportsCurrent
<1>1. RuleInv => SupportsCurrent
  <2>1. SUFFICES ASSUME RuleInv, maintained # None, NEW k \in Derived(maintained), NEW s,
                        s \in versions[ExistingAt(maintained)[k]].supports
        PROVE  /\ s[1] \in active
               /\ \A i \in DOMAIN s[2] :
                      LET claim == versions[s[2][i][2]].claim
                      IN  IF claim[2] = Engine THEN claim[1] \in Derived(maintained)
                          ELSE held[claim][maintained] = s[2][i][2]
    BY DEF SupportsCurrent
  <2>2. PICK t : t = maintained
    OBVIOUS
  <2>3. t \in Instants /\ Upheld(t) /\ Stored
    BY <2>1, <2>2 DEF RuleInv
  <2>4. k \in Derived(t) /\ s \in versions[ExistingAt(t)[k]].supports
    BY <2>1, <2>2
  <2> QED
    BY <2>2, <2>3, <2>4, UpheldCurrent
<1> QED
  BY <1>1, RuleInvStands, PTL
================================================================================

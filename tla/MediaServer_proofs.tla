-------------------------- MODULE MediaServer_proofs --------------------------
(***************************************************************************)
(* Theorems about the loaded media: for any printers, rolls, factory       *)
(* configurations and files, through crashes and failing saves, the media  *)
(* vectors stay aligned and the loaded roll is the default.                *)
(***************************************************************************)
EXTENDS MediaServer, SequenceTheorems, TLAPS

\* What RemoveAt does to a sequence, element by element.
LEMMA RemoveAtIndex ==
    ASSUME NEW S, NEW s \in Seq(S), NEW i \in 1 .. Len(s)
    PROVE  /\ RemoveAt(s, i) \in Seq(S)
           /\ Len(RemoveAt(s, i)) = Len(s) - 1
           /\ \A j \in 1 .. Len(s) - 1 :
                 RemoveAt(s, i)[j] = IF j < i THEN s[j] ELSE s[j + 1]
<1> DEFINE left == SubSeq(s, 1, i - 1)
           right == SubSeq(s, i + 1, Len(s))
<1>0. Len(s) \in Nat /\ i \in Nat
  BY LenProperties
<1>1. left \in Seq(S) /\ Len(left) = i - 1 /\ \A j \in 1 .. i - 1 : left[j] = s[j]
  BY <1>0
<1>2. right \in Seq(S) /\ Len(right) = Len(s) - i
       /\ \A j \in 1 .. Len(s) - i : right[j] = s[i + j]
  BY <1>0
<1>3. RemoveAt(s, i) = left \o right
  BY DEF RemoveAt
<1>4. /\ left \o right \in Seq(S)
      /\ Len(left \o right) = Len(left) + Len(right)
      /\ \A j \in 1 .. Len(left) + Len(right) :
            (left \o right)[j] = IF j <= Len(left) THEN left[j] ELSE right[j - Len(left)]
  BY <1>1, <1>2, ConcatProperties
<1> HIDE DEF left, right
<1>5. ASSUME NEW j \in 1 .. Len(s) - 1
      PROVE  (left \o right)[j] = IF j < i THEN s[j] ELSE s[j + 1]
  <2>1. CASE j < i
    BY <2>1, <1>0, <1>1, <1>2, <1>4
  <2>2. CASE ~(j < i)
    <3>1. j - Len(left) \in 1 .. Len(s) - i /\ i + (j - Len(left)) = j + 1
      BY <2>2, <1>0, <1>1
    <3>2. (left \o right)[j] = right[j - Len(left)]
      BY <2>2, <1>0, <1>1, <1>2, <1>4
    <3> QED
      BY <3>1, <3>2, <1>2, <2>2
  <2> QED
    BY <2>1, <2>2
<1> QED
  BY <1>0, <1>1, <1>2, <1>3, <1>4, <1>5

\* What Cons does to a sequence, element by element.
LEMMA ConsIndex ==
    ASSUME NEW S, NEW s \in Seq(S), NEW e \in S
    PROVE  /\ Cons(e, s) \in Seq(S)
           /\ Len(Cons(e, s)) = Len(s) + 1
           /\ Cons(e, s)[1] = e
           /\ \A j \in 1 .. Len(s) : Cons(e, s)[j + 1] = s[j]
           /\ Cons(e, s) # <<>>
           /\ Head(Cons(e, s)) = e
<1>1. <<e>> \in Seq(S) /\ Len(<<e>>) = 1 /\ <<e>>[1] = e /\ Len(s) \in Nat
  OBVIOUS
<1>2. /\ <<e>> \o s \in Seq(S)
      /\ Len(<<e>> \o s) = 1 + Len(s)
      /\ \A j \in 1 .. 1 + Len(s) : (<<e>> \o s)[j] = IF j <= 1 THEN <<e>>[j] ELSE s[j - 1]
  BY <1>1, ConcatProperties
<1>3. Cons(e, s) = <<e>> \o s
  BY DEF Cons
<1>4. (<<e>> \o s)[1] = e
  BY <1>1, <1>2
<1>5. \A j \in 1 .. Len(s) : (<<e>> \o s)[j + 1] = s[j]
  BY <1>1, <1>2
<1>6. Cons(e, s) # <<>> /\ Head(Cons(e, s)) = Cons(e, s)[1]
  BY <1>1, <1>2, <1>3, EmptySeq, HeadTailProperties
<1> QED
  BY <1>1, <1>2, <1>3, <1>4, <1>5, <1>6

\* In a list without duplicates, PlaceOf finds the one place of a roll.
LEMMA PlaceInSeq ==
    ASSUME NEW S, NEW s \in Seq(S), IsInjective(s), NEW m
    PROVE  \/ PlaceOf(m, s) \in 1 .. Len(s) /\ s[PlaceOf(m, s)] = m
           \/ PlaceOf(m, s) = 0 /\ \A k \in 1 .. Len(s) : s[k] # m
<1> DEFINE I == {k \in 1 .. Len(s) : s[k] = m}
<1>1. PlaceOf(m, s) = IF I # {} THEN Min(I) ELSE 0
  BY DEF PlaceOf, SelectInSeq
<1>2. CASE I = {}
  BY <1>1, <1>2
<1>3. CASE I # {}
  <2>1. PICK k \in 1 .. Len(s) : s[k] = m
    BY <1>3
  <2>2. I = {k}
    BY <2>1, LenProperties DEF IsInjective
  <2>3. Min({k}) = k
    BY <2>1 DEF Min
  <2> QED
    BY <1>1, <2>1, <2>2, <2>3
<1> QED
  BY <1>2, <1>3

\* Placing a tidy configuration's roll first leaves it tidy, with that roll and its
\* size in front.
LEMMA PlaceFirstIsTidy ==
    ASSUME NEW c, IsConfig(c), Tidy(c), NEW m \in Media
    PROVE  LET d == PlaceFirst(c, m)
           IN  /\ IsConfig(d) /\ Tidy(d)
               /\ d.names # <<>> /\ Head(d.names) = m
               /\ d.sizes # <<>> /\ Head(d.sizes) = m
<1> DEFINE i == PlaceOf(m, c.names)
           N == IF i \in DOMAIN c.names THEN RemoveAt(c.names, i) ELSE c.names
           Z == IF i \in DOMAIN c.sizes THEN RemoveAt(c.sizes, i) ELSE c.sizes
<1>1. /\ c.names \in Seq(Media) /\ c.sizes \in Seq(Media)
      /\ Len(c.names) \in Nat /\ Len(c.sizes) \in Nat
      /\ DOMAIN c.names = 1 .. Len(c.names) /\ DOMAIN c.sizes = 1 .. Len(c.sizes)
      /\ Len(c.sizes) <= Len(c.names)
      /\ \A j \in 1 .. Len(c.sizes) : c.sizes[j] = c.names[j]
  BY LenProperties DEF IsConfig, Tidy
<1>2. \A j, k \in 1 .. Len(c.names) : c.names[j] = c.names[k] => j = k
  BY <1>1 DEF Tidy, IsInjective
<1>3. \/ i \in 1 .. Len(c.names) /\ c.names[i] = m
      \/ i = 0 /\ \A k \in 1 .. Len(c.names) : c.names[k] # m
  BY <1>1, PlaceInSeq DEF Tidy
<1> HIDE DEF i
<1>4. /\ N \in Seq(Media) /\ Z \in Seq(Media)
      /\ Len(N) \in Nat /\ Len(Z) \in Nat /\ Len(Z) <= Len(N)
      /\ \A j \in 1 .. Len(Z) : Z[j] = N[j]
      /\ \A j \in 1 .. Len(N) : N[j] # m
      /\ \A j, k \in 1 .. Len(N) : N[j] = N[k] => j = k
  <2>1. CASE i = 0
    <3>1. N = c.names /\ Z = c.sizes
      BY <2>1, <1>1
    <3> QED
      BY <3>1, <2>1, <1>1, <1>2, <1>3
  <2>2. CASE i \in 1 .. Len(c.names)
    <3>1. /\ N = RemoveAt(c.names, i)
          /\ N \in Seq(Media) /\ Len(N) = Len(c.names) - 1
          /\ \A j \in 1 .. Len(c.names) - 1 :
                N[j] = IF j < i THEN c.names[j] ELSE c.names[j + 1]
      BY <2>2, <1>1, RemoveAtIndex
    <3> DEFINE from(j) == IF j < i THEN j ELSE j + 1
    <3>a. \A j \in 1 .. Len(c.names) - 1 : from(j) \in 1 .. Len(c.names) /\ from(j) # i
      BY <2>2, <1>1
    <3>b. \A j, k \in 1 .. Len(c.names) - 1 : from(j) = from(k) => j = k
      BY <2>2, <1>1
    <3>c. \A j \in 1 .. Len(N) : N[j] = c.names[from(j)]
      BY <3>1
    <3> HIDE DEF from, N
    <3>d. c.names[i] = m
      BY <2>2, <1>3
    <3>2. /\ \A j \in 1 .. Len(N) : N[j] # m
          /\ \A j, k \in 1 .. Len(N) : N[j] = N[k] => j = k
      <4>1. ASSUME NEW j \in 1 .. Len(N) PROVE N[j] # m
        BY <2>2, <3>1, <3>a, <3>c, <3>d, <1>2
      <4>2. ASSUME NEW j \in 1 .. Len(N), NEW k \in 1 .. Len(N), N[j] = N[k]
            PROVE  j = k
        <5>1. from(j) = from(k)
          BY <4>2, <3>1, <3>a, <3>c, <1>2
        <5> QED
          BY <5>1, <3>1, <3>b
      <4> QED
        BY <4>1, <4>2
    <3>3. CASE i \in 1 .. Len(c.sizes)
      <4>1. /\ Z = RemoveAt(c.sizes, i)
            /\ Z \in Seq(Media) /\ Len(Z) = Len(c.sizes) - 1
            /\ \A j \in 1 .. Len(c.sizes) - 1 :
                  Z[j] = IF j < i THEN c.sizes[j] ELSE c.sizes[j + 1]
        BY <3>3, <1>1, RemoveAtIndex
      <4> HIDE DEF Z
      <4>2. Len(Z) \in Nat /\ Len(N) \in Nat /\ Len(Z) <= Len(N)
        BY <4>1, <3>1, <3>3, <2>2, <1>1
      <4>3. ASSUME NEW j \in 1 .. Len(Z) PROVE Z[j] = N[j]
        <5>1. j \in 1 .. Len(c.sizes) /\ j \in 1 .. Len(c.names) - 1 /\ j + 1 \in 1 .. Len(c.sizes)
          BY <4>1, <4>2, <3>1, <1>1
        <5> QED
          BY <5>1, <4>1, <3>1, <1>1
      <4> QED
        BY <4>1, <4>2, <4>3, <3>1, <3>2
    <3>4. CASE i \notin 1 .. Len(c.sizes)
      <4>1. Z = c.sizes
        BY <3>4, <1>1
      <4> HIDE DEF Z
      <4>2. Len(Z) < i
        BY <4>1, <3>4, <2>2, <1>1
      <4>3. ASSUME NEW j \in 1 .. Len(Z) PROVE Z[j] = N[j]
        <5>1. j \in 1 .. Len(c.names) - 1 /\ j < i
          BY <4>1, <4>2, <2>2, <1>1
        <5> QED
          BY <5>1, <4>1, <3>1, <1>1
      <4>4. Len(Z) \in Nat /\ Len(N) \in Nat /\ Len(Z) <= Len(N)
        BY <4>1, <4>2, <3>1, <2>2, <1>1
      <4> QED
        BY <4>1, <4>3, <4>4, <3>1, <3>2, <1>1
    <3> QED
      BY <3>3, <3>4
  <2> QED
    BY <2>1, <2>2, <1>3
<1>5. PlaceFirst(c, m) = [names |-> Cons(m, N), sizes |-> Cons(m, Z)]
  BY DEF PlaceFirst, i
<1> HIDE DEF N, Z
<1>6. /\ Cons(m, N) \in Seq(Media) /\ Len(Cons(m, N)) = Len(N) + 1
      /\ Cons(m, N)[1] = m /\ \A j \in 1 .. Len(N) : Cons(m, N)[j + 1] = N[j]
      /\ Cons(m, N) # <<>> /\ Head(Cons(m, N)) = m
  BY <1>4, ConsIndex
<1>7. /\ Cons(m, Z) \in Seq(Media) /\ Len(Cons(m, Z)) = Len(Z) + 1
      /\ Cons(m, Z)[1] = m /\ \A j \in 1 .. Len(Z) : Cons(m, Z)[j + 1] = Z[j]
      /\ Cons(m, Z) # <<>> /\ Head(Cons(m, Z)) = m
  BY <1>4, ConsIndex
<1>8. \A j \in 1 .. Len(Cons(m, N)) : j # 1 => j - 1 \in 1 .. Len(N) /\ Cons(m, N)[j] = N[j - 1]
  <2> SUFFICES ASSUME NEW j \in 1 .. Len(Cons(m, N)), j # 1
               PROVE  j - 1 \in 1 .. Len(N) /\ Cons(m, N)[j] = N[j - 1]
    OBVIOUS
  <2>1. j - 1 \in 1 .. Len(N) /\ (j - 1) + 1 = j
    BY <1>4, <1>6
  <2> QED
    BY <2>1, <1>6
<1>9. \A j \in 1 .. Len(Cons(m, Z)) : j # 1 => j - 1 \in 1 .. Len(Z) /\ Cons(m, Z)[j] = Z[j - 1]
  <2> SUFFICES ASSUME NEW j \in 1 .. Len(Cons(m, Z)), j # 1
               PROVE  j - 1 \in 1 .. Len(Z) /\ Cons(m, Z)[j] = Z[j - 1]
    OBVIOUS
  <2>1. j - 1 \in 1 .. Len(Z) /\ (j - 1) + 1 = j
    BY <1>4, <1>7
  <2> QED
    BY <2>1, <1>7
<1>10. IsInjective(Cons(m, N))
  <2> SUFFICES ASSUME NEW j \in 1 .. Len(Cons(m, N)), NEW k \in 1 .. Len(Cons(m, N)),
                      Cons(m, N)[j] = Cons(m, N)[k]
               PROVE  j = k
    BY <1>6, LenProperties DEF IsInjective
  <2>1. CASE j = 1 \/ k = 1
    <3>1. ASSUME NEW x \in 1 .. Len(Cons(m, N)), x # 1 PROVE Cons(m, N)[x] # m
      BY <3>1, <1>4, <1>8
    <3> QED
      BY <2>1, <3>1, <1>6
  <2>2. CASE j # 1 /\ k # 1
    <3>1. j - 1 \in 1 .. Len(N) /\ k - 1 \in 1 .. Len(N) /\ N[j - 1] = N[k - 1]
      BY <2>2, <1>8
    <3>2. j - 1 = k - 1
      BY <3>1, <1>4
    <3> QED
      BY <3>2
  <2> QED
    BY <2>1, <2>2
<1>11. Len(Cons(m, Z)) <= Len(Cons(m, N))
  BY <1>4, <1>6, <1>7
<1>12. \A j \in DOMAIN Cons(m, Z) : Cons(m, Z)[j] = Cons(m, N)[j]
  <2> SUFFICES ASSUME NEW j \in 1 .. Len(Cons(m, Z))
               PROVE  Cons(m, Z)[j] = Cons(m, N)[j]
    BY <1>7, LenProperties
  <2>1. CASE j = 1
    BY <2>1, <1>6, <1>7
  <2>2. CASE j # 1
    <3>1. j \in 1 .. Len(Cons(m, N))
      BY <1>4, <1>6, <1>7, <1>11
    <3> QED
      BY <2>2, <3>1, <1>4, <1>8, <1>9
  <2> QED
    BY <2>1, <2>2
<1> QED
  BY <1>5, <1>6, <1>7, <1>10, <1>11, <1>12 DEF IsConfig, Tidy

-----------------------------------------------------------------------------
(***************************************************************************)
(* The inductive invariant.  A configuration gets into the registry from   *)
(* make_config, from the file, or by set_ready_media, and into the file    *)
(* from a snapshot of the registry: tidiness goes round that circle.       *)
(***************************************************************************)
Good(f) == DOMAIN f \subseteq Printer /\ \A p \in DOMAIN f : IsConfig(f[p]) /\ Tidy(f[p])

\* What is on its way into a record: the copies of the saves, the poller's answer,
\* the rolls of the form's requests, the rolls in the devices.
GoodInputs ==
    /\ \A s \in DOMAIN save : "copy" \in DOMAIN save[s] /\ Good(save[s].copy)
    /\ \A p \in DOMAIN answer : answer[p] \in Media
    /\ \A f \in DOMAIN form : "media" \in DOMAIN form[f] /\ form[f].media \in Media
    /\ loaded \in [Printer -> Media \cup {NoMedia}]

GoodRecords == Good(config) /\ DOMAIN ready = Printer /\ DefaultIsLoaded

MediaInv == GoodRecords /\ Good(LoadFile) /\ GoodInputs

LEMMA NoPrintersIsGood == Good(NoPrinters)
BY DEF Good, NoPrinters

LEMMA InitGood == ServerInit => MediaInv
<1> SUFFICES ASSUME ServerInit PROVE MediaInv
  OBVIOUS
<1>1. GoodRecords
  BY NoPrintersIsGood DEF ServerInit, MediaInit, GoodRecords, DefaultIsLoaded, NoPrinters
<1>2. Good(LoadFile)
  <2>1. file = NoFile \/ \E f \in Earlier : file = Text(f)
    BY DEF ServerInit, FileInit
  <2>2. CASE file = NoFile
    BY <2>2, NoPrintersIsGood DEF NoFile, LoadFile
  <2>3. CASE \E f \in Earlier : file = Text(f)
    <3>1. PICK f \in Earlier : file = Text(f)
      BY <2>3
    <3>2. LoadFile = f
      BY <3>1 DEF LoadFile, Text
    <3> QED
      BY <3>2, EarlierAssumption DEF Good, IsConfigs
  <2> QED
    BY <2>1, <2>2, <2>3
<1>3. GoodInputs
  BY DEF ServerInit, FileInit, GoodInputs, NoPrinters
<1> QED
  BY <1>1, <1>2, <1>3 DEF MediaInv

\* set_ready_media keeps every record good, whichever printer and roll it is given.
LEMMA SetReadyKeepsRecords ==
    ASSUME GoodRecords, NEW p, NEW m \in Media, SetReadyMedia(p, m)
    PROVE  GoodRecords'
<1>1. Good(config)' /\ DOMAIN ready' = Printer
  <2>1. CASE p \in DOMAIN config
    <3>1. IsConfig(PlaceFirst(config[p], m)) /\ Tidy(PlaceFirst(config[p], m))
      BY <2>1, PlaceFirstIsTidy DEF GoodRecords, Good
    <3> QED
      BY <3>1 DEF GoodRecords, Good, SetReadyMedia
  <2>2. CASE p \notin DOMAIN config
    BY <2>2 DEF GoodRecords, Good, SetReadyMedia
  <2> QED
    BY <2>1, <2>2
<1>2. ASSUME NEW q \in DOMAIN config', ready'[q] # NoMedia
      PROVE  /\ config'[q].names # <<>> /\ Head(config'[q].names) = ready'[q]
             /\ config'[q].sizes # <<>> => Head(config'[q].sizes) = ready'[q]
  <2>1. q \in DOMAIN config /\ q \in Printer
    BY <1>1 DEF SetReadyMedia, Good
  <2>2. CASE q # p
    BY <1>2, <2>1, <2>2 DEF GoodRecords, DefaultIsLoaded, IsDefault, SetReadyMedia
  <2>3. CASE q = p
    <3>1. ready'[q] = m
      BY <2>1, <2>3 DEF GoodRecords, SetReadyMedia
    <3>2. CASE IsDefault(p, m)
      <4>1. config' = config /\ config[q].names # <<>> /\ Head(config[q].names) = m
        BY <3>2, <2>3 DEF SetReadyMedia, IsDefault
      <4>2. IsConfig(config[q]) /\ Tidy(config[q])
        BY <2>1 DEF GoodRecords, Good
      <4>3. config[q].sizes # <<>> => Head(config[q].sizes) = config[q].names[1]
        BY <4>2, EmptySeq, LenProperties, HeadTailProperties DEF IsConfig, Tidy
      <4>4. Head(config[q].names) = config[q].names[1]
        BY <4>1, <4>2, HeadTailProperties DEF IsConfig
      <4> QED
        BY <4>1, <4>3, <4>4, <3>1
    <3>3. CASE ~IsDefault(p, m)
      <4>1. config'[q] = PlaceFirst(config[p], m)
        BY <3>3, <2>1, <2>3 DEF SetReadyMedia
      <4> QED
        BY <4>1, <3>1, <2>1, <2>3, PlaceFirstIsTidy DEF GoodRecords, Good
    <3> QED
      BY <3>2, <3>3
  <2> QED
    BY <2>2, <2>3
<1> QED
  BY <1>1, <1>2 DEF GoodRecords, DefaultIsLoaded, IsDefault

\* bootstrap_printers merges good configurations.
LEMMA MergeIsGood ==
    ASSUME Good(LoadFile), NEW found \in SUBSET Printer
    PROVE  Good(Merge(found))
BY MediaAssumption DEF Good, Merge

\* A call of persist starts without a copy.
LEMMA PersistIsGood ==
    ASSUME GoodInputs, NEW t
    PROVE  \A s \in DOMAIN Persist(t) :
              "copy" \in DOMAIN Persist(t)[s] /\ Good(Persist(t)[s].copy)
BY NoPrintersIsGood DEF GoodInputs, Persist, With

\* Every step of a save keeps its copy good, and the file.
LEMMA SaveStepKeepsGood ==
    ASSUME MediaInv, NEW s, SaveStep(s)
    PROVE  MediaInv'
<1> USE DEF SaveStep, Saving, MediaInv
<1>0. Saving(s) /\ UNCHANGED <<config, ready, answer, form, loaded>>
  BY DEF mediaVars
<1>1. GoodRecords'
  BY <1>0 DEF GoodRecords, DefaultIsLoaded, IsDefault
<1>2. ASSUME NEW t \in DOMAIN save
      PROVE  "copy" \in DOMAIN save[t] /\ Good(save[t].copy)
  BY DEF GoodInputs
<1> SUFFICES /\ Good(LoadFile')
             /\ \A t \in DOMAIN save' : "copy" \in DOMAIN save'[t] /\ Good(save'[t].copy)
  BY <1>0, <1>1 DEF GoodInputs, Good, LoadFile
<1>3. CASE TakeSnapshot(s)
  <2>1. Good(config)
    BY DEF GoodRecords
  <2>2. LoadFile' = LoadFile
    BY <1>3 DEF TakeSnapshot, LoadFile
  <2>3. ASSUME NEW t \in DOMAIN save'
        PROVE  "copy" \in DOMAIN save'[t] /\ Good(save'[t].copy)
    BY <1>3, <2>1, <1>2 DEF TakeSnapshot
  <2> QED
    BY <2>2, <2>3
<1>4. CASE OpenFile(s)
  <2>1. LoadFile' = NoPrinters
    BY <1>4 DEF OpenFile, LoadFile, NoFile
  <2>2. ASSUME NEW t \in DOMAIN save'
        PROVE  "copy" \in DOMAIN save'[t] /\ Good(save'[t].copy)
    BY <1>4, <1>2 DEF OpenFile
  <2> QED
    BY <2>1, <2>2, NoPrintersIsGood
<1>5. ASSUME EndSave(s, save[s].alone) \/ EndSave(s, FALSE), NEW t \in DOMAIN save'
      PROVE  "copy" \in DOMAIN save'[t] /\ Good(save'[t].copy)
  BY <1>5, <1>2 DEF EndSave, Restrict
<1>6. CASE WriteFile(s)
  <2>1. file' = Text(save[s].copy) \/ file' = TornFile
    BY <1>6 DEF WriteFile
  <2>2. LoadFile' = save[s].copy \/ LoadFile' = NoPrinters
    BY <2>1 DEF LoadFile, Text, TornFile
  <2>3. Good(save[s].copy)
    BY <1>6, <1>2 DEF WriteFile, At
  <2> QED
    BY <2>2, <2>3, <1>5, <1>6, NoPrintersIsGood DEF WriteFile
<1>7. CASE SaveFails(s)
  <2>1. file' = file \/ file' = TornFile
    BY <1>7 DEF SaveFails
  <2>2. LoadFile' = LoadFile \/ LoadFile' = NoPrinters
    BY <2>1 DEF LoadFile, TornFile
  <2> QED
    BY <2>2, <1>5, <1>7, NoPrintersIsGood DEF SaveFails
<1> QED
  BY <1>0, <1>3, <1>4, <1>6, <1>7

LEMMA StepKeepsGood == MediaInv /\ [ServerNext]_serverVars => MediaInv'
<1> SUFFICES ASSUME MediaInv, [ServerNext]_serverVars
             PROVE  MediaInv'
  OBVIOUS
<1> USE DEF MediaInv
<1>1. ASSUME UNCHANGED <<config, ready>>
      PROVE  GoodRecords'
  BY <1>1 DEF GoodRecords, DefaultIsLoaded, IsDefault
<1>2. ASSUME UNCHANGED file
      PROVE  Good(LoadFile)'
  BY <1>2 DEF LoadFile
<1>3. CASE Bootstrap
  <2>1. PICK found \in SUBSET Printer : config' = Merge(found)
    BY <1>3 DEF Bootstrap
  <2>2. GoodRecords'
    BY <1>3, <2>1, MergeIsGood, MediaAssumption DEF Bootstrap, GoodRecords, DefaultIsLoaded, Good
  <2>3. GoodInputs'
    BY <1>3, PersistIsGood DEF Bootstrap, GoodInputs
  <2> QED
    BY <1>2, <1>3, <2>2, <2>3 DEF Bootstrap
<1>4. CASE Crash
  <2>1. GoodRecords'
    BY <1>4, NoPrintersIsGood DEF Crash, GoodRecords, DefaultIsLoaded, NoPrinters
  <2>2. GoodInputs'
    BY <1>4 DEF Crash, GoodInputs, NoPrinters
  <2> QED
    BY <1>2, <1>4, <2>1, <2>2 DEF Crash
<1>5. CASE Tick
  BY <1>1, <1>2, <1>5 DEF Tick, mediaVars, fileVars, GoodInputs
<1>6. ASSUME NEW p \in Printer, Answer(p)
      PROVE  MediaInv'
  <2>1. answer' = [q \in {p} |-> loaded[q]] /\ loaded[p] \in Media
    BY <1>6 DEF Answer, GoodInputs
  <2> QED
    BY <1>1, <1>2, <1>6, <2>1 DEF Answer, mediaVars, fileVars, GoodInputs
<1>7. ASSUME NEW p \in Printer, NoRollReported(p)
      PROVE  MediaInv'
  BY <1>1, <1>2, <1>7 DEF NoRollReported, mediaVars, fileVars, GoodInputs
<1>8. ASSUME NEW p \in Printer, RecordRoll(p)
      PROVE  MediaInv'
  <2>1. GoodRecords'
    BY <1>8, SetReadyKeepsRecords DEF RecordRoll, GoodInputs
  <2>2. GoodInputs'
    BY <1>8 DEF RecordRoll, fileVars, GoodInputs, NoPrinters
  <2> QED
    BY <1>2, <1>8, <2>1, <2>2 DEF RecordRoll, fileVars
<1>9. CASE SaveSwap
  <2>1. GoodInputs'
    BY <1>9, PersistIsGood DEF SaveSwap, GoodInputs
  <2> QED
    BY <1>1, <1>2, <1>9, <2>1 DEF SaveSwap, mediaVars
<1>10. ASSUME NEW f \in Form, SubmitForm(f)
       PROVE  MediaInv'
  <2>1. PICK p \in DOMAIN config, m \in InRange :
           form' = With(form, f, [printer |-> p, media |-> m, agreed |-> FALSE])
    BY <1>10 DEF SubmitForm
  <2>2. \A g \in DOMAIN form' : "media" \in DOMAIN form'[g] /\ form'[g].media \in Media
    BY <2>1, InRangeAssumption DEF With, GoodInputs
  <2> QED
    BY <1>1, <1>2, <1>10, <2>2 DEF SubmitForm, mediaVars, fileVars, GoodInputs
<1>11. ASSUME NEW f \in Form, HookAccepts(f)
       PROVE  MediaInv'
  <2>1. \A g \in DOMAIN form' : "media" \in DOMAIN form'[g] /\ form'[g].media \in Media
    BY <1>11 DEF HookAccepts, GoodInputs
  <2>2. loaded' \in [Printer -> Media \cup {NoMedia}]
    BY <1>11 DEF HookAccepts, GoodInputs
  <2> QED
    BY <1>1, <1>2, <1>11, <2>1, <2>2 DEF HookAccepts, mediaVars, fileVars, GoodInputs
<1>12. ASSUME NEW f \in Form, HookRefuses(f)
       PROVE  MediaInv'
  <2>1. \A g \in DOMAIN form' : "media" \in DOMAIN form'[g] /\ form'[g].media \in Media
    BY <1>12 DEF HookRefuses, Restrict, GoodInputs
  <2> QED
    BY <1>1, <1>2, <1>12, <2>1 DEF HookRefuses, mediaVars, fileVars, GoodInputs
<1>13. ASSUME NEW f \in Form, ApplyForm(f)
       PROVE  MediaInv'
  <2>1. GoodRecords'
    BY <1>13, SetReadyKeepsRecords DEF ApplyForm, GoodInputs
  <2>2. \A g \in DOMAIN form' : "media" \in DOMAIN form'[g] /\ form'[g].media \in Media
    BY <1>13 DEF ApplyForm, Restrict, GoodInputs
  <2>3. GoodInputs'
    BY <1>13, <2>2, PersistIsGood DEF ApplyForm, GoodInputs
  <2> QED
    BY <1>2, <1>13, <2>1, <2>3 DEF ApplyForm
<1>14. ASSUME NEW w \in Worker, WorkerEnds(w)
       PROVE  MediaInv'
  <2>1. GoodInputs'
    BY <1>14, PersistIsGood DEF WorkerEnds, GoodInputs
  <2> QED
    BY <1>1, <1>2, <1>14, <2>1 DEF WorkerEnds, mediaVars
<1>15. ASSUME NEW s \in Saver, SaveStep(s)
       PROVE  MediaInv'
  BY <1>15, SaveStepKeepsGood
<1>16. ASSUME NEW p \in Printer, LoadRoll(p)
       PROVE  MediaInv'
  <2>1. loaded' \in [Printer -> Media \cup {NoMedia}]
    BY <1>16 DEF LoadRoll, GoodInputs
  <2> QED
    BY <1>1, <1>2, <1>16, <2>1 DEF LoadRoll, mediaVars, fileVars, GoodInputs
<1>17. CASE UNCHANGED serverVars
  BY <1>1, <1>2, <1>17 DEF serverVars, GoodInputs
<1> QED
  BY <1>3, <1>4, <1>5, <1>6, <1>7, <1>8, <1>9, <1>10, <1>11, <1>12, <1>13, <1>14, <1>15,
     <1>16, <1>17 DEF ServerNext, PollerStep, FormStep

LEMMA MediaInvariant == ServerSpec => []MediaInv
BY InitGood, StepKeepsGood, PTL DEF ServerSpec

\* The two media vectors of every printer stay aligned and free of duplicates, for
\* any rolls, any interleaving of poller, form and saves, and across crashes
\* (set_ready_media, bootstrap_printers).
THEOREM MediaStaysTidy == ServerSpec => []TidyMedia
<1>1. MediaInv => TidyMedia
  BY DEF MediaInv, GoodRecords, Good, TidyMedia
<1> QED
  BY <1>1, MediaInvariant, PTL

\* What is shown as loaded is the default, with its own size (set_ready_media).
THEOREM LoadedIsDefault == ServerSpec => []DefaultIsLoaded
<1>1. MediaInv => DefaultIsLoaded
  BY DEF MediaInv, GoodRecords
<1> QED
  BY <1>1, MediaInvariant, PTL

-----------------------------------------------------------------------------
(***************************************************************************)
(* The file.  A save that runs alone writes what the server shows, unless  *)
(* a change has come since its snapshot; then the change is still to be    *)
(* saved.  Two saves past their snapshots know that they are not alone.    *)
(***************************************************************************)

SaveShape ==
    \A s \in DOMAIN save :
        /\ DOMAIN save[s] = {"pc", "copy", "alone"}
        /\ save[s].pc \in {"snapshot", "open", "write"}
        /\ save[s].alone \in BOOLEAN

\* A change waits for its save, or for the snapshot of its save.
Unsaved == swapped \/ \E s \in DOMAIN save : save[s].pc = "snapshot"

PastSnapshot(s) == save[s].pc \in {"open", "write"}

AloneIsCurrent ==
    \A s \in DOMAIN save : PastSnapshot(s) /\ save[s].alone =>
        /\ save[s].copy = config \/ Unsaved
        /\ \A r \in DOMAIN save : PastSnapshot(r) => r = s
        /\ save[s].pc = "write" => file = NoFile

SavedInv == SaveShape /\ AloneIsCurrent /\ LoneSaveIsCurrent

\* A step that touches no save, no file and no change to be saved.
LEMMA IdleKeepsSaved ==
    ASSUME SavedInv, UNCHANGED <<config, file, save, lone, mode, swapped>>
    PROVE  SavedInv'
BY DEF SavedInv, SaveShape, AloneIsCurrent, PastSnapshot, Unsaved, LoneSaveIsCurrent, Quiet,
       Running

\* A new call of persist is still to take its snapshot, whatever has changed.
LEMMA PersistKeepsSaved ==
    ASSUME SavedInv, NEW t, save' = Persist(t), UNCHANGED file
    PROVE  SavedInv'
<1>1. /\ DOMAIN save' = {t} \cup DOMAIN save
      /\ save'[t] = [pc |-> "snapshot", copy |-> NoPrinters, alone |-> TRUE]
      /\ \A s \in DOMAIN save : s # t => save'[s] = save[s]
  BY DEF Persist, With
<1>2. DOMAIN save'[t] = {"pc", "copy", "alone"} /\ save'[t].pc = "snapshot"
      /\ save'[t].alone = TRUE
  BY <1>1
<1>3. SaveShape'
  BY <1>1, <1>2 DEF SavedInv, SaveShape
<1>4. Unsaved'
  BY <1>1, <1>2 DEF Unsaved
<1>5. \A s \in DOMAIN save' : PastSnapshot(s)' =>
          s \in DOMAIN save /\ save'[s] = save[s] /\ PastSnapshot(s)
  BY <1>1, <1>2 DEF PastSnapshot
<1>6. AloneIsCurrent'
  BY <1>4, <1>5 DEF SavedInv, AloneIsCurrent
<1>7. LoneSaveIsCurrent'
  BY <1>1 DEF LoneSaveIsCurrent, Quiet
<1> QED
  BY <1>3, <1>6, <1>7 DEF SavedInv

LEMMA SnapshotKeepsSaved ==
    ASSUME SavedInv, NEW s, TakeSnapshot(s), UNCHANGED <<config, mode, swapped>>
    PROVE  SavedInv'
<1> DEFINE others == {r \in DOMAIN save \ {s} : save[r].pc # "snapshot"}
<1>1. /\ s \in DOMAIN save
      /\ DOMAIN save' = DOMAIN save
      /\ save'[s] = [pc |-> "open", copy |-> config, alone |-> others = {}]
      /\ \A r \in DOMAIN save : r # s => save'[r] = [save[r] EXCEPT !.alone = @ /\ r \notin others]
      /\ UNCHANGED <<file, lone>>
  BY DEF TakeSnapshot, At
<1>2. /\ DOMAIN save'[s] = {"pc", "copy", "alone"}
      /\ save'[s].pc = "open" /\ save'[s].copy = config
      /\ save'[s].alone = (others = {})
  BY <1>1
<1>3. ASSUME NEW r \in DOMAIN save, r # s
      PROVE  /\ DOMAIN save'[r] = {"pc", "copy", "alone"}
             /\ save'[r].pc = save[r].pc
             /\ save'[r].alone \in BOOLEAN
             /\ PastSnapshot(r)' => save'[r].alone = FALSE
  <2>1. DOMAIN save[r] = {"pc", "copy", "alone"} /\ save[r].alone \in BOOLEAN
        /\ save'[r] = [save[r] EXCEPT !.alone = @ /\ r \notin others]
    BY <1>1, <1>3 DEF SavedInv, SaveShape
  <2>2. save'[r].pc = save[r].pc /\ save'[r].alone = (save[r].alone /\ r \notin others)
    BY <2>1
  <2>3. PastSnapshot(r)' => r \in others
    BY <1>3, <2>2 DEF PastSnapshot
  <2> QED
    BY <2>1, <2>2, <2>3
<1>4. SaveShape'
  BY <1>1, <1>2, <1>3 DEF SavedInv, SaveShape
<1>5. ASSUME NEW r \in DOMAIN save', PastSnapshot(r)', save'[r].alone
      PROVE  /\ save'[r].copy = config'
             /\ \A q \in DOMAIN save' : PastSnapshot(q)' => q = r
             /\ save'[r].pc # "write"
  <2>1. r = s
    BY <1>1, <1>3, <1>5
  <2>2. others = {}
    BY <1>2, <1>5, <2>1
  <2>3. \A q \in DOMAIN save : q # s => save[q].pc = "snapshot"
    BY <2>2
  <2> QED
    BY <1>1, <1>2, <1>3, <2>1, <2>3 DEF PastSnapshot
<1>6. AloneIsCurrent'
  BY <1>5 DEF AloneIsCurrent
<1>7. LoneSaveIsCurrent'
  BY <1>1 DEF LoneSaveIsCurrent, Quiet
<1> QED
  BY <1>4, <1>6, <1>7 DEF SavedInv

LEMMA OpenKeepsSaved ==
    ASSUME SavedInv, NEW s, OpenFile(s), UNCHANGED <<config, mode, swapped>>
    PROVE  SavedInv'
<1>1. /\ s \in DOMAIN save /\ save[s].pc = "open"
      /\ DOMAIN save' = DOMAIN save
      /\ save'[s] = [save[s] EXCEPT !.pc = "write"]
      /\ \A r \in DOMAIN save : r # s => save'[r] = save[r]
      /\ file' = NoFile /\ lone' = lone
  BY DEF OpenFile, At
<1>2. /\ DOMAIN save'[s] = {"pc", "copy", "alone"}
      /\ save'[s].pc = "write" /\ save'[s].copy = save[s].copy /\ save'[s].alone = save[s].alone
      /\ save'[s].alone \in BOOLEAN
  BY <1>1 DEF SavedInv, SaveShape
<1>3. SaveShape'
  BY <1>1, <1>2 DEF SavedInv, SaveShape
<1>4. Unsaved => Unsaved'
  BY <1>1 DEF Unsaved
<1>5. \A r \in DOMAIN save : /\ PastSnapshot(r)' <=> PastSnapshot(r)
                             /\ save'[r].copy = save[r].copy /\ save'[r].alone = save[r].alone
  BY <1>1, <1>2 DEF PastSnapshot
<1>6. AloneIsCurrent'
  BY <1>1, <1>4, <1>5 DEF SavedInv, AloneIsCurrent
<1>7. LoneSaveIsCurrent'
  BY <1>1 DEF LoneSaveIsCurrent, Quiet
<1> QED
  BY <1>3, <1>6, <1>7 DEF SavedInv

\* A save ends: with its own text in the file if it ran alone, and otherwise the
\* server is told that it did not.
LEMMA EndKeepsSaved ==
    ASSUME SavedInv, NEW s \in DOMAIN save, PastSnapshot(s),
           UNCHANGED <<config, mode, swapped>>,
           NEW b, EndSave(s, b),
           \/ b = FALSE
           \/ /\ b = save[s].alone /\ save[s].pc = "write"
              /\ b => file' = Text(save[s].copy)
    PROVE  SavedInv'
<1>1. /\ DOMAIN save' = DOMAIN save \ {s} /\ lone' = b
      /\ \A r \in DOMAIN save' : save'[r] = save[r]
  BY DEF EndSave, Restrict
<1>2. SaveShape'
  BY <1>1 DEF SavedInv, SaveShape
<1>3. ASSUME NEW r \in DOMAIN save', PastSnapshot(r)', save'[r].alone
      PROVE  FALSE
  <2>1. r \in DOMAIN save /\ r # s /\ PastSnapshot(r) /\ save[r].alone
    BY <1>1, <1>3 DEF PastSnapshot
  <2> QED
    BY <2>1 DEF SavedInv, AloneIsCurrent
<1>4. AloneIsCurrent'
  BY <1>3 DEF AloneIsCurrent
<1>5. ASSUME Quiet', lone'
      PROVE  file' = Text(config')
  <2>1. DOMAIN save = {s} /\ ~swapped
    BY <1>1, <1>5 DEF Quiet
  <2>2. save[s].pc = "write" /\ save[s].alone /\ file' = Text(save[s].copy)
    BY <1>1, <1>5
  <2>3. ~Unsaved
    BY <2>1, <2>2 DEF Unsaved
  <2>4. save[s].copy = config
    BY <2>2, <2>3 DEF SavedInv, AloneIsCurrent, PastSnapshot
  <2> QED
    BY <2>2, <2>4
<1>6. LoneSaveIsCurrent'
  BY <1>5 DEF LoneSaveIsCurrent
<1> QED
  BY <1>2, <1>4, <1>6 DEF SavedInv

LEMMA SavingKeepsSaved ==
    ASSUME SavedInv, NEW s, SaveStep(s)
    PROVE  SavedInv'
<1>1. Saving(s) /\ UNCHANGED <<config, mode, swapped>>
  BY DEF SaveStep, Saving, mediaVars
<1>2. CASE TakeSnapshot(s)
  BY <1>1, <1>2, SnapshotKeepsSaved
<1>3. CASE OpenFile(s)
  BY <1>1, <1>3, OpenKeepsSaved
<1>4. CASE WriteFile(s)
  <2>1. s \in DOMAIN save /\ save[s].pc = "write" /\ EndSave(s, save[s].alone)
    BY <1>4 DEF WriteFile, At
  <2>2. save[s].alone => file' = Text(save[s].copy)
    <3> SUFFICES ASSUME save[s].alone
                 PROVE  file' = Text(save[s].copy)
      OBVIOUS
    <3>1. file = NoFile
      BY <2>1 DEF SavedInv, AloneIsCurrent, PastSnapshot
    <3> QED
      BY <1>4, <3>1 DEF WriteFile
  <2> QED
    BY <1>1, <2>1, <2>2, EndKeepsSaved DEF PastSnapshot
<1>5. CASE SaveFails(s)
  <2>1. s \in DOMAIN save /\ PastSnapshot(s) /\ EndSave(s, FALSE)
    BY <1>5 DEF SaveFails, At, PastSnapshot
  <2> QED
    BY <1>1, <2>1, EndKeepsSaved
<1> QED
  BY <1>1, <1>2, <1>3, <1>4, <1>5 DEF Saving

\* A roll that changes a configuration counts as a change.
LEMMA RecordKeepsSaved ==
    ASSUME SavedInv, NEW p, RecordRoll(p)
    PROVE  SavedInv'
<1>1. /\ UNCHANGED <<file, save, lone, mode>>
      /\ swapped' = (swapped \/ MediaChanges(p, answer[p]))
      /\ ~MediaChanges(p, answer[p]) => config' = config
  BY DEF RecordRoll, fileVars, SetReadyMedia, MediaChanges
<1>2. Unsaved => Unsaved'
  BY <1>1 DEF Unsaved
<1>3. config' = config \/ Unsaved'
  BY <1>1 DEF Unsaved
<1>4. SaveShape' /\ AloneIsCurrent'
  BY <1>1, <1>2, <1>3 DEF SavedInv, SaveShape, AloneIsCurrent, PastSnapshot
<1>5. LoneSaveIsCurrent'
  BY <1>1, <1>3 DEF SavedInv, LoneSaveIsCurrent, Quiet, Running, Unsaved
<1> QED
  BY <1>4, <1>5 DEF SavedInv

LEMMA SavedStep == SavedInv /\ [ServerNext]_serverVars => SavedInv'
<1> SUFFICES ASSUME SavedInv, [ServerNext]_serverVars
             PROVE  SavedInv'
  OBVIOUS
<1>1. CASE Bootstrap
  BY <1>1, PersistKeepsSaved DEF Bootstrap
<1>2. CASE Crash
  <2>1. DOMAIN save' = {} /\ mode' = "down"
    BY <1>2 DEF Crash, NoPrinters
  <2> QED
    BY <2>1 DEF SavedInv, SaveShape, AloneIsCurrent, LoneSaveIsCurrent, Quiet, Running
<1>3. ASSUME NEW p \in Printer, Tick \/ Answer(p) \/ NoRollReported(p) \/ LoadRoll(p)
      PROVE  SavedInv'
  BY <1>3, IdleKeepsSaved DEF Tick, Answer, NoRollReported, LoadRoll, mediaVars, fileVars
<1>4. ASSUME NEW p \in Printer, RecordRoll(p)
      PROVE  SavedInv'
  BY <1>4, RecordKeepsSaved
<1>5. CASE SaveSwap
  BY <1>5, PersistKeepsSaved DEF SaveSwap
<1>6. ASSUME NEW f \in Form, FormStep(f)
      PROVE  SavedInv'
  <2>1. CASE SubmitForm(f) \/ HookAccepts(f) \/ HookRefuses(f)
    BY <2>1, IdleKeepsSaved DEF SubmitForm, HookAccepts, HookRefuses, mediaVars, fileVars
  <2>2. CASE ApplyForm(f)
    BY <2>2, PersistKeepsSaved DEF ApplyForm
  <2> QED
    BY <1>6, <2>1, <2>2 DEF FormStep
<1>7. ASSUME NEW w \in Worker, WorkerEnds(w)
      PROVE  SavedInv'
  BY <1>7, PersistKeepsSaved DEF WorkerEnds
<1>8. ASSUME NEW s \in Saver, SaveStep(s)
      PROVE  SavedInv'
  BY <1>8, SavingKeepsSaved
<1>9. CASE UNCHANGED serverVars
  BY <1>9, IdleKeepsSaved DEF serverVars
<1>10. CASE Tick
  BY <1>10, IdleKeepsSaved DEF Tick, mediaVars, fileVars
<1> QED
  BY <1>1, <1>2, <1>3, <1>4, <1>5, <1>6, <1>7, <1>8, <1>9, <1>10 DEF ServerNext, PollerStep

LEMMA SavedInvariant == ServerSpec => []SavedInv
<1>1. ServerInit => SavedInv
  <2> SUFFICES ASSUME ServerInit
               PROVE  SavedInv
    OBVIOUS
  <2>1. DOMAIN save = {} /\ mode = "down"
    BY DEF ServerInit, FileInit, NoPrinters
  <2> QED
    BY <2>1 DEF SavedInv, SaveShape, AloneIsCurrent, LoneSaveIsCurrent, Quiet, Running
<1> QED
  BY <1>1, SavedStep, PTL DEF ServerSpec

\* Whenever nothing waits to be saved and the last save ran alone, the file says
\* what the server shows, for any printers, requests, workers and failures of the
\* disk (Server::persist and its callers).
THEOREM LoneSavesAreCurrent == ServerSpec => []LoneSaveIsCurrent
<1>1. SavedInv => LoneSaveIsCurrent
  BY DEF SavedInv
<1> QED
  BY <1>1, SavedInvariant, PTL

-----------------------------------------------------------------------------
(***************************************************************************)
(* The restart.  While the server is down nothing touches the file, and    *)
(* what the crash found saved is in it.                                    *)
(***************************************************************************)

DownIsQuiet ==
    mode = "down" =>
        /\ DOMAIN save = {} /\ DOMAIN answer = {} /\ DOMAIN form = {} /\ ~swapped
        /\ \A p \in DOMAIN survives : p \in DOMAIN LoadFile /\ LoadFile[p] = survives[p]

LEMMA DownStep == SavedInv /\ DownIsQuiet /\ [ServerNext]_serverVars => DownIsQuiet'
<1> SUFFICES ASSUME SavedInv, DownIsQuiet, [ServerNext]_serverVars, mode' = "down"
             PROVE  /\ DOMAIN save' = {} /\ DOMAIN answer' = {} /\ DOMAIN form' = {} /\ ~swapped'
                    /\ \A p \in DOMAIN survives' :
                          p \in DOMAIN LoadFile' /\ LoadFile'[p] = survives'[p]
  BY DEF DownIsQuiet
<1>1. CASE Crash
  <2>1. DOMAIN save' = {} /\ DOMAIN answer' = {} /\ DOMAIN form' = {} /\ ~swapped'
    BY <1>1 DEF Crash, NoPrinters
  <2>2. LoadFile' = LoadFile
    BY <1>1 DEF Crash, LoadFile
  <2>3. CASE Quiet /\ lone
    <3>1. survives' = config /\ file = Text(config)
      BY <1>1, <2>3 DEF Crash, SavedInv, LoneSaveIsCurrent
    <3>2. LoadFile = config
      BY <3>1 DEF LoadFile, Text
    <3> QED
      BY <2>1, <2>2, <3>1, <3>2
  <2>4. CASE ~(Quiet /\ lone)
    <3>1. DOMAIN survives' = {}
      BY <1>1, <2>4 DEF Crash, NoPrinters
    <3> QED
      BY <2>1, <3>1
  <2> QED
    BY <2>3, <2>4
<1>2. CASE mode = "down"
  <2>1. /\ DOMAIN save = {} /\ DOMAIN answer = {} /\ DOMAIN form = {} /\ ~swapped
        /\ ~Running /\ ~Crash /\ ~Bootstrap
    BY <1>2 DEF DownIsQuiet, Running, Crash, Bootstrap
  <2>2. ~PollerStep
    BY <2>1 DEF PollerStep, Tick, Answer, NoRollReported, RecordRoll, SaveSwap, Polling
  <2>3. \A f \in Form : ~FormStep(f)
    BY <2>1 DEF FormStep, SubmitForm, HookAccepts, HookRefuses, ApplyForm
  <2>4. \A s \in Saver : ~SaveStep(s)
    BY <2>1 DEF SaveStep, Saving, TakeSnapshot, OpenFile, WriteFile, SaveFails, At
  <2>5. (\E p \in Printer : LoadRoll(p)) \/ UNCHANGED serverVars
    BY <2>1, <2>2, <2>3, <2>4 DEF ServerNext, WorkerEnds
  <2>6. UNCHANGED <<file, save, answer, form, swapped, survives>>
    BY <2>5 DEF LoadRoll, serverVars, fileVars
  <2> QED
    BY <1>2, <2>6 DEF DownIsQuiet, LoadFile
<1>3. CASE mode # "down" /\ ~Crash
  <2>1. mode' = mode
    BY <1>3 DEF ServerNext, Bootstrap, PollerStep, Tick, Answer, NoRollReported, RecordRoll,
                SaveSwap, FormStep, SubmitForm, HookAccepts, HookRefuses, ApplyForm, WorkerEnds,
                SaveStep, LoadRoll, serverVars
  <2> QED
    BY <1>3, <2>1
<1> QED
  BY <1>1, <1>2, <1>3

\* What was saved by a save that ran alone is what a restart brings back, whichever
\* devices it finds (bootstrap_printers), for any number of them.
THEOREM SwapsOutliveTheProcess == ServerSpec => SwapOutlivesProcess
<1> DEFINE Restored == mode = "down" /\ mode' = "up" =>
                          \A p \in DOMAIN survives :
                              p \in DOMAIN config' /\ config'[p] = survives[p]
<1>1. ServerInit => DownIsQuiet
  BY DEF ServerInit, FileInit, DownIsQuiet, NoPrinters
<1>2. DownIsQuiet /\ [ServerNext]_serverVars => [Restored]_serverVars
  <2> SUFFICES ASSUME DownIsQuiet, ServerNext, mode = "down", mode' = "up"
               PROVE  \A p \in DOMAIN survives : p \in DOMAIN config' /\ config'[p] = survives[p]
    OBVIOUS
  <2>1. Bootstrap
    BY DEF ServerNext, Crash, PollerStep, Tick, Answer, NoRollReported, RecordRoll,
           SaveSwap, FormStep, SubmitForm, HookAccepts, HookRefuses, ApplyForm, WorkerEnds,
           SaveStep, LoadRoll
  <2>2. PICK found \in SUBSET Printer : config' = Merge(found)
    BY <2>1 DEF Bootstrap
  <2> QED
    BY <2>2 DEF DownIsQuiet, Merge
<1> QED
  BY <1>1, <1>2, DownStep, SavedInvariant, PTL DEF ServerSpec, SwapOutlivesProcess

-----------------------------------------------------------------------------
(***************************************************************************)
(* The types.  Those of the configurations and of the saves are parts of   *)
(* the invariants above; these are the others.                             *)
(***************************************************************************)

FileTyped ==
    /\ file.kind \in {"empty", "json", "torn"} /\ IsConfigs(file.printers)
    /\ DOMAIN save \subseteq Saver
    /\ lone \in BOOLEAN

FormTyped ==
    /\ DOMAIN form \subseteq Form
    /\ \A f \in DOMAIN form :
          form[f] \in [printer : Printer, media : Media, agreed : BOOLEAN]

TaskTyped ==
    /\ ready \in [Printer -> Media \cup {NoMedia}]
    /\ mode \in {"down", "up"}
    /\ todo \in SUBSET Printer
    /\ DOMAIN answer \subseteq Printer
    /\ swapped \in BOOLEAN
    /\ IsConfigs(survives)

TypeInv == MediaInv /\ SaveShape /\ FileTyped /\ FormTyped /\ TaskTyped

LEMMA GoodAreConfigs ==
    /\ \A f : Good(f) => IsConfigs(f)
    /\ IsConfigs(NoPrinters)
BY DEF Good, IsConfigs, NoPrinters

LEMMA PersistTyped ==
    ASSUME NEW t \in Saver, DOMAIN save \subseteq Saver
    PROVE  DOMAIN Persist(t) \subseteq Saver
BY DEF Persist, With

LEMMA FileStepTyped == TypeInv /\ [ServerNext]_serverVars => FileTyped'
<1> SUFFICES ASSUME TypeInv, [ServerNext]_serverVars
             PROVE  FileTyped'
  OBVIOUS
<1> USE DEF TypeInv, FileTyped
<1>1. CASE UNCHANGED <<file, lone>> /\ \E t \in Saver : save' = Persist(t)
  BY <1>1, PersistTyped
<1>2. CASE Crash
  BY <1>2 DEF Crash, NoPrinters
<1>3. CASE UNCHANGED fileVars
  BY <1>3 DEF fileVars
<1>4. ASSUME NEW s \in Saver, SaveStep(s)
      PROVE  FileTyped'
  <2>1. s \in DOMAIN save /\ save[s].alone \in BOOLEAN /\ IsConfigs(save[s].copy)
    BY <1>4, GoodAreConfigs DEF SaveStep, Saving, TakeSnapshot, OpenFile, WriteFile, SaveFails, At,
                                SaveShape, MediaInv, GoodInputs
  <2>2. file' \in {file, NoFile, TornFile, Text(save[s].copy)}
    BY <1>4 DEF SaveStep, Saving, TakeSnapshot, OpenFile, WriteFile, SaveFails
  <2>3. DOMAIN save' \subseteq DOMAIN save /\ lone' \in {lone, save[s].alone, FALSE}
    BY <1>4 DEF SaveStep, Saving, TakeSnapshot, OpenFile, WriteFile, SaveFails, EndSave, Restrict
  <2>4. file'.kind \in {"empty", "json", "torn"} /\ IsConfigs(file'.printers)
    BY <2>1, <2>2, GoodAreConfigs DEF NoFile, TornFile, Text
  <2> QED
    BY <2>1, <2>3, <2>4
<1>5. CASE Bootstrap \/ SaveSwap \/ (\E f \in Form : ApplyForm(f)) \/ (\E w \in Worker : WorkerEnds(w))
  BY <1>1, <1>5 DEF Bootstrap, SaveSwap, ApplyForm, WorkerEnds, Saver
<1>6. CASE \/ Tick
           \/ \E p \in Printer : Answer(p) \/ NoRollReported(p) \/ RecordRoll(p) \/ LoadRoll(p)
           \/ \E f \in Form : SubmitForm(f) \/ HookAccepts(f) \/ HookRefuses(f)
  BY <1>3, <1>6 DEF Tick, Answer, NoRollReported, RecordRoll, LoadRoll, SubmitForm, HookAccepts,
                    HookRefuses
<1>7. CASE UNCHANGED serverVars
  BY <1>3, <1>7 DEF serverVars, fileVars
<1> QED
  BY <1>2, <1>4, <1>5, <1>6, <1>7 DEF ServerNext, PollerStep, FormStep

LEMMA FormStepTyped == TypeInv /\ [ServerNext]_serverVars => FormTyped'
<1> SUFFICES ASSUME TypeInv, [ServerNext]_serverVars
             PROVE  FormTyped'
  OBVIOUS
<1> USE DEF TypeInv, FormTyped
<1>1. CASE UNCHANGED form
  BY <1>1
<1>2. CASE form' = NoPrinters
  BY <1>2 DEF NoPrinters
<1>3. ASSUME NEW f \in Form, SubmitForm(f)
      PROVE  FormTyped'
  <2>1. PICK p \in DOMAIN config, m \in InRange :
           form' = With(form, f, [printer |-> p, media |-> m, agreed |-> FALSE])
    BY <1>3 DEF SubmitForm
  <2>2. p \in Printer /\ m \in Media
    BY InRangeAssumption DEF MediaInv, GoodRecords, Good
  <2> QED
    BY <2>1, <2>2 DEF With
<1>4. ASSUME NEW f \in Form, HookAccepts(f)
      PROVE  FormTyped'
  BY <1>4 DEF HookAccepts
<1>5. ASSUME NEW f \in Form, HookRefuses(f) \/ ApplyForm(f)
      PROVE  FormTyped'
  BY <1>5 DEF HookRefuses, ApplyForm, Restrict
<1>6. UNCHANGED form \/ form' = NoPrinters \/ \E f \in Form : FormStep(f)
  BY DEF ServerNext, Bootstrap, Crash, PollerStep, Tick, Answer, NoRollReported, RecordRoll,
         SaveSwap, WorkerEnds, SaveStep, LoadRoll, serverVars
<1> QED
  BY <1>1, <1>2, <1>3, <1>4, <1>5, <1>6 DEF FormStep

LEMMA TaskStepTyped == TypeInv /\ [ServerNext]_serverVars => TaskTyped'
<1> SUFFICES ASSUME TypeInv, [ServerNext]_serverVars
             PROVE  TaskTyped'
  OBVIOUS
<1> USE DEF TypeInv, TaskTyped
<1>1. CASE UNCHANGED <<ready, mode, todo, answer, swapped, survives>>
  BY <1>1
<1>2. CASE Bootstrap
  BY <1>2, GoodAreConfigs DEF Bootstrap
<1>3. CASE Crash
  BY <1>3, GoodAreConfigs DEF Crash, MediaInv, GoodRecords, NoPrinters
<1>4. CASE Tick
  BY <1>4 DEF Tick, mediaVars, MediaInv, GoodRecords, Good
<1>5. ASSUME NEW p \in Printer, Answer(p) \/ NoRollReported(p)
      PROVE  TaskTyped'
  BY <1>5 DEF Answer, NoRollReported, mediaVars
<1>6. ASSUME NEW p, NEW m \in Media, SetReadyMedia(p, m)
      PROVE  ready' \in [Printer -> Media \cup {NoMedia}]
  BY <1>6 DEF SetReadyMedia
<1>7. ASSUME NEW p \in Printer, RecordRoll(p)
      PROVE  TaskTyped'
  <2>1. ready' \in [Printer -> Media \cup {NoMedia}]
    BY <1>6, <1>7 DEF RecordRoll, MediaInv, GoodInputs
  <2>2. swapped' \in BOOLEAN
    BY <1>7 DEF RecordRoll
  <2> QED
    BY <1>7, <2>1, <2>2 DEF RecordRoll, NoPrinters
<1>8. CASE SaveSwap
  BY <1>8 DEF SaveSwap, mediaVars
<1>9. ASSUME NEW f \in Form, FormStep(f)
      PROVE  TaskTyped'
  <2>1. CASE SubmitForm(f) \/ HookAccepts(f) \/ HookRefuses(f)
    BY <2>1, <1>1 DEF SubmitForm, HookAccepts, HookRefuses, mediaVars
  <2>2. CASE ApplyForm(f)
    <3>1. ready' \in [Printer -> Media \cup {NoMedia}]
      BY <1>6, <2>2 DEF ApplyForm, MediaInv, GoodInputs
    <3> QED
      BY <2>2, <3>1 DEF ApplyForm
  <2> QED
    BY <1>9, <2>1, <2>2 DEF FormStep
<1>10. CASE \/ \E w \in Worker : WorkerEnds(w)
            \/ \E s \in Saver : SaveStep(s)
            \/ \E p \in Printer : LoadRoll(p)
            \/ UNCHANGED serverVars
  BY <1>1, <1>10 DEF WorkerEnds, SaveStep, Saving, LoadRoll, mediaVars, serverVars
<1> QED
  BY <1>2, <1>3, <1>4, <1>5, <1>7, <1>8, <1>9, <1>10 DEF ServerNext, PollerStep

LEMMA InitTyped == ServerInit => FileTyped /\ FormTyped /\ TaskTyped
<1> SUFFICES ASSUME ServerInit
             PROVE  FileTyped /\ FormTyped /\ TaskTyped
  OBVIOUS
<1>1. FileTyped
  <2>1. file = NoFile \/ \E f \in Earlier : file = Text(f)
    BY DEF ServerInit, FileInit
  <2>2. file.kind \in {"empty", "json", "torn"} /\ IsConfigs(file.printers)
    BY <2>1, EarlierAssumption, GoodAreConfigs DEF NoFile, Text
  <2> QED
    BY <2>2 DEF ServerInit, FileInit, FileTyped, NoPrinters
<1>2. FormTyped
  BY DEF ServerInit, FormTyped, NoPrinters
<1>3. TaskTyped
  BY GoodAreConfigs DEF ServerInit, MediaInit, TaskTyped, NoPrinters
<1> QED
  BY <1>1, <1>2, <1>3

\* The registry, the file, the saves, the round, the answers and the requests keep
\* their types (every handler of Server and every step of poller and persist).
THEOREM ServerTypeCorrect == ServerSpec => []MediaTypeOK
<1> DEFINE Typed == FileTyped /\ FormTyped /\ TaskTyped
<1>1. ServerInit => Typed
  BY InitTyped
<1>2. MediaInv /\ SavedInv /\ Typed /\ [ServerNext]_serverVars => Typed'
  BY FileStepTyped, FormStepTyped, TaskStepTyped DEF TypeInv, SavedInv
<1>3. MediaInv /\ SavedInv /\ Typed => MediaTypeOK
  BY GoodAreConfigs DEF MediaInv, GoodRecords, GoodInputs, SavedInv, SaveShape, FileTyped,
                        FormTyped, TaskTyped, MediaTypeOK, FileTypeOK
<1> QED
  BY <1>1, <1>2, <1>3, MediaInvariant, SavedInvariant, PTL DEF ServerSpec

-----------------------------------------------------------------------------
(***************************************************************************)
(* The file between the saves.  A file without printers is a step of the   *)
(* save that emptied it, as long as no other call of persist takes the     *)
(* place of that save: a task has one save at a time, because the poller   *)
(* polls nothing while it saves and a request ends with its save.          *)
(***************************************************************************)

OneSavePerTask ==
    /\ DOMAIN answer \subseteq todo
    /\ "poller" \in DOMAIN save => ~swapped /\ todo = {}
    /\ \A f \in DOMAIN form : f \notin DOMAIN save

LEMMA OneSaveStep ==
    OneSavePerTask /\ DownIsQuiet /\ FormTyped /\ [ServerNext]_serverVars => OneSavePerTask'
<1> SUFFICES ASSUME OneSavePerTask, DownIsQuiet, FormTyped, [ServerNext]_serverVars
             PROVE  OneSavePerTask'
  OBVIOUS
<1> USE DEF OneSavePerTask
<1>1. ASSUME NEW t, save' = Persist(t)
      PROVE  DOMAIN save' = DOMAIN save \cup {t}
  BY <1>1 DEF Persist, With
<1>2. CASE Bootstrap
  <2>1. /\ DOMAIN answer' = {} /\ DOMAIN form' = {} /\ DOMAIN save' = {"boot"}
    BY <1>1, <1>2 DEF Bootstrap, DownIsQuiet
  <2> QED
    BY <2>1
<1>3. CASE Crash
  <2>1. DOMAIN answer' = {} /\ DOMAIN form' = {} /\ DOMAIN save' = {}
    BY <1>3 DEF Crash, NoPrinters
  <2> QED
    BY <2>1
<1>4. CASE Tick
  BY <1>4 DEF Tick, Polling, fileVars
<1>5. ASSUME NEW p, Answer(p)
      PROVE  OneSavePerTask'
  BY <1>5 DEF Answer, Polling, fileVars
<1>6. ASSUME NEW p, NoRollReported(p)
      PROVE  OneSavePerTask'
  BY <1>6 DEF NoRollReported, Polling, fileVars
<1>7. ASSUME NEW p, RecordRoll(p)
      PROVE  OneSavePerTask'
  <2>1. "poller" \notin DOMAIN save
    BY <1>7 DEF RecordRoll
  <2> QED
    BY <1>7, <2>1 DEF RecordRoll, fileVars, NoPrinters
<1>8. CASE SaveSwap
  <2>1. UNCHANGED <<answer, todo, form>> /\ todo = {} /\ ~swapped' /\ DOMAIN save' = DOMAIN save \cup {"poller"}
    BY <1>1, <1>8 DEF SaveSwap
  <2> QED
    BY <2>1, SaverAssumption DEF FormTyped
<1>9. ASSUME NEW f \in Form, SubmitForm(f)
      PROVE  OneSavePerTask'
  <2>1. DOMAIN form' = {f} \cup DOMAIN form /\ f \notin DOMAIN save
    BY <1>9 DEF SubmitForm, With
  <2>2. UNCHANGED <<answer, todo, save, swapped>>
    BY <1>9 DEF SubmitForm, fileVars
  <2> QED
    BY <2>1, <2>2
<1>10. ASSUME NEW f \in Form, HookAccepts(f) \/ HookRefuses(f)
      PROVE  OneSavePerTask'
  <2>1. DOMAIN form' \subseteq DOMAIN form /\ UNCHANGED <<answer, todo, save, swapped>>
    BY <1>10 DEF HookAccepts, HookRefuses, Restrict, fileVars
  <2> QED
    BY <2>1
<1>11. ASSUME NEW f \in Form, ApplyForm(f)
      PROVE  OneSavePerTask'
  <2>1. DOMAIN form' = DOMAIN form \ {f} /\ DOMAIN save' = DOMAIN save \cup {f}
    BY <1>1, <1>11 DEF ApplyForm, Restrict
  <2>2. UNCHANGED <<answer, todo, swapped>> /\ f # "poller"
    BY <1>11, SaverAssumption DEF ApplyForm
  <2> QED
    BY <2>1, <2>2
<1>12. ASSUME NEW w \in Worker, WorkerEnds(w)
      PROVE  OneSavePerTask'
  <2>1. UNCHANGED <<answer, todo, swapped, form>> /\ DOMAIN save' = DOMAIN save \cup {w}
    BY <1>1, <1>12 DEF WorkerEnds
  <2>2. w # "poller" /\ w \notin DOMAIN form
    BY SaverAssumption DEF FormTyped
  <2> QED
    BY <2>1, <2>2
<1>13. ASSUME NEW s, SaveStep(s)
      PROVE  OneSavePerTask'
  <2>1. UNCHANGED <<answer, todo, swapped, form>>
    BY <1>13 DEF SaveStep
  <2>2. DOMAIN save' \subseteq DOMAIN save
    BY <1>13 DEF SaveStep, Saving, TakeSnapshot, OpenFile, WriteFile, SaveFails, EndSave, Restrict
  <2> QED
    BY <2>1, <2>2
<1>14. CASE (\E p \in Printer : LoadRoll(p)) \/ UNCHANGED serverVars
  BY <1>14 DEF LoadRoll, serverVars, fileVars
<1> QED
  BY <1>2, <1>3, <1>4, <1>5, <1>6, <1>7, <1>8, <1>9, <1>10, <1>11, <1>12, <1>13, <1>14
     DEF ServerNext, PollerStep, FormStep

\* A new call of persist leaves the save that has emptied the file alone.
LEMMA PersistKeepsCause ==
    ASSUME UnreadableFileHasCause, UNCHANGED <<file, lone>>,
           NEW t, t \notin DOMAIN save, save' = Persist(t)
    PROVE  UnreadableFileHasCause'
<1>1. \A s \in DOMAIN save : s \in DOMAIN save' /\ save'[s] = save[s]
  BY DEF Persist, With
<1> QED
  BY <1>1 DEF UnreadableFileHasCause

LEMMA SaveStepKeepsCause ==
    ASSUME SavedInv, UnreadableFileHasCause, NEW s, SaveStep(s)
    PROVE  UnreadableFileHasCause'
<1>1. CASE TakeSnapshot(s)
  <2>1. UNCHANGED <<file, lone>> /\ DOMAIN save' = DOMAIN save
        /\ s \in DOMAIN save /\ save[s].pc = "snapshot"
    BY <1>1 DEF TakeSnapshot, At
  <2>2. ASSUME NEW r \in DOMAIN save, save[r].pc = "write"
        PROVE  save'[r].pc = "write"
    <3>1. r # s /\ DOMAIN save[r] = {"pc", "copy", "alone"}
      BY <2>1, <2>2 DEF SavedInv, SaveShape
    <3> DEFINE others == {q \in DOMAIN save \ {s} : save[q].pc # "snapshot"}
    <3>2. save'[r] = [save[r] EXCEPT !.alone = @ /\ r \notin others]
      BY <1>1, <3>1 DEF TakeSnapshot
    <3> HIDE DEF others
    <3> QED
      BY <2>2, <3>1, <3>2
  <2> QED
    BY <2>1, <2>2 DEF UnreadableFileHasCause
<1>2. CASE OpenFile(s)
  <2>1. s \in DOMAIN save' /\ save'[s] = [save[s] EXCEPT !.pc = "write"]
        /\ DOMAIN save[s] = {"pc", "copy", "alone"}
    BY <1>2 DEF OpenFile, At, SavedInv, SaveShape
  <2> QED
    BY <2>1 DEF UnreadableFileHasCause
<1>3. CASE WriteFile(s)
  <2>1. s \in DOMAIN save /\ save[s].pc = "write" /\ lone' = save[s].alone
    BY <1>3 DEF WriteFile, At, EndSave
  <2>2. save[s].alone => file = NoFile
    BY <2>1 DEF SavedInv, AloneIsCurrent, PastSnapshot
  <2>3. save[s].alone => file'.kind = "json"
    BY <1>3, <2>2 DEF WriteFile, Text
  <2> QED
    BY <2>1, <2>3 DEF UnreadableFileHasCause
<1>4. CASE SaveFails(s)
  BY <1>4 DEF SaveFails, EndSave, UnreadableFileHasCause
<1> QED
  BY <1>1, <1>2, <1>3, <1>4 DEF SaveStep, Saving

LEMMA CauseStep ==
    /\ SavedInv /\ DownIsQuiet /\ FormTyped /\ OneSavePerTask
    /\ UnreadableFileHasCause /\ [ServerNext]_serverVars
    => UnreadableFileHasCause'
<1> SUFFICES ASSUME SavedInv, DownIsQuiet, FormTyped, OneSavePerTask,
                    UnreadableFileHasCause, [ServerNext]_serverVars
             PROVE  UnreadableFileHasCause'
  OBVIOUS
<1>1. CASE Bootstrap
  BY <1>1, PersistKeepsCause DEF Bootstrap, DownIsQuiet
<1>2. CASE Crash
  BY <1>2 DEF Crash, UnreadableFileHasCause
<1>3. CASE SaveSwap
  BY <1>3, PersistKeepsCause DEF SaveSwap, OneSavePerTask
<1>4. ASSUME NEW f, ApplyForm(f)
      PROVE  UnreadableFileHasCause'
  BY <1>4, PersistKeepsCause DEF ApplyForm, OneSavePerTask
<1>5. ASSUME NEW w, WorkerEnds(w)
      PROVE  UnreadableFileHasCause'
  BY <1>5, PersistKeepsCause DEF WorkerEnds
<1>6. ASSUME NEW s, SaveStep(s)
      PROVE  UnreadableFileHasCause'
  BY <1>6, SaveStepKeepsCause
<1>7. CASE UNCHANGED fileVars
  BY <1>7 DEF fileVars, UnreadableFileHasCause
<1>8. CASE \/ Tick
           \/ \E p \in Printer : Answer(p) \/ NoRollReported(p) \/ RecordRoll(p) \/ LoadRoll(p)
           \/ \E f \in Form : SubmitForm(f) \/ HookAccepts(f) \/ HookRefuses(f)
           \/ UNCHANGED serverVars
  BY <1>7, <1>8 DEF Tick, Answer, NoRollReported, RecordRoll, LoadRoll, SubmitForm, HookAccepts,
                    HookRefuses, serverVars, fileVars
<1> QED
  BY <1>1, <1>2, <1>3, <1>4, <1>5, <1>6, <1>8 DEF ServerNext, PollerStep, FormStep

\* A file that says nothing of the printers is the work of a save under way that
\* emptied it, or the last save failed or met another one, for any tasks that save
\* and any failures of the disk (PersistedState::save): only a crash there, or
\* after such a save, loses the printers.
THEOREM UnreadableFilesHaveCause == ServerSpec => []UnreadableFileHasCause
<1> DEFINE Inv == DownIsQuiet /\ OneSavePerTask /\ UnreadableFileHasCause
<1>1. ServerInit => Inv
  BY DEF ServerInit, FileInit, DownIsQuiet, OneSavePerTask, UnreadableFileHasCause, NoPrinters
<1>2. MediaTypeOK => FormTyped
  BY DEF MediaTypeOK, FormTyped
<1>3. MediaTypeOK /\ SavedInv /\ Inv /\ [ServerNext]_serverVars => Inv'
  BY <1>2, DownStep, OneSaveStep, CauseStep
<1>4. Inv => UnreadableFileHasCause
  OBVIOUS
<1> QED
  BY <1>1, <1>3, <1>4, ServerTypeCorrect, SavedInvariant, PTL DEF ServerSpec

=============================================================================

---------------------------- MODULE WorkdirProofs -----------------------------
(***************************************************************************)
(* What holds of every work directory and of every operator's day with it: *)
(* for any number of seeds, runs, copies, altered documents and commands   *)
(* cut short.                                                              *)
(***************************************************************************)
EXTENDS Workdir, SequenceTheorems, FiniteSetTheorems, TLAPS

(* The names. *)

LEMMA OwnSiblings ==
    /\ OwnSibling(Probe, "pdf") = "audit-pack.pdf"
    /\ OwnSibling(Probe, "in_toto") = "attestation.intoto.json"
    /\ OwnSibling(Probe, "dsse") = "evidence.dsse.json"
    /\ OwnSibling(Probe, "run") = "run.json"
    /\ OwnSibling(Erasure, "pdf") = "erasure-attestation.pdf"
    /\ OwnSibling(Erasure, "in_toto") = "erasure-attestation.intoto.json"
    /\ OwnSibling(Erasure, "dsse") = "erasure-evidence.dsse.json"
    /\ OwnSibling(Erasure, "run") = ""
  BY DEF OwnSibling, Probe, Erasure, Siblings

LEMMA Names ==
    SiblingNames = {"audit-pack.pdf", "attestation.intoto.json", "evidence.dsse.json", "run.json",
                    "erasure-attestation.pdf", "erasure-attestation.intoto.json",
                    "erasure-evidence.dsse.json"}
  <1> DEFINE Both(s) == {Siblings[s].p, Siblings[s].e}
  <1>1. /\ Both("pdf") = {"audit-pack.pdf", "erasure-attestation.pdf"}
        /\ Both("in_toto") = {"attestation.intoto.json", "erasure-attestation.intoto.json"}
        /\ Both("dsse") = {"evidence.dsse.json", "erasure-evidence.dsse.json"}
        /\ Both("run") = {"run.json", ""}
    BY DEF Siblings
  <1> DEFINE All == UNION {Both(s) : s \in Slots}
  <1>3. SiblingNames = All \ {""}
    BY DEF SiblingNames
  <1> HIDE DEF Both
  <1>2. ASSUME NEW f
        PROVE  f \in All <=> \/ f \in Both("pdf") \/ f \in Both("in_toto")
                             \/ f \in Both("dsse") \/ f \in Both("run")
    <2>1. f \in All <=> \E s \in Slots : f \in Both(s)
      OBVIOUS
    <2> QED
      BY <2>1 DEF Slots
  <1> HIDE DEF All
  <1> QED
    BY <1>1, <1>2, <1>3

-----------------------------------------------------------------------------
(* What `verify` concludes, of any folder. *)

\* Nobody's word covers a document that is altered or torn, and only that of an
\* anchored pack covers one an anchored pack is certified beside.
LEMMA ClaimsAreWarranted ==
    ASSUME NEW folder, NEW name, NEW file, NEW slot \in Slots \ {"run"}, NEW pack \in Attested,
           Claim(folder, name, file, slot, pack) # "unowned"
    PROVE  /\ folder[file] \in Attested
           /\ pack.anchored /\ ~folder[file].anchored =>
                 Claim(folder, name, file, slot, pack) = "under-anchored"
  <1>1. PICK o \in Owners \ {name} : Intact(folder[o]) /\ Binds(folder[file], slot, folder[o])
                                     /\ OwnSibling(o, slot) = file
    BY DEF Claim
  <1>2. folder[file] = folder[o]
    BY <1>1 DEF Binds
  <1> QED
    BY <1>1, <1>2 DEF Claim, Intact

\* A pack that `verify` passes has, in a slot where nothing beside it is its own, only
\* documents some other pack owns.
LEMMA PassedIsOwned ==
    ASSUME NEW folder, NEW name, NEW slot \in Slots \ {"run"}, NEW allow \in BOOLEAN,
           VerifyExit(folder, name, allow) = 0, Bound(folder, name, slot) = {},
           NEW file \in Present(folder, name, slot)
    PROVE  /\ folder[name] \in Attested
           /\ Claim(folder, name, file, slot, folder[name]) = "owned"
           /\ folder[name].anchored \/ allow
  <1>1. /\ folder[name] \in Attested /\ Accused(folder, name) = {}
        /\ \A s \in Slots : Unexcused(folder, name, s) = {}
        /\ folder[name].anchored \/ allow
    BY DEF VerifyExit, Intact
  <1>2. ~Binds(folder[file], slot, folder[name])
    BY DEF Bound
  <1>3. Claim(folder, name, file, slot, folder[name]) # "unowned"
    BY <1>1, <1>2 DEF Accused, Judged, Claimed
  <1>4. Claim(folder, name, file, slot, folder[name]) # "under-anchored"
    BY <1>1 DEF Unexcused, Claimed
  <1> QED
    BY <1>1, <1>3, <1>4 DEF Claim

\* No pack's name and no pack beside it make `verify` certify a folder where nothing of
\* a kind is the pack's and one such document was altered or torn, in any state of the
\* folder, the middle of a command included.
THEOREM TamperingIsFound == Spec => []TamperedNeverExcused
  <1>1. TamperedNeverExcused
    <2> SUFFICES ASSUME NEW f \in Packs, NEW s \in Slots \ {"run"}, Bound(files, f, s) = {},
                        NEW g \in Present(files, f, s)
                 PROVE  /\ files[g] \in {Altered, Torn} => VerifyExit(files, f, TRUE) # 0
                        /\ files[g] \notin {c \in Attested : c.anchored} =>
                              VerifyExit(files, f, FALSE) # 0
      BY DEF TamperedNeverExcused
    <2>1. ASSUME VerifyExit(files, f, TRUE) = 0 PROVE files[g] \notin {Altered, Torn}
      <3>1. files[f] \in Attested /\ Claim(files, f, g, s, files[f]) = "owned"
        BY <2>1, PassedIsOwned
      <3>2. files[g] \in Attested
        BY <3>1, ClaimsAreWarranted
      <3> QED
        BY <3>2, MarksAssumed
    <2>2. ASSUME VerifyExit(files, f, FALSE) = 0 PROVE files[g] \in {c \in Attested : c.anchored}
      <3>1. /\ files[f] \in Attested /\ files[f].anchored
            /\ Claim(files, f, g, s, files[f]) = "owned"
        BY <2>2, PassedIsOwned
      <3>2. files[g] \in Attested /\ files[g].anchored
        BY <3>1, ClaimsAreWarranted
      <3> QED
        BY <3>2
    <2> QED
      BY <2>1, <2>2
  <1> QED
    BY <1>1, PTL

-----------------------------------------------------------------------------
(* What is true of the folder after every step: which files are whose, and, while *)
(* a command runs, how far it has come.                                          *)

\* A pack whose manifest is the one its run was recorded against, and what a file may hold.
Signed == {p \in Attested : p.manifest = p.run.substrate}
Papers == {Absent, Torn, Altered} \cup Signed

MayHold(file, content) ==
    /\ file \in Owners => content \in {Absent, Torn} \cup Signed
    /\ file \in CopyNames => content \in {Absent} \cup Signed
    /\ file \in SiblingNames \ {"run.json"} => content \in Papers
    /\ file = "run.json" => content \in {Absent, Torn} \cup RunRecord
    /\ file = "erasure-evidence.dsse.json" => content = Absent

FilesOK ==
    /\ files = [f \in FileNames |-> files[f]]
    /\ \A f \in FileNames : MayHold(f, files[f])

SubstratesOK ==
    /\ world \in Worlds /\ seeded \in Nat /\ runs \in Nat /\ cut \in Nat
    /\ sealed \in {Absent, Torn} \cup Substrates /\ plain \in {Absent, Torn} \cup Substrates
    /\ latest # 0 => {sealed, plain} = {latest, Absent}

BundlesOK ==
    /\ bundles = [b \in BundleNames |-> bundles[b]]
    /\ \A b \in BundleNames :
          bundles[b] # Absent =>
              /\ bundles[b].manifest \in {Absent, bundles[b].evidence.run.substrate}
              /\ Untouched => BundlePasses(bundles[b])

\* A pack and its documents belong together, whole or not there at all.
Kept(owner) ==
    \/ /\ files[owner] = Absent
       /\ \A s \in {"pdf", "in_toto", "dsse"} : files[OwnSibling(owner, s)] = Absent
    \/ /\ files[owner] \in Signed
       /\ \A s \in {"pdf", "in_toto"} : files[OwnSibling(owner, s)] = files[owner]
       /\ files[OwnSibling(owner, "dsse")] \in {Absent, files[owner]}

Sound(owner) == Untouched => Kept(owner)

\* What is left of a plan when its i-th step is next.
Rest(plan, i) == SubSeq(plan, i, Len(plan))

Writing(file, content) == [do |-> "write", file |-> file, content |-> content]
Zipping(name, run, manifest) ==
    [do |-> "bundle", name |-> name, with_run |-> run, manifest |-> manifest]

ReportPlan(p) ==
    <<[do |-> "stage", content |-> p], [do |-> "build"], Writing(Probe, p),
      [do |-> "publish", file |-> "audit-pack.pdf"], Writing("attestation.intoto.json", p),
      Writing("evidence.dsse.json", p)>>

BundlePlan(p, m) ==
    <<[do |-> "stage", content |-> p], [do |-> "build"], Writing(Probe, p),
      [do |-> "publish", file |-> "audit-pack.pdf"], Writing("attestation.intoto.json", p),
      Writing("evidence.dsse.json", p), Zipping("evidence-bundle.zip", FALSE, m)>>

ReportPlans(p) == {ReportPlan(p), BundlePlan(p, Absent), BundlePlan(p, p.manifest)}

ErasurePlan(p) ==
    <<[do |-> "stage", content |-> p], [do |-> "build"], Writing(Erasure, p),
      [do |-> "publish", file |-> "erasure-attestation.pdf"],
      Writing("erasure-attestation.intoto.json", p)>>

\* The pack p is being published under the name owner, and step i is next.
Published(owner, p, i) ==
    /\ i \in 2..4 => staged = p
    /\ i <= 3 => Sound(owner)
    /\ i > 3 => files[owner] = p
    /\ i > 4 => files[OwnSibling(owner, "pdf")] = p
    /\ i > 5 => files[OwnSibling(owner, "in_toto")] = p
    /\ i > 6 => files[OwnSibling(owner, "dsse")] = p

Seeding == \E v \in {"sealed", "plain"}, s \in Substrates :
    /\ latest = 0
    /\ \/ todo = Seeds(v, s)
       \/ todo = Tail(Seeds(v, s)) /\ IF v = "sealed" THEN sealed = s ELSE plain = s

Probing == \E r \in RunRecord : todo = <<Writing("run.json", r)>>

Packing ==
    /\ files[Probe] \in Signed /\ files["run.json"] = [record |-> files[Probe].run]
    /\ \E m \in {Absent, files[Probe].run.substrate} : todo = <<Zipping("run-pack.zip", TRUE, m)>>

Reporting == \E p \in Signed : \E plan \in ReportPlans(p) : \E i \in 1..Len(plan) :
    todo = Rest(plan, i) /\ Published(Probe, p, i)

Erasing == \E p \in Signed : \E i \in 1..5 :
    todo = Rest(ErasurePlan(p), i) /\ Published(Erasure, p, i)

Phase ==
    \/ (Idle \/ Seeding \/ Probing \/ Packing) /\ Sound(Probe) /\ Sound(Erasure)
    \/ Reporting /\ Sound(Erasure)
    \/ Erasing /\ Sound(Probe)

IInv == FilesOK /\ SubstratesOK /\ BundlesOK /\ Phase

-----------------------------------------------------------------------------
(* The plans, and what a step leaves of one. *)

LEMMA RestStep ==
    ASSUME NEW S, NEW plan \in Seq(S), NEW i \in 1..Len(plan)
    PROVE  /\ Rest(plan, 1) = plan
           /\ Rest(plan, i) # <<>>
           /\ Head(Rest(plan, i)) = plan[i]
           /\ Tail(Rest(plan, i)) = Rest(plan, i + 1)
           /\ Rest(plan, Len(plan) + 1) = <<>>
  <1>1. Len(plan) \in Nat /\ i \in Nat
    OBVIOUS
  <1>2. Rest(plan, 1) = plan
    BY SubSeqFull DEF Rest
  <1>3. Rest(plan, Len(plan) + 1) = <<>>
    BY <1>1, SubSeqEmpty DEF Rest
  <1>4. Head(Rest(plan, i)) = plan[i] /\ Tail(Rest(plan, i)) = Rest(plan, i + 1)
    BY <1>1, HeadTailOfSubSeq DEF Rest
  <1>5. Len(Rest(plan, i)) # 0
    <2>1. \A j \in i..Len(plan) : plan[j] \in S
      BY ElementOfSeq
    <2> QED
      BY <1>1, <2>1, SubSeqProperties DEF Rest
  <1>6. Len(<<>>) = 0
    OBVIOUS
  <1> QED
    BY <1>2, <1>3, <1>4, <1>5, <1>6

LEMMA TupleIsSequence ==
    ASSUME NEW a, NEW b, NEW c, NEW d, NEW e, NEW f, NEW g
    PROVE  /\ \E S : <<a, b, c, d, e, f>> \in Seq(S)
           /\ \E S : <<a, b, c, d, e, f, g>> \in Seq(S)
  <1>1. <<a, b, c, d, e, f>> \in Seq({a, b, c, d, e, f, g})
    OBVIOUS
  <1>2. <<a, b, c, d, e, f, g>> \in Seq({a, b, c, d, e, f, g})
    OBVIOUS
  <1> QED
    BY <1>1, <1>2

LEMMA ReportPlanSteps ==
    ASSUME NEW p, NEW plan \in ReportPlans(p)
    PROVE  /\ Len(plan) \in {6, 7}
           /\ plan[1] = [do |-> "stage", content |-> p]
           /\ plan[2] = [do |-> "build"]
           /\ plan[3] = Writing(Probe, p)
           /\ plan[4] = [do |-> "publish", file |-> "audit-pack.pdf"]
           /\ plan[5] = Writing("attestation.intoto.json", p)
           /\ plan[6] = Writing("evidence.dsse.json", p)
           /\ Len(plan) = 7 => \E m \in {Absent, p.manifest} :
                                  plan[7] = Zipping("evidence-bundle.zip", FALSE, m)
  <1>1. CASE plan = ReportPlan(p)
    BY <1>1 DEF ReportPlan
  <1>2. CASE \E m \in {Absent, p.manifest} : plan = BundlePlan(p, m)
    <2>1. PICK m \in {Absent, p.manifest} : plan = BundlePlan(p, m)
      BY <1>2
    <2> QED
      BY <2>1 DEF BundlePlan
  <1> QED
    BY <1>1, <1>2 DEF ReportPlans

LEMMA ReportPlanIsSequence ==
    ASSUME NEW p, NEW plan \in ReportPlans(p)
    PROVE  \E S : plan \in Seq(S)
  <1>1. CASE plan = ReportPlan(p)
    BY <1>1, TupleIsSequence DEF ReportPlan
  <1>2. CASE \E m \in {Absent, p.manifest} : plan = BundlePlan(p, m)
    <2>1. PICK m \in {Absent, p.manifest} : plan = BundlePlan(p, m)
      BY <1>2
    <2> QED
      BY <2>1, TupleIsSequence DEF BundlePlan
  <1> QED
    BY <1>1, <1>2 DEF ReportPlans

LEMMA ErasurePlanSteps ==
    ASSUME NEW p, NEW plan, plan = ErasurePlan(p)
    PROVE  /\ \E S : plan \in Seq(S)
           /\ Len(plan) = 5
           /\ plan[1] = [do |-> "stage", content |-> p]
           /\ plan[2] = [do |-> "build"]
           /\ plan[3] = Writing(Erasure, p)
           /\ plan[4] = [do |-> "publish", file |-> "erasure-attestation.pdf"]
           /\ plan[5] = Writing("erasure-attestation.intoto.json", p)
  <1>1. plan \in Seq({plan[i] : i \in 1..5})
    BY DEF ErasurePlan
  <1> QED
    BY <1>1 DEF ErasurePlan

LEMMA ReportRest ==
    ASSUME NEW p, NEW plan \in ReportPlans(p), NEW i \in 1..Len(plan)
    PROVE  /\ Rest(plan, 1) = plan /\ Rest(plan, i) # <<>> /\ Head(Rest(plan, i)) = plan[i]
           /\ Tail(Rest(plan, i)) = Rest(plan, i + 1)
           /\ Rest(plan, Len(plan) + 1) = <<>>
  <1>1. PICK S : plan \in Seq(S)
    BY ReportPlanIsSequence
  <1> QED
    BY <1>1, RestStep

LEMMA ErasureRest ==
    ASSUME NEW p, NEW i \in 1..5
    PROVE  /\ Rest(ErasurePlan(p), 1) = ErasurePlan(p) /\ Rest(ErasurePlan(p), i) # <<>>
           /\ Head(Rest(ErasurePlan(p), i)) = ErasurePlan(p)[i]
           /\ Tail(Rest(ErasurePlan(p), i)) = Rest(ErasurePlan(p), i + 1)
           /\ Rest(ErasurePlan(p), 6) = <<>>
  <1>1. PICK S : ErasurePlan(p) \in Seq(S)
    BY ErasurePlanSteps
  <1>2. Len(ErasurePlan(p)) = 5
    BY ErasurePlanSteps
  <1>3. i \in 1..Len(ErasurePlan(p)) /\ Len(ErasurePlan(p)) + 1 = 6
    BY <1>2
  <1>4. Rest(ErasurePlan(p), 6) = <<>>
    BY <1>1, <1>3, RestStep
  <1> QED
    BY <1>1, <1>3, <1>4, RestStep

\* Joining a plan from its parts.
LEMMA JoinOne ==
    ASSUME NEW S, NEW s \in Seq(S), NEW x \in S, NEW t \in Seq(S), Len(t) = Len(s) + 1,
           \A i \in 1..Len(s) : t[i] = s[i], t[Len(s) + 1] = x
    PROVE  s \o <<x>> = t
  <1>1. <<x>> \in Seq(S) /\ Len(<<x>>) = 1 /\ <<x>>[1] = x /\ Len(s) \in Nat
    OBVIOUS
  <1>2. /\ s \o <<x>> \in Seq(S) /\ Len(s \o <<x>>) = Len(s) + 1
        /\ \A i \in 1..(Len(s) + 1) :
              (s \o <<x>>)[i] = IF i <= Len(s) THEN s[i] ELSE <<x>>[i - Len(s)]
    BY <1>1, ConcatProperties
  <1>3. \A i \in 1..(Len(s) + 1) : (s \o <<x>>)[i] = t[i]
    BY <1>1, <1>2
  <1> QED
    BY <1>2, <1>3, SeqEqual

LEMMA JoinFive ==
    ASSUME NEW S, NEW a \in S, NEW b \in S, NEW c \in S, NEW d \in S, NEW e \in S
    PROVE  /\ <<a, b>> \o <<c>> = <<a, b, c>>
           /\ <<a, b, c>> \o <<d>> = <<a, b, c, d>>
           /\ <<a, b, c, d>> \o <<e>> = <<a, b, c, d, e>>
  <1>1. /\ <<a, b>> \in Seq(S)
        /\ <<a, b, c>> \in Seq(S)
        /\ <<a, b, c, d>> \in Seq(S)
        /\ <<a, b, c, d, e>> \in Seq(S)
    OBVIOUS
  <1>2. <<a, b>> \o <<c>> = <<a, b, c>>
    <2>1. Len(<<a, b, c>>) = Len(<<a, b>>) + 1 /\ <<a, b, c>>[Len(<<a, b>>) + 1] = c
      OBVIOUS
    <2>2. \A i \in 1..Len(<<a, b>>) : <<a, b, c>>[i] = <<a, b>>[i]
      OBVIOUS
    <2> QED
      BY <2>1, <2>2, <1>1, JoinOne
  <1>3. <<a, b, c>> \o <<d>> = <<a, b, c, d>>
    <2>1. Len(<<a, b, c, d>>) = Len(<<a, b, c>>) + 1 /\ <<a, b, c, d>>[Len(<<a, b, c>>) + 1] = d
      OBVIOUS
    <2>2. \A i \in 1..Len(<<a, b, c>>) : <<a, b, c, d>>[i] = <<a, b, c>>[i]
      OBVIOUS
    <2> QED
      BY <2>1, <2>2, <1>1, JoinOne
  <1>4. <<a, b, c, d>> \o <<e>> = <<a, b, c, d, e>>
    <2>1. Len(<<a, b, c, d, e>>) = Len(<<a, b, c, d>>) + 1 /\ <<a, b, c, d, e>>[Len(<<a, b, c, d>>) + 1] = e
      OBVIOUS
    <2>2. \A i \in 1..Len(<<a, b, c, d>>) : <<a, b, c, d, e>>[i] = <<a, b, c, d>>[i]
      OBVIOUS
    <2> QED
      BY <2>1, <2>2, <1>1, JoinOne
  <1> QED
    BY <1>2, <1>3, <1>4

LEMMA JoinSeven ==
    ASSUME NEW S, NEW a \in S, NEW b \in S, NEW c \in S, NEW d \in S, NEW e \in S, NEW f \in S, NEW g \in S
    PROVE  /\ <<a, b, c, d, e>> \o <<f>> = <<a, b, c, d, e, f>>
           /\ <<a, b, c, d, e, f>> \o <<g>> = <<a, b, c, d, e, f, g>>
           /\ <<a, b, c, d, e, f>> \o <<>> = <<a, b, c, d, e, f>>
  <1>1. /\ <<a, b, c, d, e>> \in Seq(S)
        /\ <<a, b, c, d, e, f>> \in Seq(S)
        /\ <<a, b, c, d, e, f, g>> \in Seq(S)
    OBVIOUS
  <1>2. <<a, b, c, d, e>> \o <<f>> = <<a, b, c, d, e, f>>
    <2>1. Len(<<a, b, c, d, e, f>>) = Len(<<a, b, c, d, e>>) + 1 /\ <<a, b, c, d, e, f>>[Len(<<a, b, c, d, e>>) + 1] = f
      OBVIOUS
    <2>2. \A i \in 1..Len(<<a, b, c, d, e>>) : <<a, b, c, d, e, f>>[i] = <<a, b, c, d, e>>[i]
      OBVIOUS
    <2> QED
      BY <2>1, <2>2, <1>1, JoinOne
  <1>3. <<a, b, c, d, e, f>> \o <<g>> = <<a, b, c, d, e, f, g>>
    <2>1. Len(<<a, b, c, d, e, f, g>>) = Len(<<a, b, c, d, e, f>>) + 1 /\ <<a, b, c, d, e, f, g>>[Len(<<a, b, c, d, e, f>>) + 1] = g
      OBVIOUS
    <2>2. \A i \in 1..Len(<<a, b, c, d, e, f>>) : <<a, b, c, d, e, f, g>>[i] = <<a, b, c, d, e, f>>[i]
      OBVIOUS
    <2> QED
      BY <2>1, <2>2, <1>1, JoinOne
  <1>4. <<a, b, c, d, e, f>> \o <<>> = <<a, b, c, d, e, f>>
    BY <1>1, ConcatEmptySeq
  <1> QED
    BY <1>2, <1>3, <1>4

-----------------------------------------------------------------------------
(* Between commands, and what starts one. *)

\* Nothing is under way when nothing is left to do.
LEMMA IdleIsSound ==
    ASSUME Phase, Idle
    PROVE  Sound(Probe) /\ Sound(Erasure)
  <1>1. ASSUME Reporting PROVE FALSE
    <2>1. PICK p \in Signed :
              \E plan \in ReportPlans(p) : \E i \in 1..Len(plan) : todo = Rest(plan, i)
      BY <1>1 DEF Reporting
    <2> QED
      BY <2>1, ReportRest DEF Idle
  <1>2. ASSUME Erasing PROVE FALSE
    <2>1. PICK p \in Signed, i \in 1..5 : todo = Rest(ErasurePlan(p), i)
      BY <1>2 DEF Erasing
    <2> QED
      BY <2>1, ErasureRest DEF Idle
  <1> QED
    BY <1>1, <1>2 DEF Phase

LEMMA Init_IInv == Init => IInv
  <1> SUFFICES ASSUME Init PROVE IInv
    OBVIOUS
  <1>1. files = [f \in FileNames |-> Absent] /\ \A f \in FileNames : files[f] = Absent
    BY DEF Init
  <1>2. \A f \in FileNames : MayHold(f, Absent)
    BY DEF MayHold, Papers
  <1>3. FilesOK
    BY <1>1, <1>2 DEF FilesOK
  <1>4. \A o \in Owners : \A s \in {"pdf", "in_toto", "dsse"} : OwnSibling(o, s) \in FileNames
    BY OwnSiblings, Names DEF Owners, FileNames
  <1>5. Kept(Probe) /\ Kept(Erasure)
    BY <1>1, <1>4 DEF Kept, Owners, FileNames
  <1>6. bundles = [b \in BundleNames |-> bundles[b]] /\ \A b \in BundleNames : bundles[b] = Absent
    BY DEF Init
  <1>7. SubstratesOK /\ BundlesOK
    BY <1>6 DEF Init, SubstratesOK, BundlesOK
  <1> QED
    BY <1>3, <1>5, <1>7 DEF Init, IInv, Phase, Sound, Idle

\* What the folder keeps when only the plan and a counter change.
LEMMA Started ==
    ASSUME IInv, Idle, runs' \in Nat,
           UNCHANGED <<world, sealed, plain, files, staged, bundles, seeded, cut, latest>>,
           Probing' \/ Packing' \/ Reporting' \/ Erasing'
    PROVE  IInv'
  <1>1. FilesOK' /\ SubstratesOK' /\ BundlesOK'
    BY DEF IInv, FilesOK, SubstratesOK, BundlesOK, Untouched
  <1>2. Sound(Probe) /\ Sound(Erasure)
    BY IdleIsSound DEF IInv
  <1>3. Sound(Probe)' /\ Sound(Erasure)'
    BY <1>2 DEF Sound, Kept, Untouched
  <1> QED
    BY <1>1, <1>3 DEF IInv, Phase

LEMMA SeedStep ==
    ASSUME IInv, NEW keyed \in BOOLEAN, Seed(keyed)
    PROVE  IInv'
  <1>1. FilesOK' /\ BundlesOK'
    BY DEF IInv, FilesOK, BundlesOK, Untouched, Seed
  <1>2. SubstratesOK'
    BY DEF IInv, SubstratesOK, Seed
  <1>3. Sound(Probe)' /\ Sound(Erasure)'
    BY IdleIsSound DEF IInv, Sound, Kept, Untouched, Seed
  <1>4. seeded + 1 \in Substrates
    BY BoundsAssumed DEF IInv, SubstratesOK, Seed, Substrates
  <1>5. Seeding'
    BY <1>4 DEF Seed, Seeding
  <1> QED
    BY <1>1, <1>2, <1>3, <1>5 DEF IInv, Phase

\* What a command reads is a substrate or nothing it can use.
LEMMA ProbeStep ==
    ASSUME IInv, NEW keyed \in BOOLEAN, ProbeCommand(keyed)
    PROVE  IInv'
  <1>1. runs \in Nat /\ runs + 1 \in 1..MaxRuns /\ Loaded(keyed) \in Substrates
    BY BoundsAssumed DEF IInv, SubstratesOK, ProbeCommand
  <1>2. [record |-> [id |-> runs + 1, substrate |-> Loaded(keyed)]] \in RunRecord
    BY <1>1 DEF RunRecord, Run
  <1>3. Probing'
    BY <1>2 DEF ProbeCommand, Starts, Saves, Probing, Writing
  <1> QED
    BY <1>1, <1>3, Started DEF ProbeCommand, Starts

LEMMA ReportStep ==
    ASSUME IInv, NEW keyed \in BOOLEAN, NEW anchored \in BOOLEAN, NEW bundled \in BOOLEAN,
           NEW m \in BOOLEAN, Report(keyed, anchored, bundled, m)
    PROVE  IInv'
  <1>1. Recorded \in Run
    BY DEF Report, RunRecord, Recorded
  <1>2. PICK p \in Signed :
            p = [run |-> Recorded, manifest |-> Loaded(keyed), anchored |-> anchored]
    BY <1>1 DEF Report, Signed, Attested, Run
  <1> DEFINE man == IF m THEN p.manifest ELSE Absent
  <1>3. todo' = Renders(p) \o Saves(Probe, p) \o Publishes("audit-pack.pdf")
                 \o Saves("attestation.intoto.json", p) \o Saves("evidence.dsse.json", p)
                 \o IF bundled THEN Zips("evidence-bundle.zip", FALSE, man) ELSE <<>>
    BY <1>2 DEF Report, Starts
  <1>4. todo' = IF bundled THEN BundlePlan(p, man) ELSE ReportPlan(p)
    <2> DEFINE a == [do |-> "stage", content |-> p]
               b == [do |-> "build"]
               c == Writing(Probe, p)
               d == [do |-> "publish", file |-> "audit-pack.pdf"]
               e == Writing("attestation.intoto.json", p)
               f == Writing("evidence.dsse.json", p)
               g == Zipping("evidence-bundle.zip", FALSE, man)
    <2>1. todo' = <<a, b>> \o <<c>> \o <<d>> \o <<e>> \o <<f>> \o IF bundled THEN <<g>> ELSE <<>>
      BY <1>3 DEF Renders, Saves, Publishes, Zips, Writing, Zipping
    <2>2. /\ BundlePlan(p, man) = <<a, b, c, d, e, f, g>>
          /\ ReportPlan(p) = <<a, b, c, d, e, f>>
      BY DEF BundlePlan, ReportPlan
    <2> HIDE DEF a, b, c, d, e, f, g
    <2>3. /\ <<a, b>> \o <<c>> = <<a, b, c>>
          /\ <<a, b, c>> \o <<d>> = <<a, b, c, d>>
          /\ <<a, b, c, d>> \o <<e>> = <<a, b, c, d, e>>
          /\ <<a, b, c, d, e>> \o <<f>> = <<a, b, c, d, e, f>>
          /\ <<a, b, c, d, e, f>> \o <<g>> = <<a, b, c, d, e, f, g>>
          /\ <<a, b, c, d, e, f>> \o <<>> = <<a, b, c, d, e, f>>
      <3> DEFINE S == {a, b, c, d, e, f, g}
      <3>1. a \in S /\ b \in S /\ c \in S /\ d \in S /\ e \in S /\ f \in S /\ g \in S
        OBVIOUS
      <3> HIDE DEF S
      <3>2. /\ <<a, b>> \o <<c>> = <<a, b, c>>
            /\ <<a, b, c>> \o <<d>> = <<a, b, c, d>>
            /\ <<a, b, c, d>> \o <<e>> = <<a, b, c, d, e>>
        BY <3>1, JoinFive
      <3>3. /\ <<a, b, c, d, e>> \o <<f>> = <<a, b, c, d, e, f>>
            /\ <<a, b, c, d, e, f>> \o <<g>> = <<a, b, c, d, e, f, g>>
            /\ <<a, b, c, d, e, f>> \o <<>> = <<a, b, c, d, e, f>>
        BY <3>1, JoinSeven
      <3> QED
        BY <3>2, <3>3
    <2> QED
      BY <2>1, <2>2, <2>3
  <1>5. PICK plan \in ReportPlans(p) : todo' = plan
    BY <1>4 DEF ReportPlans
  <1>6. todo' = Rest(plan, 1) /\ 1 \in 1..Len(plan)
    <2>1. Len(plan) \in {6, 7}
      BY ReportPlanSteps
    <2>2. 1 \in 1..Len(plan)
      BY <2>1
    <2> QED
      BY <1>5, <2>2, ReportRest
  <1>7. Published(Probe, p, 1)'
    BY IdleIsSound DEF IInv, Report, Starts, Published, Sound, Kept, Untouched
  <1>8. Reporting'
    BY <1>6, <1>7 DEF Reporting
  <1> QED
    BY <1>8, Started DEF Report, Starts, IInv, SubstratesOK

LEMMA PackStep ==
    ASSUME IInv, NEW keyed \in BOOLEAN, NEW m \in BOOLEAN, Pack(keyed, m)
    PROVE  IInv'
  <1>1. files[Probe] \in Signed
    BY MarksAssumed DEF Pack, IInv, FilesOK, MayHold, Owners, FileNames
  <1>2. files["run.json"] = [record |-> files[Probe].run] /\ Recorded = files[Probe].run
    BY DEF Pack, Recorded
  <1>3. PICK man \in {Absent, files[Probe].run.substrate} :
            todo' = <<Zipping("run-pack.zip", TRUE, man)>>
    BY <1>2 DEF Pack, Starts, Zips, Zipping
  <1>4. Packing'
    BY <1>1, <1>2, <1>3 DEF Pack, Starts, Packing
  <1> QED
    BY <1>4, Started DEF Pack, Starts, IInv, SubstratesOK

LEMMA ErasureStep ==
    ASSUME IInv, NEW keyed \in BOOLEAN, NEW anchored \in BOOLEAN, ErasureCommand(keyed, anchored)
    PROVE  IInv'
  <1>1. runs \in Nat /\ runs + 1 \in 1..MaxRuns /\ Loaded(keyed) \in Substrates
    BY BoundsAssumed DEF IInv, SubstratesOK, ErasureCommand
  <1>2. PICK p \in Signed :
            p = [run |-> [id |-> runs + 1, substrate |-> Loaded(keyed)],
                 manifest |-> Loaded(keyed), anchored |-> anchored]
    BY <1>1 DEF Signed, Attested, Run
  <1>3. todo' = Renders(p) \o Saves(Erasure, p) \o Publishes("erasure-attestation.pdf")
                 \o Saves("erasure-attestation.intoto.json", p)
    BY <1>2 DEF ErasureCommand, Starts
  <1>4. todo' = ErasurePlan(p)
    <2> DEFINE a == [do |-> "stage", content |-> p]
               b == [do |-> "build"]
               c == Writing(Erasure, p)
               d == [do |-> "publish", file |-> "erasure-attestation.pdf"]
               e == Writing("erasure-attestation.intoto.json", p)
    <2>1. todo' = <<a, b>> \o <<c>> \o <<d>> \o <<e>>
      BY <1>3 DEF Renders, Saves, Publishes, Writing
    <2>2. ErasurePlan(p) = <<a, b, c, d, e>>
      BY DEF ErasurePlan
    <2> HIDE DEF a, b, c, d, e
    <2>3. /\ <<a, b>> \o <<c>> = <<a, b, c>>
          /\ <<a, b, c>> \o <<d>> = <<a, b, c, d>>
          /\ <<a, b, c, d>> \o <<e>> = <<a, b, c, d, e>>
      <3> DEFINE S == {a, b, c, d, e}
      <3>1. a \in S /\ b \in S /\ c \in S /\ d \in S /\ e \in S
        OBVIOUS
      <3> HIDE DEF S
      <3> QED
        BY <3>1, JoinFive
    <2> QED
      BY <2>1, <2>2, <2>3
  <1>5. todo' = Rest(ErasurePlan(p), 1)
    BY <1>4, ErasureRest
  <1>6. Published(Erasure, p, 1)'
    BY IdleIsSound DEF IInv, ErasureCommand, Starts, Published, Sound, Kept, Untouched
  <1>7. Erasing'
    BY <1>5, <1>6 DEF Erasing
  <1> QED
    BY <1>1, <1>7, Started DEF ErasureCommand, Starts

-----------------------------------------------------------------------------
(* The steps of a command that no failure cuts short. *)

\* A file is written, by whomever: what it holds now is what it may hold.
LEMMA FileWritten ==
    ASSUME FilesOK, NEW f \in FileNames, NEW c, MayHold(f, c),
           files' = [files EXCEPT ![f] = c]
    PROVE  FilesOK' /\ files'[f] = c /\ \A g \in FileNames \ {f} : files'[g] = files[g]
  <1>1. files = [g \in FileNames |-> files[g]] /\ \A g \in FileNames : MayHold(g, files[g])
    BY DEF FilesOK
  <1>2. files' = [g \in FileNames |-> IF g = f THEN c ELSE files[g]]
    BY <1>1
  <1>3. files'[f] = c /\ \A g \in FileNames \ {f} : files'[g] = files[g]
    BY <1>2
  <1>4. files' = [g \in FileNames |-> files'[g]]
    BY <1>2
  <1>5. \A g \in FileNames : MayHold(g, files'[g])
    BY <1>1, <1>3
  <1> QED
    BY <1>3, <1>4, <1>5 DEF FilesOK, MayHold

\* The names that matter are different names, and none is a copy's.
LEMMA AllDifferent ==
    /\ Owners = {"evidence.json", "erasure-evidence.json"}
    /\ Owners \subseteq FileNames /\ SiblingNames \subseteq FileNames
    /\ CopyNames \subseteq FileNames
    /\ \A f \in Owners \cup SiblingNames : f \notin CopyNames
    /\ \A o \in Owners : o \notin SiblingNames
    /\ \A o \in Owners : \A s \in {"pdf", "in_toto", "dsse"} :
          OwnSibling(o, s) \in SiblingNames \ {"run.json"}
  <1>1. Owners = {"evidence.json", "erasure-evidence.json"}
    BY DEF Owners, Probe, Erasure
  <1>2. \A f \in Owners \cup SiblingNames : f \notin CopyNames
    BY CopyNamesAssumed
  <1>3. \A o \in Owners : o \notin SiblingNames
    BY <1>1, Names
  <1>4. \A o \in Owners : \A s \in {"pdf", "in_toto", "dsse"} :
          OwnSibling(o, s) \in SiblingNames \ {"run.json"}
    BY OwnSiblings, Names DEF Owners
  <1> QED
    BY <1>1, <1>2, <1>3, <1>4 DEF FileNames

\* Another pack's documents are not this one's.
LEMMA KeptBeside ==
    ASSUME NEW o \in Owners, Kept(o), NEW f,
           f \notin {o} \cup {OwnSibling(o, s) : s \in {"pdf", "in_toto", "dsse"}},
           \A g \in FileNames \ {f} : files'[g] = files[g]
    PROVE  Kept(o)'
  <1>1. files'[o] = files[o]
    BY AllDifferent
  <1>2. \A s \in {"pdf", "in_toto", "dsse"} : files'[OwnSibling(o, s)] = files[OwnSibling(o, s)]
    BY AllDifferent
  <1> QED
    BY <1>1, <1>2 DEF Kept

\* The head of the plan says which step is taken, and every step takes it off.
LEMMA StepTaken ==
    ASSUME Steps
    PROVE  /\ todo' = Tail(todo) /\ UNCHANGED <<world, seeded, runs, cut>>
           /\ ~Idle
           /\ Head(todo).do \in {"seed", "unlink", "stage", "build", "write", "publish", "bundle"}
           /\ Head(todo).do = "seed" => WriteSubstrate
           /\ Head(todo).do = "unlink" => UnlinkOther
           /\ Head(todo).do = "stage" => Stage
           /\ Head(todo).do = "build" => Build
           /\ Head(todo).do = "write" => Write
           /\ Head(todo).do = "publish" => Publish
           /\ Head(todo).do = "bundle" => WriteBundle
  <1> USE DEF Doing, Done
  <1>1. CASE WriteSubstrate
    BY <1>1 DEF WriteSubstrate
  <1>2. CASE UnlinkOther
    BY <1>2 DEF UnlinkOther
  <1>3. CASE Stage
    BY <1>3 DEF Stage
  <1>4. CASE Build
    BY <1>4 DEF Build
  <1>5. CASE Write
    BY <1>5 DEF Write
  <1>6. CASE Publish
    BY <1>6 DEF Publish
  <1>7. CASE WriteBundle
    BY <1>7 DEF WriteBundle
  <1> QED
    BY <1>1, <1>2, <1>3, <1>4, <1>5, <1>6, <1>7 DEF Steps

\* One step of publishing a pack: its staging, its anchoring, or one of its files.
LEMMA PublishingStep ==
    ASSUME IInv, Steps, NEW o \in Owners, NEW p \in Signed, NEW i \in 1..6, Published(o, p, i),
           i = 1 => Head(todo) = [do |-> "stage", content |-> p],
           i = 2 => Head(todo) = [do |-> "build"],
           i = 3 => Head(todo) = Writing(o, p),
           i = 4 => Head(todo) = [do |-> "publish", file |-> OwnSibling(o, "pdf")],
           i = 5 => Head(todo) = Writing(OwnSibling(o, "in_toto"), p),
           i = 6 => o = Probe /\ Head(todo) = Writing(OwnSibling(o, "dsse"), p)
    PROVE  /\ Published(o, p, i + 1)' /\ FilesOK' /\ SubstratesOK' /\ BundlesOK'
           /\ \A q \in Owners \ {o} : Sound(q) => Sound(q)'
  <1>1. UNCHANGED <<world, seeded, runs, cut>>
    BY StepTaken
  <1>2. Untouched' = Untouched
    BY <1>1 DEF Untouched
  <1>3. CASE i \in {1, 2}
    <2>1. /\ UNCHANGED <<sealed, plain, files, bundles, latest>>
          /\ staged' = p
      BY <1>3, StepTaken DEF Stage, Build, Published
    <2> QED
      BY <1>1, <1>2, <1>3, <2>1
         DEF IInv, Published, FilesOK, SubstratesOK, BundlesOK, Sound, Kept
  <1>4. CASE i \in 3..6
    <2> DEFINE file == CASE i = 3 -> o
                         [] i = 4 -> OwnSibling(o, "pdf")
                         [] i = 5 -> OwnSibling(o, "in_toto")
                         [] i = 6 -> OwnSibling(o, "dsse")
    <2>1. /\ UNCHANGED <<sealed, plain, bundles, latest>>
          /\ files' = [files EXCEPT ![file] = p]
          /\ i = 3 => staged' = p
      <3>1. CASE i \in {3, 5, 6}
        BY <1>4, <3>1, StepTaken DEF Write, Writing, Published
      <3>2. CASE i = 4
        BY <1>4, <3>2, StepTaken DEF Publish, Published
      <3> QED
        BY <1>4, <3>1, <3>2
    <2>2. file \in FileNames /\ MayHold(file, p)
      <3>1. o \in FileNames /\ MayHold(o, p)
        BY AllDifferent, Names DEF MayHold
      <3>2. ASSUME NEW s \in {"pdf", "in_toto", "dsse"}, s = "dsse" => o = Probe
            PROVE  OwnSibling(o, s) \in FileNames /\ MayHold(OwnSibling(o, s), p)
        <4>1. OwnSibling(o, s) \in SiblingNames \ {"run.json"}
          BY AllDifferent
        <4>2. OwnSibling(o, s) # "erasure-evidence.dsse.json"
          BY <3>2, OwnSiblings DEF Owners
        <4> QED
          BY <4>1, <4>2, AllDifferent DEF MayHold, Papers
      <3> QED
        BY <1>4, <3>1, <3>2
    <2>3. file \in {o} \cup {OwnSibling(o, s) : s \in {"pdf", "in_toto", "dsse"}}
      BY <1>4
    <2>4. /\ i > 3 => file # o
          /\ i > 4 => file # OwnSibling(o, "pdf")
          /\ i > 5 => file # OwnSibling(o, "in_toto")
      <3>1. /\ \A s \in {"pdf", "in_toto", "dsse"} : OwnSibling(o, s) # o
            /\ OwnSibling(o, "pdf") # OwnSibling(o, "in_toto")
            /\ OwnSibling(o, "pdf") # OwnSibling(o, "dsse")
            /\ OwnSibling(o, "in_toto") # OwnSibling(o, "dsse")
        BY OwnSiblings DEF Owners, Probe, Erasure
      <3> QED
        BY <1>4, <3>1
    <2>5. /\ FilesOK /\ (i <= 3 => staged' = p)
          /\ i = 3 => file = o
          /\ i = 4 => file = OwnSibling(o, "pdf")
          /\ i = 5 => file = OwnSibling(o, "in_toto")
          /\ i = 6 => file = OwnSibling(o, "dsse")
      BY <1>4, <2>1 DEF IInv
    <2> HIDE DEF file
    <2>6. FilesOK' /\ files'[file] = p /\ \A g \in FileNames \ {file} : files'[g] = files[g]
      BY <2>1, <2>2, <2>5, FileWritten
    <2>7. SubstratesOK' /\ BundlesOK'
      BY <1>1, <1>2, <2>1 DEF IInv, SubstratesOK, BundlesOK
    <2>8. Published(o, p, i + 1)'
      <3>1. o \in FileNames /\ OwnSibling(o, "pdf") \in FileNames
            /\ OwnSibling(o, "in_toto") \in FileNames
        BY AllDifferent
      <3> QED
        BY <1>4, <2>4, <2>5, <2>6, <3>1 DEF Published
    <2>9. ASSUME NEW q \in Owners \ {o}, Sound(q)
          PROVE  Sound(q)'
      <3>1. file \notin {q} \cup {OwnSibling(q, s) : s \in {"pdf", "in_toto", "dsse"}}
        BY <2>3, AllDifferent, OwnSiblings DEF Owners, Probe, Erasure
      <3> QED
        BY <1>2, <2>6, <2>9, <3>1, KeptBeside DEF Sound
    <2> QED
      BY <2>6, <2>7, <2>8, <2>9
  <1> QED
    BY <1>3, <1>4

\* A bundle is written and every other one left alone.
LEMMA BundleWritten ==
    ASSUME IInv, WriteBundle, NEW step, Head(todo) = step, step.name \in BundleNames,
           files[Probe] \in Signed,
           step.manifest \in {Absent, files[Probe].run.substrate},
           Untouched => /\ files["audit-pack.pdf"] = files[Probe]
                        /\ files["attestation.intoto.json"] = files[Probe]
                        /\ files["evidence.dsse.json"] \in {Absent, files[Probe]},
           step.with_run => files["run.json"] = [record |-> files[Probe].run]
    PROVE  FilesOK' /\ SubstratesOK' /\ BundlesOK' /\ UNCHANGED <<files, staged>>
           /\ Untouched' = Untouched
  <1>1. UNCHANGED <<world, seeded, runs, cut, sealed, plain, files, staged, latest>>
    BY DEF WriteBundle, Done
  <1>2. FilesOK' /\ SubstratesOK' /\ Untouched' = Untouched
    BY <1>1 DEF IInv, FilesOK, SubstratesOK, Untouched
  <1> DEFINE b == [evidence |-> files[Probe], pdf |-> files["audit-pack.pdf"],
                   in_toto |-> files["attestation.intoto.json"],
                   dsse |-> files["evidence.dsse.json"],
                   run |-> IF step.with_run THEN files["run.json"] ELSE Absent,
                   manifest |-> step.manifest]
  <1>3. bundles' = [bundles EXCEPT ![step.name] = b]
    BY DEF WriteBundle, Siblings
  <1>4. b.manifest \in {Absent, b.evidence.run.substrate}
    OBVIOUS
  <1>5. Untouched => BundlePasses(b)
    BY DEF BundlePasses, Intact, Binds, Signed, Slots
  <1> HIDE DEF b
  <1>6. bundles = [n \in BundleNames |-> bundles[n]]
    BY DEF IInv, BundlesOK
  <1>7. bundles' = [n \in BundleNames |-> IF n = step.name THEN b ELSE bundles[n]]
    BY <1>3, <1>6
  <1>8. BundlesOK'
    BY <1>2, <1>4, <1>5, <1>7 DEF IInv, BundlesOK
  <1> QED
    BY <1>1, <1>2, <1>8

LEMMA ReportingStep ==
    ASSUME IInv, Reporting, Sound(Erasure), Steps
    PROVE  IInv'
  <1>1. PICK p \in Signed : \E plan \in ReportPlans(p) : \E i \in 1..Len(plan) :
            todo = Rest(plan, i) /\ Published(Probe, p, i)
    BY DEF Reporting
  <1>2. PICK plan \in ReportPlans(p) : \E i \in 1..Len(plan) :
            todo = Rest(plan, i) /\ Published(Probe, p, i)
    BY <1>1
  <1>3. PICK i \in 1..Len(plan) : todo = Rest(plan, i) /\ Published(Probe, p, i)
    BY <1>2
  <1>4. Len(plan) \in {6, 7}
    BY ReportPlanSteps
  <1>9. /\ i \in 1..6 \/ i = 7
        /\ i = 7 => Len(plan) = 7
    <2>1. PICK n \in {6, 7} : n = Len(plan)
      BY <1>4
    <2>2. i \in 1..n
      BY <2>1
    <2> QED
      BY <2>1, <2>2
  <1>5. Head(todo) = plan[i] /\ todo' = Rest(plan, i + 1)
    BY <1>3, ReportRest, StepTaken
  <1>6. i + 1 \notin 1..Len(plan) => i = Len(plan) /\ todo' = <<>>
    <2>1. Rest(plan, Len(plan) + 1) = <<>>
      BY <1>3, ReportRest
    <2> QED
      BY <1>4, <1>5, <2>1
  <1>7. CASE i \in 1..6
    <2>1. i \in 1..6
      BY <1>7
    <2>2. /\ i = 1 => plan[i] = [do |-> "stage", content |-> p]
          /\ i = 2 => plan[i] = [do |-> "build"]
          /\ i = 3 => plan[i] = Writing(Probe, p)
          /\ i = 4 => plan[i] = [do |-> "publish", file |-> "audit-pack.pdf"]
          /\ i = 5 => plan[i] = Writing("attestation.intoto.json", p)
          /\ i = 6 => plan[i] = Writing("evidence.dsse.json", p)
      <3>1. /\ plan[1] = [do |-> "stage", content |-> p]
            /\ plan[2] = [do |-> "build"]
            /\ plan[3] = Writing(Probe, p)
            /\ plan[4] = [do |-> "publish", file |-> "audit-pack.pdf"]
            /\ plan[5] = Writing("attestation.intoto.json", p)
            /\ plan[6] = Writing("evidence.dsse.json", p)
        BY Zenon, ReportPlanSteps
      <3> QED
        BY <3>1
    <2>3. /\ Published(Probe, p, i + 1)' /\ FilesOK' /\ SubstratesOK' /\ BundlesOK'
          /\ Sound(Erasure)'
      <3>1. Probe \in Owners /\ Erasure \in Owners \ {Probe}
        BY DEF Owners, Probe, Erasure
      <3> QED
        BY <1>3, <1>5, <2>1, <2>2, <3>1, OwnSiblings, PublishingStep
    <2>4. CASE i + 1 \in 1..Len(plan)
      BY <1>5, <2>3, <2>4 DEF IInv, Phase, Reporting
    <2>5. CASE i + 1 \notin 1..Len(plan)
      <3>1. i = 6 /\ Idle'
        BY <1>4, <1>6, <1>7, <2>5 DEF Idle
      <3>2. Kept(Probe)'
        BY <2>3, <3>1 DEF Published, Kept
      <3> QED
        BY <2>3, <3>1, <3>2 DEF IInv, Phase, Sound
    <2> QED
      BY <2>4, <2>5
  <1>8. CASE i = 7
    <2>1. PICK m \in {Absent, p.manifest} :
              Head(todo) = Zipping("evidence-bundle.zip", FALSE, m)
      <3>1. Len(plan) = 7
        BY <1>8, <1>9
      <3>2. \E m \in {Absent, p.manifest} :
                plan[7] = Zipping("evidence-bundle.zip", FALSE, m)
        BY Zenon, <3>1, ReportPlanSteps
      <3> QED
        BY <1>5, <1>8, <3>2
    <2>2. /\ files[Probe] = p /\ files["audit-pack.pdf"] = p
          /\ files["attestation.intoto.json"] = p /\ files["evidence.dsse.json"] = p
      <3>1. Published(Probe, p, 7)
        BY <1>3, <1>8
      <3>2. 7 > 6 /\ 7 > 5 /\ 7 > 4 /\ 7 > 3
        OBVIOUS
      <3> QED
        BY <3>1, <3>2, OwnSiblings, Zenon DEF Published
    <2>3. WriteBundle
      BY <2>1, StepTaken DEF Zipping
    <2>4. /\ FilesOK' /\ SubstratesOK' /\ BundlesOK' /\ UNCHANGED <<files, staged>>
          /\ Untouched' = Untouched
      <3>1. m \in {Absent, p.run.substrate}
        BY DEF Signed
      <3> QED
        BY <2>1, <2>2, <2>3, <3>1, BundleWritten DEF Zipping, BundleNames
    <2>5. Kept(Probe)'
      BY <2>2, <2>4, OwnSiblings DEF Kept
    <2>6. Idle'
      <3>1. i + 1 \notin 1..Len(plan)
        <4>1. i + 1 \notin 1..7
          BY <1>8
        <4> QED
          BY <1>8, <1>9, <4>1
      <3> QED
        BY <1>6, <3>1 DEF Idle
    <2>7. Sound(Erasure)'
      BY <2>4 DEF Sound, Kept
    <2> QED
      BY <2>4, <2>5, <2>6, <2>7 DEF IInv, Phase, Sound
  <1> QED
    BY <1>7, <1>8, <1>9

LEMMA ErasingStep ==
    ASSUME IInv, Erasing, Sound(Probe), Steps
    PROVE  IInv'
  <1>1. PICK p \in Signed : \E i \in 1..5 :
            todo = Rest(ErasurePlan(p), i) /\ Published(Erasure, p, i)
    BY DEF Erasing
  <1>2. PICK i \in 1..5 : todo = Rest(ErasurePlan(p), i) /\ Published(Erasure, p, i)
    BY <1>1
  <1>3. /\ Head(todo) = ErasurePlan(p)[i] /\ todo' = Rest(ErasurePlan(p), i + 1)
        /\ Rest(ErasurePlan(p), 6) = <<>>
    BY <1>2, ErasureRest, StepTaken
  <1>4. /\ i = 1 => ErasurePlan(p)[i] = [do |-> "stage", content |-> p]
        /\ i = 2 => ErasurePlan(p)[i] = [do |-> "build"]
        /\ i = 3 => ErasurePlan(p)[i] = Writing(Erasure, p)
        /\ i = 4 => ErasurePlan(p)[i] = [do |-> "publish", file |-> "erasure-attestation.pdf"]
        /\ i = 5 => ErasurePlan(p)[i] = Writing("erasure-attestation.intoto.json", p)
    BY ErasurePlanSteps
  <1>5. /\ Published(Erasure, p, i + 1)' /\ FilesOK' /\ SubstratesOK' /\ BundlesOK'
        /\ Sound(Probe)'
    <2>1. Erasure \in Owners /\ Probe \in Owners \ {Erasure} /\ i \in 1..6 /\ i # 6
      BY DEF Owners, Probe, Erasure
    <2> QED
      BY <1>2, <1>3, <1>4, <2>1, OwnSiblings, PublishingStep
  <1>6. CASE i + 1 \in 1..5
    BY <1>3, <1>5, <1>6 DEF IInv, Phase, Erasing
  <1>7. CASE i = 5
    <2>1. Idle' /\ i + 1 = 6
      BY <1>3, <1>7 DEF Idle
    <2>2. files'["erasure-evidence.dsse.json"] = Absent
      BY <1>5, AllDifferent, Names DEF FilesOK, MayHold
    <2>3. Kept(Erasure)'
      <3>1. Published(Erasure, p, 6)'
        BY <1>5, <2>1
      <3>2. 6 > 5 /\ 6 > 4 /\ 6 > 3
        OBVIOUS
      <3>3. /\ files'[Erasure] = p /\ files'["erasure-attestation.pdf"] = p
            /\ files'["erasure-attestation.intoto.json"] = p
        BY <3>1, <3>2, OwnSiblings, Zenon DEF Published
      <3> QED
        BY <2>2, <3>3, OwnSiblings DEF Kept
    <2> QED
      BY <1>5, <2>1, <2>3 DEF IInv, Phase, Sound
  <1> QED
    BY <1>6, <1>7

LEMMA SeedingStep ==
    ASSUME IInv, Seeding, Sound(Probe), Sound(Erasure), Steps
    PROVE  IInv'
  <1>1. PICK v \in {"sealed", "plain"}, s \in Substrates :
            /\ latest = 0
            /\ \/ todo = Seeds(v, s)
               \/ todo = Tail(Seeds(v, s)) /\ IF v = "sealed" THEN sealed = s ELSE plain = s
    BY DEF Seeding
  <1>2. /\ Head(Seeds(v, s)) = [do |-> "seed", variant |-> v, substrate |-> s]
        /\ Tail(Seeds(v, s)) = <<[do |-> "unlink", variant |-> v, substrate |-> s]>>
        /\ Head(Tail(Seeds(v, s))) = [do |-> "unlink", variant |-> v, substrate |-> s]
        /\ Tail(Tail(Seeds(v, s))) = <<>>
    BY DEF Seeds
  <1>3. UNCHANGED <<world, seeded, runs, cut>> /\ todo' = Tail(todo)
    BY StepTaken
  <1>4. CASE todo = Seeds(v, s)
    <2>1. WriteSubstrate
      BY <1>2, <1>4, StepTaken
    <2>2. /\ UNCHANGED <<files, staged, bundles, latest>>
          /\ IF v = "sealed" THEN sealed' = s /\ UNCHANGED plain
             ELSE plain' = s /\ UNCHANGED sealed
      BY <1>2, <1>4, <2>1 DEF WriteSubstrate
    <2>3. FilesOK' /\ BundlesOK' /\ Sound(Probe)' /\ Sound(Erasure)'
      BY <1>3, <2>2 DEF IInv, FilesOK, BundlesOK, Sound, Kept, Untouched
    <2>4. SubstratesOK'
      BY <1>1, <1>3, <2>2 DEF IInv, SubstratesOK
    <2>5. Seeding'
      BY <1>1, <1>3, <1>4, <2>2 DEF Seeding
    <2> QED
      BY <2>3, <2>4, <2>5 DEF IInv, Phase
  <1>5. CASE todo = Tail(Seeds(v, s)) /\ IF v = "sealed" THEN sealed = s ELSE plain = s
    <2>1. UnlinkOther
      BY <1>2, <1>5, StepTaken
    <2>2. /\ UNCHANGED <<files, staged, bundles>>
          /\ latest' = s
          /\ sealed' = IF v = "plain" THEN Absent ELSE sealed
          /\ plain' = IF v = "sealed" THEN Absent ELSE plain
      BY <1>2, <1>5, <2>1 DEF UnlinkOther
    <2>3. FilesOK' /\ BundlesOK' /\ Sound(Probe)' /\ Sound(Erasure)'
      BY <1>3, <2>2 DEF IInv, FilesOK, BundlesOK, Sound, Kept, Untouched
    <2>4. {sealed', plain'} = {s, Absent}
      BY <1>5, <2>2
    <2>5. SubstratesOK'
      BY <1>3, <2>2, <2>4 DEF IInv, SubstratesOK
    <2>6. Idle'
      BY <1>2, <1>3, <1>5 DEF Idle
    <2> QED
      BY <2>3, <2>5, <2>6 DEF IInv, Phase
  <1> QED
    BY <1>1, <1>4, <1>5

LEMMA ProbingStep ==
    ASSUME IInv, Probing, Sound(Probe), Sound(Erasure), Steps
    PROVE  IInv'
  <1>1. PICK r \in RunRecord : todo = <<Writing("run.json", r)>>
    BY DEF Probing
  <1>2. Head(todo) = Writing("run.json", r) /\ Tail(todo) = <<>>
    BY <1>1
  <1>9. /\ Head(todo).do = "write" /\ Head(todo).file = "run.json" /\ Head(todo).content = r
    <2>1. Head(todo) = [do |-> "write", file |-> "run.json", content |-> r]
      BY <1>2 DEF Writing
    <2> QED
      BY <2>1
  <1>3. Write /\ UNCHANGED <<world, seeded, runs, cut>> /\ Idle'
    <2>1. Write /\ UNCHANGED <<world, seeded, runs, cut>> /\ todo' = Tail(todo)
      BY <1>9, StepTaken
    <2> QED
      BY <1>2, <2>1 DEF Idle
  <1>4. UNCHANGED <<sealed, plain, staged, bundles, latest>>
        /\ files' = [files EXCEPT !["run.json"] = r]
    BY <1>3, <1>9 DEF Write
  <1>5. "run.json" \in FileNames /\ MayHold("run.json", r)
    BY AllDifferent, Names DEF MayHold
  <1>6. FilesOK' /\ \A g \in FileNames \ {"run.json"} : files'[g] = files[g]
    BY <1>4, <1>5, FileWritten DEF IInv
  <1>7. \A o \in Owners : Sound(o) => Sound(o)'
    <2>1. \A o \in Owners :
             "run.json" \notin {o} \cup {OwnSibling(o, s) : s \in {"pdf", "in_toto", "dsse"}}
      BY AllDifferent
    <2> QED
      BY <1>3, <1>6, <2>1, KeptBeside DEF Sound, Untouched
  <1>8. SubstratesOK' /\ BundlesOK'
    BY <1>3, <1>4 DEF IInv, SubstratesOK, BundlesOK, Untouched
  <1> QED
    BY <1>3, <1>6, <1>7, <1>8 DEF IInv, Phase, Owners

LEMMA PackingStep ==
    ASSUME IInv, Packing, Sound(Probe), Sound(Erasure), Steps
    PROVE  IInv'
  <1>1. /\ files[Probe] \in Signed /\ files["run.json"] = [record |-> files[Probe].run]
        /\ \E m \in {Absent, files[Probe].run.substrate} :
              todo = <<Zipping("run-pack.zip", TRUE, m)>>
    BY DEF Packing
  <1>2. PICK m \in {Absent, files[Probe].run.substrate} :
            todo = <<Zipping("run-pack.zip", TRUE, m)>>
    BY <1>1
  <1>3. Head(todo) = Zipping("run-pack.zip", TRUE, m) /\ Tail(todo) = <<>>
    BY <1>2
  <1>4. WriteBundle /\ Idle'
    <2>1. Head(todo).do = "bundle"
      BY <1>3 DEF Zipping
    <2>2. WriteBundle /\ todo' = Tail(todo)
      BY <2>1, StepTaken
    <2> QED
      BY <1>3, <2>2 DEF Idle
  <1>5. Untouched => /\ files["audit-pack.pdf"] = files[Probe]
                     /\ files["attestation.intoto.json"] = files[Probe]
                     /\ files["evidence.dsse.json"] \in {Absent, files[Probe]}
    BY <1>1, OwnSiblings, MarksAssumed DEF Sound, Kept, Signed
  <1>6. /\ FilesOK' /\ SubstratesOK' /\ BundlesOK' /\ UNCHANGED <<files, staged>>
        /\ Untouched' = Untouched
    BY <1>1, <1>2, <1>3, <1>4, <1>5, BundleWritten DEF Zipping, BundleNames
  <1>7. Sound(Probe)' /\ Sound(Erasure)'
    BY <1>6 DEF Sound, Kept
  <1> QED
    BY <1>4, <1>6, <1>7 DEF IInv, Phase

LEMMA StepsStep ==
    ASSUME IInv, Steps
    PROVE  IInv'
  <1>1. ~Idle
    BY StepTaken
  <1> QED
    BY <1>1, SeedingStep, ProbingStep, PackingStep, ReportingStep, ErasingStep DEF IInv, Phase

-----------------------------------------------------------------------------
(* Commands cut short, and what others do to the folder. *)

\* Before its first file a command has disturbed no pack.
LEMMA BuildFailsStep ==
    ASSUME IInv, BuildFails
    PROVE  IInv'
  <1>1. /\ UNCHANGED <<sealed, plain, files, bundles, seeded, runs, cut, latest, world>> /\ Idle'
        /\ Head(todo).do = "build" /\ ~Idle
    BY DEF BuildFails, Doing, Idle
  <1>2. FilesOK' /\ SubstratesOK' /\ BundlesOK'
    BY <1>1 DEF IInv, FilesOK, SubstratesOK, BundlesOK, Untouched
  <1>3. ASSUME Reporting, Sound(Erasure) PROVE Sound(Probe)
    <2>1. PICK p \in Signed : \E plan \in ReportPlans(p) : \E i \in 1..Len(plan) :
              todo = Rest(plan, i) /\ Published(Probe, p, i)
      BY <1>3 DEF Reporting
    <2>2. PICK plan \in ReportPlans(p) : \E i \in 1..Len(plan) :
              todo = Rest(plan, i) /\ Published(Probe, p, i)
      BY <2>1
    <2>3. PICK i \in 1..Len(plan) : todo = Rest(plan, i) /\ Published(Probe, p, i)
      BY <2>2
    <2>4. plan[i].do = "build"
      BY <1>1, <2>3, ReportRest
    <2>5. i = 2
      <3>1. PICK n \in {6, 7} : n = Len(plan)
        BY ReportPlanSteps
      <3>2. i \in 1..n
        BY <3>1
      <3>3. /\ plan[1].do = "stage" /\ plan[3].do = "write" /\ plan[4].do = "publish"
            /\ plan[5].do = "write" /\ plan[6].do = "write"
        <4>1. /\ plan[1] = [do |-> "stage", content |-> p]
              /\ plan[3] = Writing(Probe, p)
              /\ plan[4] = [do |-> "publish", file |-> "audit-pack.pdf"]
              /\ plan[5] = Writing("attestation.intoto.json", p)
              /\ plan[6] = Writing("evidence.dsse.json", p)
          BY Zenon, ReportPlanSteps
        <4> QED
          BY <4>1 DEF Writing
      <3>4. n = 7 => plan[7].do = "bundle"
        <4>1. Len(plan) = 7 => \E m \in {Absent, p.manifest} :
                                   plan[7] = Zipping("evidence-bundle.zip", FALSE, m)
          BY Zenon, ReportPlanSteps
        <4> QED
          BY <3>1, <4>1 DEF Zipping
      <3> QED
        BY <2>4, <3>1, <3>2, <3>3, <3>4
    <2> QED
      BY <2>3, <2>5 DEF Published
  <1>4. ASSUME Erasing, Sound(Probe) PROVE Sound(Erasure)
    <2>1. PICK p \in Signed : \E i \in 1..5 :
              todo = Rest(ErasurePlan(p), i) /\ Published(Erasure, p, i)
      BY <1>4 DEF Erasing
    <2>2. PICK i \in 1..5 : todo = Rest(ErasurePlan(p), i) /\ Published(Erasure, p, i)
      BY <2>1
    <2>3. ErasurePlan(p)[i].do = "build"
      BY <1>1, <2>2, ErasureRest
    <2>4. i = 2
      BY <2>3 DEF ErasurePlan, Writing
    <2> QED
      BY <2>2, <2>4 DEF Published
  <1>5. Sound(Probe) /\ Sound(Erasure)
    BY <1>3, <1>4 DEF IInv, Phase
  <1> QED
    BY <1>1, <1>2, <1>5 DEF IInv, Phase, Sound, Kept, Untouched

\* What a kill can leave half done: a substrate that no seed has finished, or a file
\* nobody vouches for.
LEMMA HeadOfPlan ==
    ASSUME IInv, ~Idle
    PROVE  \/ Head(todo).do \in {"seed", "unlink"} /\ latest = 0
           \/ /\ Head(todo).do = "write"
              /\ Head(todo).file \in FileNames /\ MayHold(Head(todo).file, Torn)
           \/ Head(todo).do \in {"stage", "build", "publish", "bundle"}
  <1>1. \A f \in {Probe, Erasure, "run.json", "attestation.intoto.json", "evidence.dsse.json",
                  "erasure-attestation.intoto.json"} : f \in FileNames /\ MayHold(f, Torn)
    <2>1. \A f \in {Probe, Erasure} : f \in FileNames /\ MayHold(f, Torn)
      BY AllDifferent, Names DEF MayHold, Owners
    <2>2. \A f \in {"run.json", "attestation.intoto.json", "evidence.dsse.json",
                    "erasure-attestation.intoto.json"} : f \in FileNames /\ MayHold(f, Torn)
      BY AllDifferent, Names DEF MayHold, Papers
    <2> QED
      BY <2>1, <2>2
  <1>2. ASSUME NEW f, NEW c, Head(todo) = Writing(f, c),
               f \in {Probe, Erasure, "run.json", "attestation.intoto.json",
                      "evidence.dsse.json", "erasure-attestation.intoto.json"}
        PROVE  /\ Head(todo).do = "write"
               /\ Head(todo).file \in FileNames /\ MayHold(Head(todo).file, Torn)
    <2>1. Head(todo).do = "write" /\ Head(todo).file = f
      BY <1>2 DEF Writing
    <2> QED
      BY <1>1, <1>2, <2>1
  <1>3. CASE Seeding
    BY <1>3 DEF Seeding, Seeds
  <1>4. CASE Probing
    <2>1. PICK r \in RunRecord : todo = <<Writing("run.json", r)>>
      BY <1>4 DEF Probing
    <2>2. Head(todo) = Writing("run.json", r)
      BY <2>1
    <2> QED
      BY <1>2, <2>2
  <1>5. CASE Packing
    <2>1. PICK m : todo = <<Zipping("run-pack.zip", TRUE, m)>>
      BY <1>5 DEF Packing
    <2> QED
      BY <2>1 DEF Zipping
  <1>6. CASE Reporting
    <2>1. PICK p \in Signed : \E plan \in ReportPlans(p) : \E i \in 1..Len(plan) :
              todo = Rest(plan, i)
      BY <1>6 DEF Reporting
    <2>2. PICK plan \in ReportPlans(p) : \E i \in 1..Len(plan) : todo = Rest(plan, i)
      BY <2>1
    <2>3. PICK i \in 1..Len(plan) : todo = Rest(plan, i)
      BY <2>2
    <2>4. Head(todo) = plan[i]
      BY <2>3, ReportRest
    <2>5. i \in 1..6 \/ (i = 7 /\ Len(plan) = 7)
      <3>1. PICK n \in {6, 7} : n = Len(plan)
        BY ReportPlanSteps
      <3>2. i \in 1..n
        BY <3>1
      <3> QED
        BY <3>1, <3>2
    <2>6. /\ plan[1] = [do |-> "stage", content |-> p] /\ plan[2] = [do |-> "build"]
          /\ plan[3] = Writing(Probe, p)
          /\ plan[4] = [do |-> "publish", file |-> "audit-pack.pdf"]
          /\ plan[5] = Writing("attestation.intoto.json", p)
          /\ plan[6] = Writing("evidence.dsse.json", p)
      BY Zenon, ReportPlanSteps
    <2>7. Len(plan) = 7 => plan[7].do = "bundle"
      <3>1. Len(plan) = 7 => \E m \in {Absent, p.manifest} :
                                 plan[7] = Zipping("evidence-bundle.zip", FALSE, m)
        BY Zenon, ReportPlanSteps
      <3> QED
        BY <3>1 DEF Zipping
    <2>8. CASE i \in {1, 2, 4}
      BY <2>4, <2>6, <2>8
    <2>9. CASE i \in {3, 5, 6}
      BY <2>4, <2>6, <2>9, <1>2
    <2> QED
      BY <2>4, <2>5, <2>7, <2>8, <2>9
  <1>7. CASE Erasing
    <2>1. PICK p \in Signed : \E i \in 1..5 : todo = Rest(ErasurePlan(p), i)
      BY <1>7 DEF Erasing
    <2>2. PICK i \in 1..5 : todo = Rest(ErasurePlan(p), i)
      BY <2>1
    <2>3. Head(todo) = ErasurePlan(p)[i]
      BY <2>2, ErasureRest
    <2>4. /\ ErasurePlan(p)[1] = [do |-> "stage", content |-> p]
          /\ ErasurePlan(p)[2] = [do |-> "build"]
          /\ ErasurePlan(p)[3] = Writing(Erasure, p)
          /\ ErasurePlan(p)[4] = [do |-> "publish", file |-> "erasure-attestation.pdf"]
          /\ ErasurePlan(p)[5] = Writing("erasure-attestation.intoto.json", p)
      BY Zenon, ErasurePlanSteps
    <2>5. CASE i \in {1, 2, 4}
      BY <2>3, <2>4, <2>5
    <2>6. CASE i \in {3, 5}
      BY <2>3, <2>4, <2>6, <1>2
    <2> QED
      BY <2>5, <2>6
  <1> QED
    BY <1>3, <1>4, <1>5, <1>6, <1>7 DEF IInv, Phase

\* From then on the folder is not untouched.
LEMMA CutStep ==
    ASSUME IInv, ~Idle, CutShort, cut' = cut + 1, todo' = <<>>,
           UNCHANGED <<bundles, seeded, runs, latest, world>>
    PROVE  IInv'
  <1>1. ~Untouched' /\ cut' \in Nat
    BY DEF IInv, SubstratesOK, Untouched
  <1>2. CASE Doing("write")
    <2>1. Head(todo).file \in FileNames /\ MayHold(Head(todo).file, Torn)
      BY <1>2, HeadOfPlan DEF Doing
    <2>2. /\ \/ files' = files
             \/ files' = [files EXCEPT ![Head(todo).file] = Torn]
          /\ UNCHANGED <<sealed, plain>>
      BY <1>2 DEF CutShort
    <2>3. FilesOK'
      <3>1. CASE files' = files
        BY <3>1 DEF IInv, FilesOK
      <3>2. CASE files' = [files EXCEPT ![Head(todo).file] = Torn]
        BY <2>1, <3>2, FileWritten DEF IInv
      <3> QED
        BY <2>2, <3>1, <3>2
    <2> QED
      BY <1>1, <2>2, <2>3 DEF IInv, SubstratesOK, BundlesOK, Phase, Sound, Idle
  <1>3. CASE Doing("seed")
    <2>1. latest = 0
      BY <1>3, HeadOfPlan DEF Doing
    <2>2. UNCHANGED files /\ sealed' \in {sealed, Torn} /\ plain' \in {plain, Torn}
      BY <1>2, <1>3 DEF CutShort, Doing
    <2>3. FilesOK'
      BY <2>2 DEF IInv, FilesOK
    <2> QED
      BY <1>1, <2>1, <2>2, <2>3 DEF IInv, SubstratesOK, BundlesOK, Phase, Sound, Idle
  <1>4. CASE ~Doing("write") /\ ~Doing("seed")
    <2>1. UNCHANGED <<sealed, plain, files>>
      BY <1>4 DEF CutShort
    <2>2. FilesOK'
      BY <2>1 DEF IInv, FilesOK
    <2> QED
      BY <1>1, <2>1, <2>2 DEF IInv, SubstratesOK, BundlesOK, Phase, Sound, Idle
  <1> QED
    BY <1>2, <1>3, <1>4

LEMMA CopyStep ==
    ASSUME IInv, NEW owner \in Owners, NEW name \in CopyNames, CopyPack(owner, name)
    PROVE  IInv'
  <1>1. UNCHANGED <<sealed, plain, staged, bundles, todo, seeded, runs, cut, latest, world>>
        /\ files' = [files EXCEPT ![name] = files[owner]] /\ Idle
    BY DEF CopyPack
  <1>2. files[owner] \in Signed
    BY MarksAssumed, AllDifferent DEF CopyPack, IInv, FilesOK, MayHold
  <1>3. name \in FileNames /\ MayHold(name, files[owner])
    BY <1>2, AllDifferent, Names DEF MayHold
  <1>4. FilesOK' /\ \A g \in FileNames \ {name} : files'[g] = files[g]
    BY <1>1, <1>3, FileWritten DEF IInv
  <1>5. \A o \in Owners : Sound(o) => Sound(o)'
    <2>1. \A o \in Owners :
             name \notin {o} \cup {OwnSibling(o, s) : s \in {"pdf", "in_toto", "dsse"}}
      BY AllDifferent
    <2> QED
      BY <1>1, <1>4, <2>1, KeptBeside DEF Sound, Untouched
  <1>6. SubstratesOK' /\ BundlesOK' /\ Idle'
    BY <1>1 DEF IInv, SubstratesOK, BundlesOK, Untouched, Idle
  <1> QED
    BY <1>1, <1>4, <1>5, <1>6, IdleIsSound DEF IInv, Phase, Owners

LEMMA AlterStep ==
    ASSUME IInv, NEW file \in SiblingNames \ {"run.json"}, Alter(file)
    PROVE  IInv'
  <1>1. UNCHANGED <<sealed, plain, staged, bundles, todo, seeded, runs, cut, latest, world>>
        /\ files' = [files EXCEPT ![file] = Altered] /\ Idle
    BY DEF Alter
  <1>2. file # "erasure-evidence.dsse.json"
    BY AllDifferent DEF Alter, IInv, FilesOK, MayHold
  <1>3. file \in FileNames /\ MayHold(file, Altered)
    BY <1>2, AllDifferent DEF MayHold, Papers
  <1>4. FilesOK'
    BY <1>1, <1>3, FileWritten DEF IInv
  <1>5. world.altered # 0
    <2> DEFINE altered == {f \in SiblingNames : files[f] = Altered}
    <2>1. IsFiniteSet(SiblingNames)
      <3>1. IsFiniteSet({"audit-pack.pdf"})
        BY FS_Singleton
      <3> DEFINE S2 == {"audit-pack.pdf", "attestation.intoto.json"}
                 S3 == S2 \cup {"evidence.dsse.json"}
                 S4 == S3 \cup {"run.json"}
                 S5 == S4 \cup {"erasure-attestation.pdf"}
                 S6 == S5 \cup {"erasure-attestation.intoto.json"}
                 S7 == S6 \cup {"erasure-evidence.dsse.json"}
      <3>2. S2 = {"audit-pack.pdf"} \cup {"attestation.intoto.json"} /\ SiblingNames = S7
        BY Names
      <3> HIDE DEF S2
      <3>3. IsFiniteSet(S2)
        BY <3>1, <3>2, FS_AddElement
      <3>4. IsFiniteSet(S3) /\ IsFiniteSet(S4)
        BY <3>3, FS_AddElement
      <3>5. IsFiniteSet(S5) /\ IsFiniteSet(S6)
        BY <3>4, FS_AddElement
      <3>6. IsFiniteSet(S7)
        BY <3>5, FS_AddElement
      <3> QED
        BY <3>2, <3>6
    <2>2. IsFiniteSet(altered)
      BY <2>1, FS_Subset
    <2>3. Cardinality(altered) \in Nat
      BY <2>2, FS_CardinalityType
    <2> QED
      BY <2>3 DEF Alter
  <1>6. ~Untouched'
    BY <1>1, <1>5 DEF Untouched
  <1>7. SubstratesOK' /\ BundlesOK' /\ Idle'
    BY <1>1, <1>6 DEF IInv, SubstratesOK, BundlesOK, Idle
  <1> QED
    BY <1>4, <1>6, <1>7 DEF IInv, Phase, Sound

LEMMA NextStep == IInv /\ [Next]_vars => IInv'
  <1> SUFFICES ASSUME IInv, [Next]_vars PROVE IInv'
    OBVIOUS
  <1>1. ASSUME NEW keyed \in BOOLEAN, Seed(keyed) PROVE IInv'
    BY <1>1, SeedStep
  <1>2. ASSUME NEW keyed \in BOOLEAN, ProbeCommand(keyed) PROVE IInv'
    BY <1>2, ProbeStep
  <1>3. ASSUME NEW keyed \in BOOLEAN, NEW m \in BOOLEAN, Pack(keyed, m) PROVE IInv'
    BY <1>3, PackStep
  <1>4. ASSUME NEW keyed \in BOOLEAN, NEW anchored \in BOOLEAN, ErasureCommand(keyed, anchored)
        PROVE  IInv'
    BY <1>4, ErasureStep
  <1>5. ASSUME NEW keyed \in BOOLEAN, NEW anchored \in BOOLEAN, NEW bundled \in BOOLEAN,
               NEW m \in BOOLEAN, Report(keyed, anchored, bundled, m)
        PROVE  IInv'
    BY <1>5, ReportStep
  <1>6. CASE Steps
    BY <1>6, StepsStep
  <1>7. CASE BuildFails
    BY <1>7, BuildFailsStep
  <1>8. CASE WriteFails
    BY <1>8, CutStep DEF WriteFails, Doing
  <1>9. CASE Killed
    BY <1>9, CutStep DEF Killed
  <1>10. ASSUME NEW owner \in Owners, NEW name \in CopyNames, CopyPack(owner, name) PROVE IInv'
    BY <1>10, CopyStep
  <1>11. ASSUME NEW file \in SiblingNames \ {"run.json"}, Alter(file) PROVE IInv'
    BY <1>11, AlterStep
  <1>12. CASE UNCHANGED vars
    <2>1. FilesOK' /\ SubstratesOK' /\ BundlesOK'
      BY <1>12 DEF vars, IInv, FilesOK, SubstratesOK, BundlesOK, Untouched
    <2>2. Sound(Probe)' = Sound(Probe) /\ Sound(Erasure)' = Sound(Erasure)
      BY <1>12 DEF vars, Sound, Kept, Untouched
    <2>3. /\ Idle' = Idle /\ Seeding' = Seeding /\ Probing' = Probing
          /\ Packing' = Packing
      BY <1>12 DEF vars, Idle, Seeding, Probing, Packing
    <2>4. \A o, p, i : Published(o, p, i)' = Published(o, p, i)
      BY <1>12 DEF vars, Published, Sound, Kept, Untouched
    <2>5. Reporting => Reporting'
      <3>1. ASSUME NEW p \in Signed, NEW plan \in ReportPlans(p), NEW i \in 1..Len(plan),
                   todo = Rest(plan, i) /\ Published(Probe, p, i)
            PROVE  Reporting'
        BY <1>12, <2>4, <3>1 DEF vars, Reporting
      <3> QED
        BY <3>1 DEF Reporting
    <2>6. Erasing => Erasing'
      BY <1>12, <2>4 DEF vars, Erasing
    <2> QED
      BY <2>1, <2>2, <2>3, <2>5, <2>6 DEF IInv, Phase
  <1> QED
    BY <1>1, <1>2, <1>3, <1>4, <1>5, <1>6, <1>7, <1>8, <1>9, <1>10, <1>11, <1>12 DEF Next

\* Of every folder, after every step of every command, failure and interference: files hold
\* what they may hold, bundles are of one run, a completed seed is the only substrate, and a
\* pack no command is publishing has all its documents.
THEOREM FolderInductive == Spec => []IInv
  BY Init_IInv, NextStep, PTL DEF Spec

-----------------------------------------------------------------------------
(* What follows from it. *)

\* Once a seed has completed its substrate is the only one in the directory, however many
\* earlier seeds were cut short, in whichever variant they wrote.
THEOREM SeedIsWhole == Spec => []SeedReplaces
  <1>1. IInv => SeedReplaces
    BY DEF IInv, SubstratesOK, SeedReplaces
  <1> QED
    BY <1>1, FolderInductive, PTL

\* Whatever was probed, reported or re-seeded before and since and whatever failed, every
\* pack, a copy's included, signs the manifest its run was recorded against, every bundle
\* seals that one or none, and passes its verification in a folder nobody disturbed.
THEOREM EvidenceHoldsTogether == Spec => []EvidenceIsOfOneRun
  <1>1. IInv => EvidenceIsOfOneRun
    <2> SUFFICES ASSUME IInv PROVE EvidenceIsOfOneRun
      OBVIOUS
    <2>1. ASSUME NEW f \in Packs, files[f] \in Attested
          PROVE  files[f].manifest = files[f].run.substrate
      <3>1. f \in FileNames /\ (f \in Owners \/ f \in CopyNames)
        BY AllDifferent DEF Packs
      <3>2. files[f] \in {Absent, Torn} \cup Signed
        BY <3>1 DEF IInv, FilesOK, MayHold
      <3>3. files[f] \in Signed
        BY <2>1, <3>2, MarksAssumed
      <3> QED
        BY <3>3 DEF Signed
    <2> QED
      BY <2>1 DEF EvidenceIsOfOneRun, IInv, BundlesOK
  <1> QED
    BY <1>1, FolderInductive, PTL

LEMMA OwnerVerifies ==
    ASSUME NEW o \in Owners, Kept(o), files[o] # Absent
    PROVE  VerifyExit(files, o, TRUE) = 0
  <1>1. files[o] \in Signed
    BY DEF Kept
  <1>2. Intact(files[o]) /\ files[o] \notin {Absent, Torn}
    BY <1>1, MarksAssumed DEF Intact, Signed
  <1>3. ASSUME NEW s \in Slots \ {"run"}
        PROVE  \A f \in Present(files, o, s) : Binds(files[f], s, files[o])
    <2>1. Candidates(o, s) \subseteq {OwnSibling(o, s)}
      BY DEF Candidates
    <2>2. files[OwnSibling(o, s)] \in {Absent, files[o]}
      BY <1>1, MarksAssumed DEF Kept, Slots, Signed
    <2> QED
      BY <2>1, <2>2 DEF Present, Binds
  <1>4. Accused(files, o) = {}
    <2>1. ASSUME NEW s \in Slots \ {"run"}, NEW f \in Judged(files, o, s)
          PROVE  Binds(files[f], s, files[o])
      <3>1. f \in Present(files, o, s)
        BY DEF Judged, Bound, Claimed
      <3> QED
        BY <3>1, <1>3
    <2> QED
      BY <2>1 DEF Accused
  <1>5. ASSUME NEW s \in Slots
        PROVE  Unexcused(files, o, s) = {}
    <2>1. CASE s # "run"
      BY <1>3, <2>1 DEF Unexcused, Bound, Claimed
    <2>2. CASE s = "run"
      <3>1. ASSUME NEW f \in Present(files, o, "run")
            PROVE  Claim(files, o, f, "run", files[o]) = "unowned"
        <4>1. \A q \in Owners \ {o} : OwnSibling(q, "run") # f
          BY OwnSiblings DEF Present, Candidates, Owners
        <4> QED
          BY <4>1 DEF Claim
      <3> QED
        BY <2>2, <3>1 DEF Unexcused, Claimed
    <2> QED
      BY <2>1, <2>2
  <1> QED
    BY <1>2, <1>4, <1>5 DEF VerifyExit

LEMMA CopyVerifies ==
    ASSUME Kept(Probe), Kept(Erasure), NEW c \in CopyNames, files[c] \in Signed
    PROVE  VerifyExit(files, c, TRUE) \in {0, 3}
  <1>1. Intact(files[c]) /\ files[c] \notin {Absent, Torn} /\ c \notin Owners
    BY MarksAssumed, AllDifferent DEF Intact, Signed
  <1>2. ASSUME NEW s \in Slots \ {"run"}, NEW f \in Present(files, c, s)
        PROVE  Claim(files, c, f, s, files[c]) # "unowned"
    <2>1. PICK o \in Owners : f = OwnSibling(o, s)
      BY <1>1, OwnSiblings DEF Present, Candidates, Fallback, Siblings, Slots, Owners, OwnSibling
    <2>2. files[f] # Absent
      BY DEF Present
    <2>3. files[o] \in Signed /\ files[f] = files[o]
      BY <2>1, <2>2 DEF Kept, Owners, Slots
    <2>4. Intact(files[o]) /\ Binds(files[f], s, files[o])
      BY <2>3 DEF Intact, Binds, Signed
    <2>5. o \in Owners \ {c}
      BY <1>1
    <2> QED
      BY <2>1, <2>4, <2>5 DEF Claim
  <1>3. Accused(files, c) = {}
    <2>1. ASSUME NEW s \in Slots \ {"run"}, NEW f \in Judged(files, c, s)
          PROVE  Binds(files[f], s, files[c])
      BY <1>2 DEF Judged, Bound, Claimed
    <2> QED
      BY <2>1 DEF Accused
  <1> QED
    BY <1>1, <1>3 DEF VerifyExit

\* Nobody who did not touch a folder is told that it was: after any number of probes,
\* reports, erasures, seeds and copies, failed anchorings included, a pack under its own
\* name verifies and a copy of one is never called altered.
THEOREM UntouchedIsCleared == Spec => []UntouchedVerifies
  <1>1. IInv => UntouchedVerifies
    <2> SUFFICES ASSUME IInv, Idle, Untouched, NEW f \in Packs
                 PROVE  VerifyExit(files, f, TRUE) \in IF f \in Owners THEN {0} ELSE {0, 3}
      BY DEF UntouchedVerifies
    <2>1. Kept(Probe) /\ Kept(Erasure)
      BY IdleIsSound DEF IInv, Sound
    <2>2. CASE f \in Owners
      <3>1. Kept(f) /\ files[f] # Absent
        BY <2>1, <2>2 DEF Packs, Owners
      <3> QED
        BY <2>2, <3>1, OwnerVerifies
    <2>3. CASE f \notin Owners
      <3>1. f \in CopyNames /\ files[f] # Absent
        BY <2>3 DEF Packs
      <3>2. files[f] \in Signed
        BY <3>1, AllDifferent DEF IInv, FilesOK, MayHold
      <3> QED
        BY <2>1, <2>3, <3>1, <3>2, CopyVerifies
    <2> QED
      BY <2>2, <2>3
  <1> QED
    BY <1>1, FolderInductive, PTL
=============================================================================

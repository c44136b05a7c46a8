------------------------------- MODULE Workdir --------------------------------
(***************************************************************************)
(* The work directory and the commands that turn a seeded substrate into   *)
(* evidence there: seed, probe, report, pack and erasure, one at a time,   *)
(* each a series of writes to files that other commands, and `verify`,     *)
(* read.  Anchoring may fail, a write may fail, the process may be killed  *)
(* between two writes or in one; an operator copies packs to other names   *)
(* and somebody alters a document.  What a probe or an erasure measures is *)
(* modelled by ProbeRun and ErasureRun; here a run is a number and the     *)
(* substrate it was recorded against.                                      *)
(***************************************************************************)
EXTENDS PackFolder, Sequences

CONSTANT Worlds   \* what may happen around the folder, see World

\* commands: what the operator runs besides seed, probe and report; faults: what fails;
\* cuts: how many commands a failing write or a kill cuts short; altered: how many
\* documents are altered after they were written.
World == [commands : SUBSET {"erasure", "bundle", "pack", "copy"},
          faults   : SUBSET {"build", "write", "kill"},
          cuts     : Nat, altered : Nat]

ASSUME WorldsAssumed == Worlds \subseteq World

VARIABLES
    world,           \* environment: of Worlds
    sealed, plain,   \* substrate.json.enc and substrate.json
    files,           \* the packs, their documents and run.json
    staged,          \* the PDF rendered to a side path
    bundles,         \* evidence-bundle.zip and run-pack.zip
    todo,            \* what is left to do of the command that runs
    seeded, runs,    \* how many substrates and runs there have been
    cut,             \* how many commands were cut short
    latest           \* the substrate of the last seed, if that command completed

vars == <<world, sealed, plain, files, staged, bundles, todo, seeded, runs, cut, latest, world>>

BundleNames == {"evidence-bundle.zip", "run-pack.zip"}

Init ==
    /\ world \in Worlds
    /\ sealed = Absent /\ plain = Absent
    /\ files = [f \in FileNames |-> Absent]
    /\ staged = Absent
    /\ bundles = [b \in BundleNames |-> Absent]
    /\ todo = <<>>
    /\ seeded = 0 /\ runs = 0 /\ cut = 0 /\ latest = 0

Idle == todo = <<>>

-----------------------------------------------------------------------------
(* The commands.  Each reads what it needs and refuses, or plans its writes. *)

\* What a command has left to do, in order.
Saves(file, content)    == <<[do |-> "write", file |-> file, content |-> content]>>
Renders(pack)           == <<[do |-> "stage", content |-> pack], [do |-> "build"]>>
Publishes(file)         == <<[do |-> "publish", file |-> file]>>
Zips(name, run, manifest) ==
    <<[do |-> "bundle", name |-> name, with_run |-> run, manifest |-> manifest]>>
Seeds(variant, s) == <<[do |-> "seed", variant |-> variant, substrate |-> s],
                       [do |-> "unlink", variant |-> variant, substrate |-> s]>>

\* _load_substrate: the sealed variant is preferred, and needs the key.
Loaded(keyed) == IF sealed # Absent THEN (IF keyed THEN sealed ELSE Absent) ELSE plain

\* Fault: a re-seed leaves the other variant where it is.
SeedBeside(keyed) ==
    /\ Idle /\ seeded < MaxSeeds
    /\ seeded' = seeded + 1 /\ latest' = 0
    /\ todo' = <<[do |-> "seed", variant |-> IF keyed THEN "sealed" ELSE "plain",
                  substrate |-> seeded + 1],
                 [do |-> "unlink", variant |-> "none", substrate |-> seeded + 1]>>
    /\ UNCHANGED <<world, sealed, plain, files, staged, bundles, runs, cut>>

Seed(keyed) ==
    /\ Idle /\ seeded < MaxSeeds
    /\ seeded' = seeded + 1 /\ latest' = 0
    /\ todo' = Seeds(IF keyed THEN "sealed" ELSE "plain", seeded + 1)
    /\ UNCHANGED <<world, sealed, plain, files, staged, bundles, runs, cut>>

Starts(steps) ==
    /\ todo' = steps
    /\ UNCHANGED <<world, sealed, plain, files, staged, bundles, seeded, cut, latest>>

ProbeCommand(keyed) ==
    /\ Idle /\ runs < MaxRuns
    /\ Loaded(keyed) \in Substrates
    /\ runs' = runs + 1
    /\ Starts(Saves("run.json", [record |-> [id |-> runs + 1, substrate |-> Loaded(keyed)]]))

Recorded == files["run.json"].record

\* Fault: the PDF is rendered to its final path.
RendersInPlace(pack) ==
    <<[do |-> "stage", content |-> pack], [do |-> "publish", file |-> "audit-pack.pdf"],
      [do |-> "build"]>>

\* Fault: report writes the PDF to its final path before the pack is built.
ReportInPlace(keyed, anchored, bundled, include_manifest) ==
    /\ Idle
    /\ files["run.json"] \in RunRecord
    /\ Loaded(keyed) = Recorded.substrate
    /\ bundled => "bundle" \in world.commands
    /\ include_manifest => bundled /\ keyed
    /\ LET pack == [run |-> Recorded, manifest |-> Loaded(keyed), anchored |-> anchored]
       IN Starts(RendersInPlace(pack) \o Saves(Probe, pack)
                 \o Saves("attestation.intoto.json", pack) \o Saves("evidence.dsse.json", pack))
    /\ UNCHANGED runs

\* report signs run.json, which must have been recorded against the substrate here.
Report(keyed, anchored, bundled, include_manifest) ==
    /\ Idle
    /\ files["run.json"] \in RunRecord
    /\ Loaded(keyed) = Recorded.substrate
    /\ bundled => "bundle" \in world.commands
    /\ include_manifest => bundled /\ keyed
    /\ LET pack == [run |-> Recorded, manifest |-> Loaded(keyed), anchored |-> anchored]
       IN Starts(Renders(pack) \o Saves(Probe, pack) \o Publishes("audit-pack.pdf")
                 \o Saves("attestation.intoto.json", pack) \o Saves("evidence.dsse.json", pack)
                 \o IF bundled
                    THEN Zips("evidence-bundle.zip", FALSE,
                              IF include_manifest THEN pack.manifest ELSE Absent)
                    ELSE <<>>)
    /\ UNCHANGED runs

\* Fault: pack does not look whether run.json is the run the pack attests.
PackAnyRun(keyed, include_manifest) ==
    /\ "pack" \in world.commands /\ Idle
    /\ files[Probe] \in Attested
    /\ files["run.json"] \in RunRecord
    /\ include_manifest => keyed /\ Loaded(keyed) = Recorded.substrate
    /\ Starts(Zips("run-pack.zip", TRUE, IF include_manifest THEN Loaded(keyed) ELSE Absent))
    /\ UNCHANGED runs

\* pack bundles the evidence with run.json, which must be the run it attests, and
\* seals a manifest only of the substrate that run was recorded against.
Pack(keyed, include_manifest) ==
    /\ "pack" \in world.commands /\ Idle
    /\ files[Probe] \in Attested
    /\ files["run.json"] = [record |-> files[Probe].run]
    /\ include_manifest => keyed /\ Loaded(keyed) = Recorded.substrate
    /\ Starts(Zips("run-pack.zip", TRUE, IF include_manifest THEN Loaded(keyed) ELSE Absent))
    /\ UNCHANGED runs

\* erasure keeps its run record only in its pack.
ErasureCommand(keyed, anchored) ==
    /\ "erasure" \in world.commands /\ Idle /\ runs < MaxRuns
    /\ Loaded(keyed) \in Substrates
    /\ runs' = runs + 1
    /\ LET pack == [run |-> [id |-> runs + 1, substrate |-> Loaded(keyed)],
                    manifest |-> Loaded(keyed), anchored |-> anchored]
       IN Starts(Renders(pack) \o Saves(Erasure, pack) \o Publishes("erasure-attestation.pdf")
                 \o Saves("erasure-attestation.intoto.json", pack))

-----------------------------------------------------------------------------
(* The steps of a command. *)

Doing(what) == ~Idle /\ Head(todo).do = what
Done == todo' = Tail(todo) /\ UNCHANGED <<world, seeded, runs, cut>>

WriteSubstrate ==
    /\ Doing("seed")
    /\ LET step == Head(todo)
       IN IF step.variant = "sealed" THEN sealed' = step.substrate /\ UNCHANGED plain
          ELSE plain' = step.substrate /\ UNCHANGED sealed
    /\ Done
    /\ UNCHANGED <<files, staged, bundles, latest>>

\* The other variant goes, and the seed has completed.
UnlinkOther ==
    /\ Doing("unlink")
    /\ sealed' = IF Head(todo).variant = "plain" THEN Absent ELSE sealed
    /\ plain'  = IF Head(todo).variant = "sealed" THEN Absent ELSE plain
    /\ latest' = Head(todo).substrate
    /\ Done
    /\ UNCHANGED <<files, staged, bundles>>

Stage ==
    /\ Doing("stage")
    /\ staged' = Head(todo).content
    /\ Done
    /\ UNCHANGED <<sealed, plain, files, bundles, latest>>

\* build_evidence_pack: the timestamp and the log entry were obtained.
Build ==
    /\ Doing("build")
    /\ Done
    /\ UNCHANGED <<sealed, plain, files, staged, bundles, latest>>

Write ==
    /\ Doing("write")
    /\ files' = [files EXCEPT ![Head(todo).file] = Head(todo).content]
    /\ Done
    /\ UNCHANGED <<sealed, plain, staged, bundles, latest>>

\* The staged PDF replaces the one at its final path.
Publish ==
    /\ Doing("publish")
    /\ files' = [files EXCEPT ![Head(todo).file] = staged]
    /\ staged' = Absent
    /\ Done
    /\ UNCHANGED <<sealed, plain, bundles, latest>>

WriteBundle ==
    /\ Doing("bundle")
    /\ LET step == Head(todo)
       IN bundles' = [bundles EXCEPT ![step.name] =
              [evidence |-> files[Probe], pdf |-> files[Siblings["pdf"].p],
               in_toto |-> files[Siblings["in_toto"].p], dsse |-> files[Siblings["dsse"].p],
               run |-> IF step.with_run THEN files["run.json"] ELSE Absent,
               manifest |-> step.manifest]]
    /\ Done
    /\ UNCHANGED <<sealed, plain, files, staged, latest>>

-----------------------------------------------------------------------------
(* Faults. *)

\* The TSA or the log cannot be reached: the command ends, nothing is published.
BuildFails ==
    /\ "build" \in world.faults /\ Doing("build")
    /\ todo' = <<>>
    /\ staged' = Absent
    /\ UNCHANGED <<sealed, plain, files, bundles, seeded, runs, cut, latest, world>>

\* What a write cut short leaves of the file it was writing.
CutShort ==
    IF Doing("write")
    THEN files' \in {files, [files EXCEPT ![Head(todo).file] = Torn]} /\ UNCHANGED <<sealed, plain>>
    ELSE IF Doing("seed")
    THEN /\ \/ Head(todo).variant = "sealed" /\ sealed' \in {sealed, Torn} /\ UNCHANGED plain
            \/ Head(todo).variant = "plain" /\ plain' \in {plain, Torn} /\ UNCHANGED sealed
         /\ UNCHANGED files
    ELSE UNCHANGED <<sealed, plain, files>>

\* A write or the replace raises; the handler of report and erasure removes what
\* is staged. A bundle is a file of its own, whose failure is left out.
WriteFails ==
    /\ "write" \in world.faults /\ cut < world.cuts
    /\ cut' = cut + 1
    /\ Doing("write") \/ Doing("seed") \/ Doing("publish")
    /\ CutShort
    /\ todo' = <<>>
    /\ staged' = Absent
    /\ UNCHANGED <<bundles, seeded, runs, latest, world>>

\* The process dies: no handler runs.
Killed ==
    /\ "kill" \in world.faults /\ cut < world.cuts /\ ~Idle
    /\ cut' = cut + 1
    /\ CutShort
    /\ todo' = <<>>
    /\ UNCHANGED <<staged, bundles, seeded, runs, latest, world>>

-----------------------------------------------------------------------------
(* Around the commands. *)

CopyPack(owner, name) ==
    /\ "copy" \in world.commands /\ Idle
    /\ files[owner] \in Attested /\ files[name] # files[owner]
    /\ files' = [files EXCEPT ![name] = files[owner]]
    /\ UNCHANGED <<sealed, plain, staged, bundles, todo, seeded, runs, cut, latest, world>>

Alter(file) ==
    /\ Idle
    /\ files[file] \notin {Absent, Altered}
    /\ Cardinality({f \in SiblingNames : files[f] = Altered}) < world.altered
    /\ files' = [files EXCEPT ![file] = Altered]
    /\ UNCHANGED <<sealed, plain, staged, bundles, todo, seeded, runs, cut, latest, world>>

Steps == WriteSubstrate \/ UnlinkOther \/ Stage \/ Build \/ Write \/ Publish \/ WriteBundle

Next ==
    \/ \E keyed \in BOOLEAN :
          \/ Seed(keyed) \/ ProbeCommand(keyed)
          \/ \E m \in BOOLEAN : Pack(keyed, m)
          \/ \E anchored \in BOOLEAN :
                \/ ErasureCommand(keyed, anchored)
                \/ \E bundled, m \in BOOLEAN : Report(keyed, anchored, bundled, m)
    \/ Steps
    \/ BuildFails \/ WriteFails \/ Killed
    \/ \E owner \in Owners, name \in CopyNames : CopyPack(owner, name)
    \/ \E file \in SiblingNames \ {"run.json"} : Alter(file)

Spec == Init /\ [][Next]_vars

-----------------------------------------------------------------------------
Packs == {f \in Owners \cup CopyNames : files[f] # Absent}

\* Nothing was altered, and no command was cut short.
Untouched == world.altered = 0 /\ cut = 0

\* Nobody who did not touch the folder is told that it was: between commands, a
\* pack under its own name verifies, and a copy of one is never called altered.
UntouchedVerifies ==
    Idle /\ Untouched => \A f \in Packs :
        VerifyExit(files, f, TRUE) \in IF f \in Owners THEN {0} ELSE {0, 3}

\* `verify` never calls altered what nobody touched, whatever failed before.
UntouchedNeverAccused == Idle => \A f \in Packs : VerifyExit(files, f, TRUE) # 4

\* Evidence is of one run, whatever was probed, reported or re-seeded before and since and
\* whatever failed: a pack signs, and a bundle seals, the manifest its run was recorded
\* against, and every bundle written of an untouched folder passes its verification.
EvidenceIsOfOneRun ==
    /\ \A f \in Packs : files[f] \in Attested => files[f].manifest = files[f].run.substrate
    /\ \A b \in BundleNames :
          bundles[b] # Absent =>
              /\ bundles[b].manifest \in {Absent, bundles[b].evidence.run.substrate}
              /\ Untouched => BundlePasses(bundles[b])

\* Once a seed has completed, its substrate is the only one in the directory, in
\* the one variant it wrote, whatever earlier seeds were cut short.
SeedReplaces == Idle /\ latest # 0 => {sealed, plain} = {latest, Absent}

\* No pack's name and no pack beside it make `verify` certify a folder where nothing of
\* a kind is the pack's and one such document was altered; and an anchored pack is
\* certified beside a document that is not its own only if an anchored pack owns it.
TamperedNeverExcused ==
    \A f \in Packs :
        LET unbound == {s \in Slots \ {"run"} : Bound(files, f, s) = {}}
            beside  == UNION {Present(files, f, s) : s \in unbound}
            weak    == {g \in beside : files[g] \notin {c \in Attested : c.anchored}}
        IN  /\ {g \in beside : files[g] \in {Altered, Torn}} # {} => VerifyExit(files, f, TRUE) # 0
            /\ weak # {} => VerifyExit(files, f, FALSE) # 0
=============================================================================

------------------------------ MODULE PackFolder ------------------------------
(***************************************************************************)
(* What `sectum-ai verify` concludes about an evidence pack from the files *)
(* that sit beside it, or about a bundle from its members.  A folder is no *)
(* closed container: it may hold the pack of a probe run and that of an    *)
(* erasure, each with its own documents, and copies of either under other  *)
(* names.  A sibling is judged against the pack, named as somebody else's, *)
(* or, when only a weaker pack claims it, left unestablished.              *)
(*                                                                         *)
(* A document is identified by what it is rendered from: the run record,   *)
(* the manifest and whether the pack is anchored.  The PDF, the in-toto    *)
(* statement and the DSSE envelope of a pack are all the pack's Attested.  *)
(* Every run is taken to have touched a live backend.                      *)
(***************************************************************************)
EXTENDS Naturals, FiniteSets

CONSTANTS
    MaxSeeds,    \* bound: substrates are 1..MaxSeeds, in the order they are seeded
    MaxRuns,     \* bound: runs are numbered 1..MaxRuns, in the order they are recorded
    CopyNames,   \* file names, known to no table, an operator copies packs to
    Absent,      \* there is no such file
    Torn,        \* a file whose write was cut short
    Altered      \* a file whose content was changed after it was written

ASSUME BoundsAssumed == MaxSeeds \in Nat /\ MaxRuns \in Nat

Substrates == 1..MaxSeeds

\* A run record: which run, and the substrate whose hashes it carries.
Run       == [id : 1..MaxRuns, substrate : Substrates]
RunRecord == [record : Run]

Attested  == [run : Run, manifest : Substrates, anchored : BOOLEAN]

ASSUME MarksAssumed ==
    /\ Absent # Torn /\ Absent # Altered /\ Torn # Altered
    /\ {Absent, Torn, Altered} \cap (Substrates \cup RunRecord \cup Attested) = {}

Probe   == "evidence.json"
Erasure == "erasure-evidence.json"
Slots   == {"pdf", "in_toto", "dsse", "run"}

\* _PACK_SIBLINGS: the siblings each writer emits. An erasure pack has no run record.
Siblings ==
    [ pdf     |-> [p |-> "audit-pack.pdf", e |-> "erasure-attestation.pdf"],
      in_toto |-> [p |-> "attestation.intoto.json", e |-> "erasure-attestation.intoto.json"],
      dsse    |-> [p |-> "evidence.dsse.json", e |-> "erasure-evidence.dsse.json"],
      run     |-> [p |-> "run.json", e |-> ""] ]

Owners == {Probe, Erasure}
OwnSibling(owner, slot) == IF owner = Probe THEN Siblings[slot].p ELSE Siblings[slot].e

SiblingNames == (UNION {{Siblings[s].p, Siblings[s].e} : s \in Slots}) \ {""}
FileNames    == Owners \cup CopyNames \cup SiblingNames

ASSUME CopyNamesAssumed == CopyNames \cap (Owners \cup SiblingNames) = {}

\* _SIBLING_FALLBACK, for a pack whose name is in no table.
Fallback(slot) ==
    IF slot \in {"dsse", "run"} THEN {Siblings[slot].p} ELSE {Siblings[slot].p, Siblings[slot].e}

\* _sibling_names
Candidates(name, slot) ==
    IF name \in Owners THEN {OwnSibling(name, slot)} \ {""} ELSE Fallback(slot)

-----------------------------------------------------------------------------
\* verify_pack, of a pack on its own: an altered one fails its digest, and the
\* manifest hash of the pack must be the run's.
Intact(content) == content \in Attested /\ content.manifest = content.run.substrate

\* _binds_pdf, _binds_in_toto, _binds_dsse, _binds_run_record
Binds(content, slot, pack) ==
    IF slot = "run" THEN content = [record |-> pack.run] ELSE content = pack

\* Fault: a file named as another present pack's sibling is that pack's.
PresentOwner(files, name, file, slot, pack) ==
    IF \E o \in Owners \ {name} : OwnSibling(o, slot) = file /\ files[o] # Absent
    THEN "owned" ELSE "unowned"

\* _owned_elsewhere: whether another pack in the folder, itself verified, binds the
\* file, and is anchored if the pack under test is.
Claim(files, name, file, slot, pack) ==
    LET owners == {o \in Owners \ {name} : /\ OwnSibling(o, slot) = file
                                           /\ Intact(files[o])
                                           /\ Binds(files[file], slot, files[o])}
    IN IF owners = {} THEN "unowned"
       ELSE IF pack.anchored /\ \E o \in owners : ~files[o].anchored THEN "under-anchored"
       ELSE "owned"

Present(files, name, slot) == {f \in Candidates(name, slot) : files[f] # Absent}

Bound(files, name, slot) ==
    {f \in Present(files, name, slot) : Binds(files[f], slot, files[name])}

Claimed(files, name, slot, claim) ==
    {f \in Present(files, name, slot) : Claim(files, name, f, slot, files[name]) = claim}

\* _claimed_siblings: what binds the pack is judged and the rest named; when
\* nothing does, what no present pack claims is.
Judged(files, name, slot) ==
    IF Bound(files, name, slot) # {} THEN Bound(files, name, slot)
    ELSE Claimed(files, name, slot, "unowned")

Unexcused(files, name, slot) ==
    IF Bound(files, name, slot) # {} THEN {} ELSE Claimed(files, name, slot, "under-anchored")

\* A judged document that is not the pack's is called altered. The run record is
\* only ever stated: a later probe rewrites it.
Accused(files, name) ==
    UNION {{f \in Judged(files, name, s) : ~Binds(files[f], s, files[name])} :
               s \in Slots \ {"run"}}

\* The exit code of `verify name`, with or without --allow-unanchored.
VerifyExit(files, name, allow_unanchored) ==
    IF files[name] \in {Absent, Torn} THEN 3
    ELSE IF ~Intact(files[name]) THEN 4
    ELSE IF Accused(files, name) # {} \/ ~(files[name].anchored \/ allow_unanchored) THEN 4
    ELSE IF \E s \in Slots : Unexcused(files, name, s) # {} THEN 3
    ELSE 0

-----------------------------------------------------------------------------
(* verify_bundle.  A bundle is a closed container with a pack, its siblings    *)
(* and, sealed, the ground-truth manifest; members it has not are Absent.     *)

BundlePasses(bundle) ==
    /\ Intact(bundle.evidence)
    /\ Binds(bundle.pdf, "pdf", bundle.evidence)
    /\ \A s \in Slots \ {"pdf"} :
          bundle[s] # Absent => Binds(bundle[s], s, bundle.evidence)
=============================================================================

---------------------------- MODULE ReleaseBundle ----------------------------
(***************************************************************************)
(* release.py: a manifest pins the profiles of a directory, the lock file, *)
(* the evaluation report and the model, and is verified offline later.     *)
(* The service loads whatever profiles the directory holds when it starts. *)
(* A digest stands for what it was made from.                              *)
(***************************************************************************)
EXTENDS ArtifactStore, FiniteSets

CONSTANTS
  ProfileFiles,    \* the *.yaml of the profile directory, in the order of their names
  ProfileIds

ASSUME ReleaseAssumption == ProfileFiles \in Seq(Files)

VARIABLE verdict    \* of the last verification, while nobody has touched a file since

Listed == {ProfileFiles[i] : i \in DOMAIN ProfileFiles}

(* -------------------------- what the team edits ------------------------ *)
(* A profile is fitted again or copied in, another lock file, evaluation   *)
(* or model configuration comes, a profile is withdrawn, the manifest is   *)
(* corrected by hand.                                                      *)
Profile(id) == [kind |-> "profile", id |-> id, stamp |-> Stamp]

Replace == \/ \E f \in Listed, id \in ProfileIds : Do("edit", Overwritten(f, Profile(id)))
           \/ \E f \in {"lock", "evaluation", "model"} : Do("edit", Overwritten(f, [kind |-> f, stamp |-> Stamp]))

Withdraw == \E f \in Listed : ~Has(f, "absent") /\ Do("edit", AtOnce(f, Absent))

Correct == /\ Has("release", "release")
           /\ Do("edit", AtOnce("release", [disk["release"] EXCEPT !.pins.evaluation = Absent]))

(* ------------------------------ release.py ----------------------------- *)
Present == {f \in Listed : ~Has(f, "absent")}

(* The evaluation report is optional, also when its path is given.         *)
Pins(withReport) ==
  [profiles |-> [f \in Present |-> disk[f]], lock |-> disk["lock"], model |-> disk["model"],
   evaluation |-> IF withReport THEN disk["evaluation"] ELSE Absent]

BuildReadable == ~Has("lock", "absent") /\ Has("model", "model")

BuildRelease(withReport) ==
  LET pins == Pins(withReport) IN
  IF BuildReadable
  THEN Do("release", Overwritten("release", [kind |-> "release", pins |-> pins, self |-> pins]))
  ELSE Ask("release")

LockMatches(pins) == disk["lock"] = pins.lock

LenientProfilesMatch(pins) ==
  \A f \in DOMAIN pins.profiles : Has(f, "absent") \/ disk[f] = pins.profiles[f]

ProfilesMatch(pins) ==
  \A f \in DOMAIN pins.profiles : ~Has(f, "absent") /\ disk[f] = pins.profiles[f]

(* Neither the evaluation report nor the model is compared with its pin,   *)
(* and files that are not listed are not looked at.                        *)
Verify ==
  /\ Ask("release")
  /\ verdict' = IF ~Has("release", "release") \/ Has("lock", "absent") THEN "raised"
                ELSE LET pins == disk["release"].pins IN
                     IF LockMatches(pins) /\ ProfilesMatch(pins) /\ disk["release"].self = pins
                     THEN "valid" ELSE "invalid"

(* load_profile_registry: by the id in the file, the last file of an id    *)
(* wins, and what is no profile is passed over.                            *)
Sound == {f \in Listed : Has(f, "profile")}

LastOf(id) == ProfileFiles[CHOOSE i \in DOMAIN ProfileFiles :
  /\ ProfileFiles[i] \in Sound /\ disk[ProfileFiles[i]].id = id
  /\ \A j \in DOMAIN ProfileFiles : j > i /\ ProfileFiles[j] \in Sound => disk[ProfileFiles[j]].id # id]

Registry == [id \in {disk[f].id : f \in Sound} |-> disk[LastOf(id)]]

ReleaseStep ==
  \/ verdict' = "none" /\ (Replace \/ Withdraw \/ Correct \/ \E r \in BOOLEAN : BuildRelease(r))
  \/ Verify
-----------------------------------------------------------------------------
(* What the service would serve after a verification that found the bundle *)
(* valid: the pinned lock file, and under every id a pinned profile,       *)
(* unless a file the manifest does not list brings the id along; and none  *)
(* of the readable profiles that were pinned is gone.                      *)
VerifiedReleaseIsServed ==
  verdict = "valid" =>
    LET pins == disk["release"].pins
        pinned == {pins.profiles[f] : f \in DOMAIN pins.profiles}
        unlisted == {disk[f] : f \in Listed \ DOMAIN pins.profiles}
    IN  /\ disk["lock"] = pins.lock
        /\ \A id \in DOMAIN Registry : Registry[id] \in pinned \cup unlisted
        /\ \A p \in pinned : p.kind = "profile" => p.id \in DOMAIN Registry
        /\ disk["release"].pins = disk["release"].self
=============================================================================

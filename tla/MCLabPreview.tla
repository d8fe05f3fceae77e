---------------------------- MODULE MCLabPreview ----------------------------
(* Small instances of LabPreview: unedited sources, and sources that fail to *)
(* load, crash a slot, hang at once, or hang when another page opens.        *)
EXTENDS LabPreview

CONSTANTS base, faulty, crashing, hanging, lurking, loadError, renderError

MCErrorsIn == [s \in Source |-> IF s = faulty THEN {loadError} ELSE {}]
MCCrashesIn == [s \in Source |-> IF s = crashing THEN {renderError} ELSE {}]
MCHangsNow == Source \cap {hanging}
MCHangsLater == Source \cap {lurking}
=============================================================================

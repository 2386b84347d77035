------------------------------ MODULE Checkout ------------------------------
(***************************************************************************)
(* verify_source of the three case studies, and what they do with the      *)
(* upstream checkout it accepts: one git command or file access after the  *)
(* other, while somebody else may work in the checkout.                    *)
(*                                                                         *)
(* A tracked file holds its blob of the registered commit ("blob"), that   *)
(* blob with CRLF line ends ("crlf"), what "other" commits have instead,   *)
(* or is "edited" (or no regular file).  git status lists the files that   *)
(* are not as HEAD has them and whatever is untracked or ignored.          *)
(***************************************************************************)
EXTENDS FiniteSets, Naturals

CONSTANTS
    ExpectedFiles,  \* EXPECTED_FILES
    BinaryFiles,    \* those of ContextBench that are not among its TEXT_FILES
    Others          \* the other tracked files

ASSUME FilesAssumption == ExpectedFiles \cap Others = {} /\ BinaryFiles \subseteq ExpectedFiles

Studies == {"contextbench", "swebench", "statebench"}
Tracked == ExpectedFiles \cup Others
Contents == {"blob", "crlf", "other", "edited"}
Genuine == {"blob", "crlf"}

VARIABLES
    study,          \* the program that runs
    target,         \* where its output goes: "outside" the checkout or "inside"
    head,           \* whether HEAD is the registered commit
    blobs,          \* the files of which HEAD has other content than registered
    tree,           \* the worktree: Tracked -> Contents
    residue,        \* untracked and ignored files
    pc,             \* "head", "status", "files", "blob", "tree", "import", "write", "ended"
    todo,           \* registered files not verified yet
    current,        \* the one that is being verified, if any
    alien,          \* its extracted blob is another than the registered one
    parsed,         \* registered files with another blob among those returned
    loaded,         \* the imported or read files that are not the registered ones
    disturbed,      \* somebody else has been at work since the program started
    passed          \* how it ended

checkoutVars == <<study, target, head, blobs, tree, residue, pc, todo, current, alien,
                  parsed, loaded, disturbed, passed>>
checkout == <<head, blobs, tree, residue>>
program == <<study, target, pc, todo, current, alien, parsed, loaded, passed>>

TypeOK ==
    /\ study \in Studies /\ target \in {"outside", "inside"}
    /\ head \in BOOLEAN /\ blobs \subseteq Tracked /\ (head => blobs = {})
    /\ tree \in [Tracked -> Contents]
    /\ residue \subseteq {"bytecode", "output", "other"}
    /\ todo \subseteq ExpectedFiles /\ current \subseteq ExpectedFiles /\ alien \in BOOLEAN
    /\ parsed \subseteq ExpectedFiles /\ loaded \subseteq Tracked
    /\ disturbed \in BOOLEAN /\ passed \in BOOLEAN

CheckoutInit ==
    /\ study \in Studies /\ target \in {"outside", "inside"}
    /\ head \in BOOLEAN /\ blobs \in SUBSET Tracked /\ (head => blobs = {})
    /\ tree \in [Tracked -> Contents]
    /\ residue \in SUBSET {"other"}
    /\ pc = "head" /\ todo = ExpectedFiles /\ current = {} /\ alien = FALSE
    /\ parsed = {} /\ loaded = {}
    /\ disturbed = FALSE /\ passed = FALSE

-----------------------------------------------------------------------------
(* ensure_output_targets, in the STATE-Bench generator only *)
TargetAllowed == study = "statebench" => target = "outside"

End(ok) == pc' = "ended" /\ passed' = ok

(* .git is there and rev-parse HEAD gives the registered commit. *)
CheckHead ==
    /\ pc = "head"
    /\ IF TargetAllowed /\ head THEN pc' = "status" /\ UNCHANGED passed ELSE End(FALSE)
    /\ UNCHANGED <<study, target, todo, current, alien, parsed, loaded, disturbed, checkout>>

(* Whether git finds the file as HEAD has it; it may take any for text. *)
Unchanged(f) == IF f \in blobs THEN tree[f] = "other" ELSE tree[f] \in Genuine

(* Mutant: git status is asked about the registered files only. *)
CleanRegistered == (\A f \in ExpectedFiles : Unchanged(f)) /\ residue = {}

(* git status --porcelain=v1 --untracked-files=all --ignored=matching *)
Clean == (\A f \in Tracked : Unchanged(f)) /\ residue = {}

CheckStatus ==
    /\ pc = "status"
    /\ IF Clean THEN pc' = "files" /\ UNCHANGED passed ELSE End(FALSE)
    /\ UNCHANGED <<study, target, todo, current, alien, parsed, loaded, disturbed, checkout>>

(* verify_checked_out_file: the id of HEAD:relative is asked for by the    *)
(* STATE-Bench generator only.                                             *)
LookUp ==
    /\ pc = "files"
    /\ \E f \in todo :
         IF study = "statebench" => f \notin blobs
         THEN current' = {f} /\ pc' = "blob" /\ UNCHANGED passed
         ELSE End(FALSE) /\ UNCHANGED current
    /\ UNCHANGED <<study, target, todo, alien, parsed, loaded, disturbed, checkout>>

(* Mutant: where the id was compared, the hash of the blob is not. *)
HashOrId(f) == study = "statebench" \/ f \notin blobs
HashRegistered(f) == f \notin blobs

(* cat-file: HEAD:relative is looked up again. *)
Extract ==
    /\ pc = "blob"
    /\ \E f \in current :
         IF HashRegistered(f) THEN alien' = (f \in blobs) /\ pc' = "tree" /\ UNCHANGED passed
                              ELSE End(FALSE) /\ UNCHANGED alien
    /\ UNCHANGED <<study, target, todo, current, parsed, loaded, disturbed, checkout>>

(* What the worktree may have of a registered blob: with CRLF line ends    *)
(* only what ContextBench lists as text; the other studies have no more.   *)
Accepted(f) == IF study = "contextbench" /\ f \in BinaryFiles THEN {"blob"} ELSE Genuine

(* The file in the worktree against the extracted blob, which is returned *)
Compare ==
    /\ pc = "tree"
    /\ \E f \in current :
         IF tree[f] \in (IF alien THEN {"other"} ELSE Accepted(f))
         THEN /\ todo' = todo \ {f} /\ current' = {}
              /\ parsed' = IF alien THEN parsed \cup {f} ELSE parsed
              /\ pc' = "files" /\ UNCHANGED passed
         ELSE End(FALSE) /\ UNCHANGED <<todo, current, parsed>>
    /\ UNCHANGED <<study, target, alien, loaded, disturbed, checkout>>

(* What the syntax checks see are the returned blobs. *)
EndFiles ==
    /\ pc = "files" /\ todo = {}
    /\ pc' = IF study = "swebench" THEN "write" ELSE "import"
    /\ UNCHANGED <<study, target, todo, current, alien, parsed, loaded, disturbed, passed, checkout>>

(* Mutant: no study turns the cache off. *)
CachesAlways == TRUE

(* sys.dont_write_bytecode is set by the STATE-Bench generator. *)
Caches == study # "statebench"

(* sys.path.insert(0, root): modules and data are read from the worktree. *)
Import ==
    /\ pc = "import"
    /\ loaded' = {f \in Tracked : tree[f] \notin Accepted(f)}
    /\ residue' = IF Caches THEN residue \cup {"bytecode"} ELSE residue
    /\ pc' = "write"
    /\ UNCHANGED <<study, target, head, blobs, tree, todo, current, alien, parsed, disturbed, passed>>

WriteOutput ==
    /\ pc = "write"
    /\ residue' = IF target = "inside" THEN residue \cup {"output"} ELSE residue
    /\ End(TRUE)
    /\ UNCHANGED <<study, target, head, blobs, tree, todo, current, alien, parsed, loaded, disturbed>>

(* The next program in the same checkout *)
Again ==
    /\ pc = "ended"
    /\ study' \in Studies /\ target' \in {"outside", "inside"}
    /\ pc' = "head" /\ todo' = ExpectedFiles /\ current' = {} /\ alien' = FALSE
    /\ parsed' = {} /\ loaded' = {}
    /\ disturbed' = FALSE /\ passed' = FALSE
    /\ UNCHANGED checkout

(* Somebody checks out a commit, edits a file, adds or removes one. *)
Disturb ==
    /\ \/ /\ head' \in BOOLEAN /\ blobs' \in SUBSET Tracked /\ (head' => blobs' = {})
          /\ UNCHANGED <<tree, residue>>
       \/ /\ \E f \in Tracked, c \in Contents : tree' = [tree EXCEPT ![f] = c]
          /\ UNCHANGED <<head, blobs, residue>>
       \/ residue' \in {{}, {"other"}} /\ UNCHANGED <<head, blobs, tree>>
    /\ disturbed' = TRUE
    /\ UNCHANGED program

Program == CheckHead \/ CheckStatus \/ LookUp \/ Extract \/ Compare \/ EndFiles \/ Import \/ WriteOutput

CheckoutNext == Program \/ Again \/ Disturb

CheckoutSpec == CheckoutInit /\ [][CheckoutNext]_checkoutVars

-----------------------------------------------------------------------------
(* Properties *)

(* What the syntax checks read are registered blobs, although HEAD is      *)
(* looked up again by every command and may have moved since it was        *)
(* checked, and between the id of a blob and the blob.                     *)
ParsedIsRegistered == parsed = {}

(* In a checkout nobody else touched, the code and the data a study reads  *)
(* are the registered commit, not merely its registered files, and the     *)
(* binary ones byte for byte, which neither HEAD nor git status tells.     *)
ImportedIsRegistered == ~disturbed => loaded = {}

(* A STATE-Bench run leaves the checkout as it found it: it can be run     *)
(* again, and none of the other studies is refused because of it.          *)
LeavesNoTrace ==
    [][study = "statebench" /\ Program => UNCHANGED checkout]_checkoutVars
=============================================================================

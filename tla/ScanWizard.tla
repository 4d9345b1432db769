----------------------------- MODULE ScanWizard -----------------------------
(* Scanning a receipt in the web client: a wizard that uploads a photo, has  *)
(* the server read it, lets the user review what was read and saves it as    *)
(* expenses. The answers of the reader and of the bulk creation move the     *)
(* wizard whichever step it is on by then, and outlive the page.             *)
(* A draft is the photo it was read from and what decides if it can be saved.*)
(* Two counts go with it: how often the server has entered its expenses, and *)
(* how many presses of Save were answered, with success or with an error.    *)
EXTENDS Naturals, FiniteSets

CONSTANTS
  Photos,     \* the photos to choose from
  MaxScans,   \* photos being read from disk or by the server at a time
  MaxSaves,   \* bulk creations of the page in flight at a time
  MaxAnswers  \* answers after which the Save of a draft is not pressed again

VARIABLES
  wstep,      \* the step on the screen, "gone" from the page, or "broken"
  photo,      \* the file that is chosen
  draft,      \* what was read, as the user has edited it
  reads,      \* onContinueUpload waiting for the bytes of its file
  scans,      \* scanReceipt calls in flight
  latest,     \* the number of the last scan the page's hook has sent
  saves,      \* bulkCreateExpenses calls in flight that the page has sent
  entered,    \* times the expenses of the draft have been entered
  answered    \* answers to Save the user has had for this draft
wizardVars == <<wstep, photo, draft, reads, scans, latest, saves, entered, answered>>
tally == <<entered, answered>>

ASSUME WizardAssumption ==
  /\ IsFiniteSet(Photos) /\ "none" \notin Photos
  /\ MaxScans \in Nat \ {0} /\ MaxSaves \in Nat \ {0} /\ MaxAnswers \in Nat

Shown == {"upload", "processing", "review", "confirm"}

\* "stale": the photo has been exchanged since this was sent. "alone": no
\* other scan was under way at any time since. "here": sent by the page as it
\* is mounted now.
Scan == [nr : 1..MaxScans, of : Photos, stale : BOOLEAN, alone : BOOLEAN, here : BOOLEAN]
Draft == [of : Photos, stale : BOOLEAN, selected : BOOLEAN, dated : BOOLEAN]
NoDraft == [of |-> "none"]
\* "own": of the draft that is on the page now. "done": entered by the server.
Save == [nr : 1..MaxSaves, own : BOOLEAN, st : {"sent", "done"}]

WizardTypeOK ==
  /\ wstep \in Shown \cup {"gone", "broken"}
  /\ photo \in Photos \cup {"none"}
  /\ draft \in Draft \cup {NoDraft}
  /\ reads \subseteq Scan /\ scans \subseteq Scan
  /\ latest \in 0..MaxScans
  /\ saves \subseteq Save
  /\ entered \in Nat /\ answered \in Nat

WizardInit ==
  /\ wstep = "gone"
  /\ photo = "none" /\ draft = NoDraft
  /\ reads = {} /\ scans = {} /\ latest = 0
  /\ saves = {} /\ entered = 0 /\ answered = 0

-----------------------------------------------------------------------------
\* The page

\* The page opens with a new state. It takes its first target from groups[0]:
\* without any group that breaks.
MountedWith(groups) ==
  /\ wstep' = IF groups = 0 THEN "broken" ELSE "upload"
  /\ photo' = "none" /\ draft' = NoDraft
  /\ latest' = 0
  /\ UNCHANGED <<reads, scans, saves, tally>>

OpenWizard == wstep = "gone" /\ \E groups \in {0, 1} : MountedWith(groups)

\* The component goes, with its state. What is in flight goes on, but the state
\* it would set is no longer there. A bulk creation is carried out or not, and
\* its answer may lead away from whatever page is open: that is followed here
\* no further than LeaveWizard.
Unmounted(cs) == {[c EXCEPT !.here = FALSE] : c \in cs}

GoneTo(step) ==
  /\ wstep' = step
  /\ photo' = "none" /\ draft' = NoDraft /\ latest' = 0
  /\ reads' = Unmounted(reads) /\ scans' = Unmounted(scans)
  /\ saves' = {}
  /\ entered' = 0 /\ answered' = 0

\* Closing it, or any link of the sidebar.
LeaveWizard == wstep # "gone" /\ GoneTo("gone")

-----------------------------------------------------------------------------
\* Upload

\* Chosen, dropped, pasted or removed.
onFileChange(p) ==
  /\ wstep = "upload" /\ p # photo
  /\ photo' = p
  /\ reads' = {[r EXCEPT !.stale = TRUE] : r \in reads}
  /\ scans' = {[s EXCEPT !.stale = TRUE] : s \in scans}
  /\ UNCHANGED <<wstep, draft, latest, saves, tally>>

FreeScans == {n \in 1..MaxScans : \A s \in reads \cup scans : s.nr # n}

\* The mutation hook is pending while the scan it has sent last is.
ScanPending == \E s \in scans : s.here /\ s.nr = latest

\* Continue asks for the bytes of the file and returns: until they are there
\* the step is still "upload" and nothing is pending.
onContinueUpload ==
  /\ wstep = "upload" /\ photo # "none" /\ ~ScanPending
  /\ FreeScans # {}
  /\ LET others == {s \in reads \cup scans : s.here}
         crowd(cs) == {[c EXCEPT !.alone = @ /\ ~c.here] : c \in cs}
     IN /\ reads' = crowd(reads) \cup
                      {[nr |-> CHOOSE n \in FreeScans : \A k \in FreeScans : n <= k, of |-> photo,
                        stale |-> FALSE, alone |-> others = {}, here |-> TRUE]}
        /\ scans' = crowd(scans)
  /\ UNCHANGED <<wstep, photo, draft, latest, saves, tally>>

\* The bytes are there: whatever the user did meanwhile, the page goes to
\* "processing" and the scan is sent, from a page that is gone too.
BytesRead(r) ==
  /\ r \in reads
  /\ reads' = reads \ {r}
  /\ scans' = scans \cup {r}
  /\ IF r.here THEN wstep' = "processing" /\ latest' = r.nr ELSE UNCHANGED <<wstep, latest>>
  /\ UNCHANGED <<photo, draft, saves, tally>>

\* The file cannot be read: the handler throws, and nothing is sent or said.
BytesFail(r) ==
  /\ r \in reads
  /\ reads' = reads \ {r}
  /\ UNCHANGED <<wstep, photo, draft, scans, latest, saves, tally>>

\* Cancel of the processing step: the scan goes on.
CancelProcessing ==
  /\ wstep = "processing"
  /\ wstep' = "upload"
  /\ UNCHANGED <<photo, draft, reads, scans, latest, saves, tally>>

\* The server has read a receipt: the draft is replaced, on any step.
Receipt(s) == [of |-> s.of, stale |-> s.stale, selected |-> TRUE, dated |-> TRUE]

ScanAnswered(s, items) ==
  /\ s \in scans
  /\ scans' = scans \ {s}
  /\ IF s.here
     THEN /\ draft' = [Receipt(s) EXCEPT !.selected = items > 0]
          /\ wstep' = "review"
          /\ saves' = {[c EXCEPT !.own = FALSE] : c \in saves} /\ entered' = 0 /\ answered' = 0
     ELSE UNCHANGED <<draft, wstep, saves, tally>>
  /\ UNCHANGED <<photo, reads, latest>>

\* No receipt in the photo, or the call failed.
ScanFailed(s) ==
  /\ s \in scans
  /\ scans' = scans \ {s}
  /\ wstep' = IF s.here THEN "upload" ELSE wstep
  /\ UNCHANGED <<photo, draft, reads, latest, saves, tally>>

-----------------------------------------------------------------------------
\* Review and confirm

\* Items are selected, added and edited; the date may be cleared.
EditDraft ==
  /\ wstep = "review"
  /\ \E sel, dat \in BOOLEAN : draft' = [draft EXCEPT !.selected = sel, !.dated = dat]
  /\ UNCHANGED <<wstep, photo, reads, scans, latest, saves, tally>>

GoTo(from, to) ==
  /\ wstep = from
  /\ wstep' = to
  /\ UNCHANGED <<photo, draft, reads, scans, latest, saves, tally>>

ReviewBack == GoTo("review", "upload")
ConfirmBack == GoTo("confirm", "review")

\* The confirmation shows the date: without one, showing it throws and the page
\* is replaced by the error screen.
ReviewContinue ==
  /\ wstep = "review" /\ draft # NoDraft /\ draft.selected
  /\ IF draft.dated THEN GoTo("review", "confirm") ELSE GoneTo("broken")

FreeSaves == {n \in 1..MaxSaves : \A s \in saves : s.nr # n}
Saving == saves # {}

\* Mutant: Save can be pressed while an earlier press is being answered.
SaveAlways == wstep = "confirm"

SaveEnabled == wstep = "confirm" /\ ~Saving

onSave ==
  /\ SaveEnabled
  /\ draft.selected
  /\ FreeSaves # {} /\ answered < MaxAnswers
  /\ saves' = saves \cup {[nr |-> CHOOSE n \in FreeSaves : TRUE,
                           own |-> TRUE, st |-> "sent"]}
  /\ UNCHANGED <<wstep, photo, draft, reads, scans, latest, tally>>

\* The server enters the expenses.
BulkCreate(s) ==
  /\ s \in saves /\ s.st = "sent"
  /\ saves' = (saves \ {s}) \cup {[s EXCEPT !.st = "done"]}
  /\ entered' = IF s.own THEN entered + 1 ELSE entered
  /\ UNCHANGED <<wstep, photo, draft, reads, scans, latest, answered>>

\* Saved: the page asks for the group's page and is left when that has loaded,
\* which is LeaveWizard; until then Save can be pressed again. Refused, or
\* entered and the answer lost: a message, and the page stays as it is.
SaveAnswered(s) ==
  /\ s \in saves
  /\ saves' = saves \ {s}
  /\ answered' = IF s.own THEN answered + 1 ELSE answered
  /\ UNCHANGED <<wstep, photo, draft, reads, scans, latest, entered>>

WizardNext ==
  \/ OpenWizard
  \/ LeaveWizard
  \/ \E p \in Photos \cup {"none"} : onFileChange(p)
  \/ onContinueUpload
  \/ CancelProcessing
  \/ \E r \in reads : BytesRead(r) \/ BytesFail(r)
  \/ \E s \in scans : (\E items \in {0, 1} : ScanAnswered(s, items)) \/ ScanFailed(s)
  \/ EditDraft
  \/ ReviewBack
  \/ ReviewContinue
  \/ ConfirmBack
  \/ onSave
  \/ \E s \in saves : BulkCreate(s) \/ SaveAnswered(s)

WizardSpec == WizardInit /\ [][WizardNext]_wizardVars

-----------------------------------------------------------------------------
\* What is reviewed and saved was read from the photo shown beside it, unless
\* the photo was exchanged while the scan was under way.
DraftOfThePhoto ==
  wstep \in {"review", "confirm"} => draft # NoDraft /\ (draft.stale \/ draft.of = photo)

\* A scan that nothing else was under way with never replaces a draft that is
\* being reviewed or saved.
NoLateOverwrite ==
  \A s \in reads \cup scans : s.here /\ s.alone => wstep \in {"upload", "processing"}

\* The expenses of a draft are entered a second time only by a press of Save
\* that followed an answer to the first: never by two presses before either is
\* answered, whatever scan answers, steps back and forth and calls of earlier
\* drafts come between. Once is not promised. After the answer Save is enabled
\* again, also while the group's page is still loading, and after an error the
\* expenses may have been entered all the same.
AgainOnlyAfterAnswer == entered <= answered + 1

\* What the wizard saves is what the user has reviewed, of the photo shown, and
\* again only after an answer.
SavesAreSound == DraftOfThePhoto /\ NoLateOverwrite /\ AgainOnlyAfterAnswer
=============================================================================

---------------------------- MODULE LookupWorker ----------------------------
(***************************************************************************)
(* Looking a word up: DictionaryLookupController and the one task,         *)
(* DictionaryLookupWorker, that all controllers share.  A controller lives *)
(* in its screen and lends the worker a bare pointer to itself; what keeps *)
(* the two apart is owner_, a notification and the controller's flags.     *)
(*                                                                         *)
(* Controllers are numbered by the depth of their screens: word selection  *)
(* below, the definition it opens above it.  Only the topmost takes input. *)
(* A step of either task goes up to its next access to the other's state.  *)
(***************************************************************************)
EXTENDS Integers

CONSTANTS
  Depth,     \* screens that can look up, one over the other
  Words

ASSUME DepthAssumption == Depth \in Nat \ {0}

Controllers == 1..Depth
Nobody == 0
NoWord == "none"

ASSUME WordsAssumption == Words # {} /\ NoWord \notin Words

VARIABLES
  depth,       \* the topmost screen with a controller, Nobody without one
  state,       \* LookupState of each; "Gone" while there is no such screen
  word,        \* lookupWord
  found,       \* foundLocation: the word it answers
  lookupDone, cancelReq,         \* cancelReq: lookupCancelRequested
  lookupCancelled,
  owner,       \* owner_
  notified,    \* the worker's notification
  mainAt,      \* the main loop: "loop", or inside "start", "notify", "wait"
  workerAt, job  \* the worker, and the controller it works for

flagVars == <<lookupDone, cancelReq, lookupCancelled>>
lookupVars == <<depth, state, word, found, flagVars, owner, notified, mainAt, workerAt, job>>

-----------------------------------------------------------------------------
(* The main loop *)

BrokenFreshDone == lookupDone[depth]
FreshDone == FALSE

\* startLookup(), up to DictionaryLookupWorker::start().
StartLookup(w) ==
  /\ mainAt = "loop" /\ depth # Nobody /\ state[depth] = "Idle"
  /\ mainAt' = "start"
  /\ state' = [state EXCEPT ![depth] = "LookingUp"]
  /\ word' = [word EXCEPT ![depth] = w]
  /\ found' = [found EXCEPT ![depth] = NoWord]
  /\ lookupDone' = [lookupDone EXCEPT ![depth] = FreshDone]
  /\ lookupCancelled' = [lookupCancelled EXCEPT ![depth] = FALSE]
  /\ cancelReq' = [cancelReq EXCEPT ![depth] = FALSE]
  /\ UNCHANGED <<depth, owner, notified, workerAt, job>>

\* The exchange on owner_; a busy worker ends in showMemoryErrorAndReset().
ClaimWorker ==
  /\ mainAt = "start"
  /\ IF owner = Nobody
     THEN owner' = depth /\ mainAt' = "notify" /\ UNCHANGED state
     ELSE state' = [state EXCEPT ![depth] = "Idle"] /\ mainAt' = "loop" /\ UNCHANGED owner
  /\ UNCHANGED <<depth, word, found, flagVars, notified, workerAt, job>>

NotifyWorker ==
  /\ mainAt = "notify" /\ mainAt' = "loop"
  /\ notified' = TRUE
  /\ UNCHANGED <<depth, state, word, found, flagVars, owner, workerAt, job>>

\* Back while it looks up, as a button or through requestBack().
RequestCancel ==
  /\ mainAt = "loop" /\ depth # Nobody /\ state[depth] = "LookingUp"
  /\ cancelReq' = [cancelReq EXCEPT ![depth] = TRUE]
  /\ UNCHANGED <<depth, state, word, found, lookupDone, lookupCancelled, owner, notified, mainAt, workerAt, job>>

\* A definition opens in a screen, and with a controller, of its own.
OpenChild ==
  /\ depth' = depth + 1
  /\ state' = [state EXCEPT ![depth] = "Idle", ![depth + 1] = "Idle"]

\* handleInput() once the worker is done: found, not found in one of the ways
\* that end in a prompt, or left to the suggestions and the online dictionary.
CollectResult ==
  /\ mainAt = "loop" /\ depth # Nobody /\ state[depth] = "LookingUp" /\ lookupDone[depth]
  /\ IF cancelReq[depth] \/ lookupCancelled[depth]
     THEN state' = [state EXCEPT ![depth] = "Idle"] /\ UNCHANGED depth
     ELSE \/ depth < Depth /\ OpenChild
          \/ \E s \in {"Idle", "AltFormPrompt", "NotFound", "ReadError"} :
               state' = [state EXCEPT ![depth] = s] /\ UNCHANGED depth
  /\ UNCHANGED <<word, found, flagVars, owner, notified, mainAt, workerAt, job>>

\* A prompt is answered: another form is found, is not, or the prompt is left.
AnswerPrompt ==
  /\ mainAt = "loop" /\ depth # Nobody
  /\ state[depth] \in {"AltFormPrompt", "NotFound", "ReadError"}
  /\ \/ state[depth] = "AltFormPrompt" /\ depth < Depth /\ OpenChild
     \/ /\ state' = [state EXCEPT ![depth] = IF @ = "AltFormPrompt" THEN "NotFound" ELSE "Idle"]
        /\ UNCHANGED depth
     \/ state' = [state EXCEPT ![depth] = "Idle"] /\ UNCHANGED depth
  /\ UNCHANGED <<word, found, flagVars, owner, notified, mainAt, workerAt, job>>

\* onExit() of the topmost screen: it is left, or everything is.
BeginExit ==
  /\ mainAt = "loop" /\ depth # Nobody
  /\ mainAt' = "wait"
  /\ cancelReq' = [cancelReq EXCEPT ![depth] = TRUE]
  /\ UNCHANGED <<depth, state, word, found, lookupDone, lookupCancelled, owner, notified, workerAt, job>>

BrokenOwnerGone == mainAt = "wait"
\* waitForOwner()
OwnerGone == owner # depth

\* The controller is destroyed with its screen.
FinishExit ==
  /\ mainAt = "wait" /\ OwnerGone
  /\ mainAt' = "loop" /\ depth' = depth - 1
  /\ state' = [state EXCEPT ![depth] = "Gone"]
  /\ UNCHANGED <<word, found, flagVars, owner, notified, workerAt, job>>

OpenFirst ==
  /\ mainAt = "loop" /\ depth = Nobody
  /\ depth' = 1 /\ state' = [state EXCEPT ![1] = "Idle"]
  /\ UNCHANGED <<word, found, flagVars, owner, notified, mainAt, workerAt, job>>

-----------------------------------------------------------------------------
(* The worker *)

MainUntouched == UNCHANGED <<depth, state, word, mainAt>>

\* run() wakes and reads owner_.
Wake ==
  /\ workerAt = "sleeps" /\ notified
  /\ notified' = FALSE /\ job' = owner
  /\ workerAt' = IF owner = Nobody THEN "sleeps" ELSE "prepares"
  /\ UNCHANGED <<found, flagVars, owner>> /\ MainUntouched

\* runLookup(): the index is made ready, then it looks whether to go on.
Prepare ==
  /\ workerAt = "prepares"
  /\ workerAt' = IF cancelReq[job] THEN "givesUp" ELSE "locates"
  /\ UNCHANGED <<found, flagVars, owner, notified, job>> /\ MainUntouched

BrokenPublishes == ~cancelReq[job]
\* Both ends of runLookup() publish.
Publishes == TRUE

GiveUp ==
  /\ workerAt = "givesUp" /\ workerAt' = "releases"
  /\ lookupCancelled' = [lookupCancelled EXCEPT ![job] = TRUE]
  /\ lookupDone' = [lookupDone EXCEPT ![job] = Publishes]
  /\ UNCHANGED <<found, cancelReq, owner, notified, job>> /\ MainUntouched

Locate ==
  /\ workerAt = "locates" /\ workerAt' = "publishes"
  /\ found' = [found EXCEPT ![job] = word[job]]
  /\ UNCHANGED <<flagVars, owner, notified, job>> /\ MainUntouched

\* lookupCancelled, then lookupDone: nobody reads the first before the second.
Publish ==
  /\ workerAt = "publishes" /\ workerAt' = "releases"
  /\ lookupCancelled' = [lookupCancelled EXCEPT ![job] = cancelReq[job]]
  /\ lookupDone' = [lookupDone EXCEPT ![job] = TRUE]
  /\ UNCHANGED <<found, cancelReq, owner, notified, job>> /\ MainUntouched

Release ==
  /\ workerAt = "releases" /\ workerAt' = "sleeps"
  /\ owner' = Nobody /\ job' = Nobody
  /\ UNCHANGED <<found, flagVars, notified>> /\ MainUntouched

-----------------------------------------------------------------------------
LookupInit ==
  /\ depth = Nobody /\ state = [c \in Controllers |-> "Gone"]
  /\ word = [c \in Controllers |-> NoWord]
  /\ found = [c \in Controllers |-> NoWord]
  /\ lookupDone = [c \in Controllers |-> FALSE]
  /\ cancelReq = [c \in Controllers |-> FALSE]
  /\ lookupCancelled = [c \in Controllers |-> FALSE]
  /\ owner = Nobody /\ notified = FALSE /\ mainAt = "loop"
  /\ workerAt = "sleeps" /\ job = Nobody

Reader ==
  (\E w \in Words : StartLookup(w)) \/ RequestCancel \/ AnswerPrompt \/ BeginExit \/ OpenFirst
Loop == ClaimWorker \/ NotifyWorker \/ CollectResult \/ FinishExit
Worker == Wake \/ Prepare \/ GiveUp \/ Locate \/ Publish \/ Release

LookupNext == Reader \/ Loop \/ Worker

LookupSpec == LookupInit /\ [][LookupNext]_lookupVars

\* Both tasks are scheduled; what the reader does is up to the reader.
LookupFair == WF_lookupVars(Loop) /\ WF_lookupVars(Worker)

-----------------------------------------------------------------------------
(* Properties *)

LookupTypeOK ==
  /\ depth \in Controllers \cup {Nobody}
  /\ state \in [Controllers -> {"Gone", "Idle", "LookingUp", "AltFormPrompt", "NotFound", "ReadError"}]
  /\ word \in [Controllers -> Words \cup {NoWord}]
  /\ found \in [Controllers -> Words \cup {NoWord}]
  /\ lookupDone \in [Controllers -> BOOLEAN] /\ cancelReq \in [Controllers -> BOOLEAN]
  /\ lookupCancelled \in [Controllers -> BOOLEAN]
  /\ {owner, job} \subseteq Controllers \cup {Nobody} /\ notified \in BOOLEAN
  /\ mainAt \in {"loop", "start", "notify", "wait"}
  /\ workerAt \in {"sleeps", "prepares", "givesUp", "locates", "publishes", "releases"}

AtWork == workerAt \in {"prepares", "givesUp", "locates", "publishes"}

\* While the worker reads and writes a controller, that controller exists and
\* waits for this very answer: its screen is neither destroyed nor, by a next
\* lookup, given new words under the worker's hands.
WorkerOwnsItsLookup ==
  AtWork => /\ job # Nobody
            /\ state[job] = "LookingUp" /\ ~lookupDone[job]

\* The result the main loop is about to act on answers the word it asked for
\* last, not an earlier one.
AnswersThisLookup ==
  \A c \in Controllers :
    state[c] = "LookingUp" /\ lookupDone[c] /\ ~cancelReq[c] /\ ~lookupCancelled[c]
      => found[c] = word[c]

\* A lookup ends, found, failed, cancelled or with its screen, whenever it is
\* cancelled; a screen that leaves in the middle of one is not held up.
LookupsEnd ==
  \A c \in Controllers : state[c] = "LookingUp" ~> state[c] # "LookingUp"
=============================================================================

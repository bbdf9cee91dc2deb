------------------------------ MODULE SedConfirm ------------------------------
(***************************************************************************)
(* The sed tool (internal/tools/sed.go).  A replacement that changes more  *)
(* than thirty lines is carried out only when the same call comes again.   *)
(* What "again" means is one string per process, lastSedSignature: it is   *)
(* compared and set when a call arrives, set or reset once more when the   *)
(* call has counted its lines, and reset when it has written the files.    *)
(* The calls of one round of the model run side by side.                   *)
(***************************************************************************)
EXTENDS Naturals

CONSTANTS
    SedCalls,   \* calls that may be at work at the same time
    Sigs,       \* signatures: pattern, replacement and pathspec
    MaxSeds     \* bound: calls, and changes of the files by others

VARIABLES
    lastSedSignature,
    wouldChange, \* per signature: "none", "few" or "many" (over 30) lines
    spc,         \* per call: "idle", "walk", "apply"
    sig, confirm,
    counted,     \* per call: what the dry run has found
    entitled,    \* history, per call: when it arrived, the latest answer had
                 \* been the request to invoke this signature again
    asked,       \* history: the signature that the latest answer asked to
                 \* invoke again, or NoSig
    abreast,     \* history: calls have been at work side by side since the
                 \* state was last clean
    seds         \* calls and changes so far

sedVars == <<lastSedSignature, wouldChange, spc, sig, confirm, counted, entitled,
             asked, abreast, seds>>

NoSig == "none"
Lines == {"none", "few", "many"}

SedInit ==
    /\ lastSedSignature = NoSig
    /\ wouldChange \in [Sigs -> Lines]
    /\ spc = [c \in SedCalls |-> "idle"]
    /\ sig = [c \in SedCalls |-> NoSig]
    /\ confirm = [c \in SedCalls |-> FALSE]
    /\ counted = [c \in SedCalls |-> "none"]
    /\ entitled = [c \in SedCalls |-> FALSE]
    /\ asked = NoSig
    /\ abreast = FALSE
    /\ seds = 0

SedGoto(c, from, to) == spc[c] = from /\ spc' = [spc EXCEPT ![c] = to]

(* What a call leaves behind when it is answered; the state is clean when no
   call is at work and no signature is kept. *)
SedAnswer(c, request, last) ==
    /\ SedGoto(c, spc[c], "idle")
    /\ lastSedSignature' = last
    /\ asked' = request
    /\ sig' = [sig EXCEPT ![c] = NoSig]
    /\ confirm' = [confirm EXCEPT ![c] = FALSE]
    /\ counted' = [counted EXCEPT ![c] = "none"]
    /\ entitled' = [entitled EXCEPT ![c] = FALSE]
    /\ abreast' = (abreast /\ ~(last = NoSig /\ \A x \in SedCalls \ {c} :
                                                     spc[x] = "idle"))

-----------------------------------------------------------------------------
(* The files are changed by another tool, an editor, a build. *)
FilesChange ==
    /\ seds < MaxSeds
    /\ seds' = seds + 1
    /\ \E s \in Sigs, n \in Lines : wouldChange' = [wouldChange EXCEPT ![s] = n]
    /\ UNCHANGED <<lastSedSignature, spc, sig, confirm, counted, entitled, asked,
                   abreast>>

(* A pattern that is no regular expression is refused before this. *)
SedArrives(c, s) ==
    /\ seds < MaxSeds
    /\ seds' = seds + 1
    /\ SedGoto(c, "idle", "walk")
    /\ sig' = [sig EXCEPT ![c] = s]
    /\ confirm' = [confirm EXCEPT ![c] = (lastSedSignature = s)]
    /\ lastSedSignature' = s
    /\ entitled' = [entitled EXCEPT ![c] = (asked = s)]
    /\ abreast' = (abreast \/ \E x \in SedCalls : spc[x] # "idle")
    /\ UNCHANGED <<wouldChange, counted, asked>>

(* The dry run: nothing to do, the request, or on to the files. *)
DryRun(c) ==
    /\ spc[c] = "walk"
    /\ LET n == wouldChange[sig[c]]
       IN \/ /\ n = "none"
             /\ SedAnswer(c, NoSig, NoSig)
          \/ /\ n = "many" /\ ~confirm[c]
             /\ SedAnswer(c, sig[c], sig[c])
          \/ /\ n = "few" \/ (n = "many" /\ confirm[c])
             /\ SedGoto(c, "walk", "apply")
             /\ counted' = [counted EXCEPT ![c] = n]
             /\ UNCHANGED <<lastSedSignature, sig, confirm, entitled, asked,
                            abreast>>
    /\ UNCHANGED <<wouldChange, seds>>

(* Bug: the signature is kept. *)
ApplyKeeps(c) ==
    /\ spc[c] = "apply"
    /\ \E n \in Lines : wouldChange' = [wouldChange EXCEPT ![sig[c]] = n]
    /\ SedAnswer(c, NoSig, lastSedSignature)
    /\ UNCHANGED seds

(* The files are read again and written one by one; the new text may match
   the pattern in its turn. *)
Apply(c) ==
    /\ spc[c] = "apply"
    /\ \E n \in Lines : wouldChange' = [wouldChange EXCEPT ![sig[c]] = n]
    /\ SedAnswer(c, NoSig, NoSig)
    /\ UNCHANGED seds

SedNext ==
    \/ FilesChange
    \/ \E c \in SedCalls :
          DryRun(c) \/ Apply(c) \/ \E s \in Sigs : SedArrives(c, s)

SedSpec == SedInit /\ [][SedNext]_sedVars

-----------------------------------------------------------------------------
(* A replacement that was counted at more than thirty lines is carried out
   only when the call before it was answered with the request to invoke the
   same again, unless calls have been at work side by side: then the second of
   two equal calls passes for the confirmation of the first, which nobody has
   seen the answer of.  (sed.go:43-49, 109-126.) *)
LargeOnlyConfirmed ==
    ~abreast => \A c \in SedCalls :
        spc[c] = "apply" /\ counted[c] = "many" => entitled[c]

(* What was last answered and what is kept agree when no call is at work. *)
SedStateAgrees ==
    ~abreast /\ (\A c \in SedCalls : spc[c] = "idle")
        => lastSedSignature = asked
=============================================================================

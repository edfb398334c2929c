------------------------------ MODULE SalesRequest ------------------------------
(***************************************************************************)
(* The sales request form: a page in the browser with requests in flight,  *)
(* and the server instances with their maps of CSRF tokens, phone codes,   *)
(* verifications and stored requests, each in the memory of one instance.  *)
(*                                                                         *)
(* A verification belongs to the challenge it came from and is named by it.*)
(***************************************************************************)
EXTENDS Naturals, FiniteSets

CONSTANTS
    Instances,
    Forms,          \* pages opened; each has its own idempotency key
    Handoffs,       \* signed links into the form
    Phones,
    Challenges,     \* codes that are ever sent
    None,
    MaxAttempts,    \* five in the code
    MaxInFlight,    \* exchanges one page has under way, at most
    Faults          \* subset of {"loss", "expiry", "refusal", "restart"}

ASSUME MaxAttemptsPositive == MaxAttempts \in Nat \ {0}
ASSUME MaxInFlightPositive == MaxInFlight \in Nat \ {0}
VARIABLES
    page,           \* the forms, as the browser shows them
    wires,          \* requests and answers in flight
    csrf,           \* the instance that would accept a form's token
    challenges,
    verifications,
    records         \* the stored requests

browserVars == <<page, wires>>
serverVars  == <<csrf, challenges, verifications, records>>
vars == <<browserVars, serverVars>>

Page ==
    [handoff   : Handoffs \cup {None},
     phone     : Phones \cup {None},
     challenge : Challenges \cup {None},
     token     : Challenges \cup {None},
     waiting   : BOOLEAN,
     status    : {"closed", "ready", "sending", "success", "duplicate", "error"}]

Challenge ==
    [at : Instances, phone : Phones, handoff : Handoffs, attempts : 0..MaxAttempts + 1,
     verified : BOOLEAN, expired : BOOLEAN]

ASSUME NoneIsNew ==
    None \notin Instances \cup Handoffs \cup Phones \cup Challenges \cup Challenge

Record == [form : Forms, phone : Phones, handoff : Handoffs, token : Challenges, at : Instances]

Question ==
    [op : {"send"}, form : Forms, phone : Phones]
        \cup [op : {"verify"}, form : Forms, challenge : Challenges, right : BOOLEAN]
        \cup [op : {"submit"}, form : Forms, phone : Phones, token : Challenges]

Reply ==
    [op : {"sent", "verified"}, form : Forms, challenge : Challenges]
        \cup [op : {"notSent", "notVerified", "success", "duplicate", "refused", "lost"},
              form : Forms]

TypeOK ==
    /\ page \in [Forms -> Page]
    /\ wires \subseteq Question \cup Reply
    /\ csrf \in [Forms -> Instances \cup {None}]
    /\ challenges \in [Challenges -> Challenge \cup {None}]
    /\ \A c \in Challenges :
        challenges[c] # None /\ challenges[c].verified => challenges[c].attempts \in 1..MaxAttempts
    /\ verifications \in [Challenges -> {"none", "fresh", "used", "expired"}]
    /\ records \subseteq Record

Init ==
    /\ page = [f \in Forms |-> [handoff |-> None, phone |-> None, challenge |-> None,
                                token |-> None, waiting |-> FALSE, status |-> "closed"]]
    /\ wires = {}
    /\ csrf = [f \in Forms |-> None]
    /\ challenges = [c \in Challenges |-> None]
    /\ verifications = [c \in Challenges |-> "none"]
    /\ records = {}

Shows(f) == page[f].status \in {"ready", "sending", "error"}

\* Two equal requests of a page are one here.
MaySend(f) == Cardinality({w \in wires : w.form = f}) < MaxInFlight

-----------------------------------------------------------------------------
(* The page.                                                               *)

\* The page is opened and the server answers with a CSRF token.
Open(f, h, i) ==
    /\ page[f].status = "closed"
    /\ page' = [page EXCEPT ![f].handoff = h, ![f].status = "ready"]
    /\ csrf' = [csrf EXCEPT ![f] = i]
    /\ UNCHANGED <<wires, challenges, verifications, records>>

\* A new number forgets code and verification, and allows another code to be
\* asked for: what is in flight is not recalled.
TypePhone(f, p) ==
    /\ Shows(f)
    /\ p # page[f].phone
    /\ page' = [page EXCEPT ![f].phone = p, ![f].challenge = None, ![f].token = None,
                            ![f].waiting = FALSE]
    /\ UNCHANGED <<wires, serverVars>>

AskCode(f) ==
    /\ Shows(f) /\ MaySend(f)
    /\ page[f].phone # None /\ page[f].challenge = None /\ page[f].token = None
    /\ ~page[f].waiting
    /\ page' = [page EXCEPT ![f].waiting = TRUE]
    /\ wires' = wires \cup {[op |-> "send", form |-> f, phone |-> page[f].phone]}
    /\ UNCHANGED serverVars

\* The code is typed, rightly or not.
EnterCode(f, right) ==
    /\ Shows(f) /\ MaySend(f)
    /\ page[f].challenge # None /\ page[f].token = None
    /\ ~page[f].waiting
    /\ page' = [page EXCEPT ![f].waiting = TRUE]
    /\ wires' = wires \cup {[op |-> "verify", form |-> f, challenge |-> page[f].challenge,
                             right |-> right]}
    /\ UNCHANGED serverVars

Submit(f) ==
    /\ page[f].status \in {"ready", "error"} /\ MaySend(f)
    /\ page[f].phone # None /\ page[f].token # None
    /\ page' = [page EXCEPT ![f].status = "sending"]
    /\ wires' = wires \cup {[op |-> "submit", form |-> f, phone |-> page[f].phone,
                             token |-> page[f].token]}
    /\ UNCHANGED serverVars

\* The page takes an answer for what it is, whatever has been typed since.
Shown(p, w) ==
    CASE w.op = "sent" -> [p EXCEPT !.challenge = w.challenge, !.token = None, !.waiting = FALSE]
      [] w.op = "verified" -> [p EXCEPT !.token = w.challenge, !.waiting = FALSE]
      [] w.op \in {"notSent", "notVerified"} -> [p EXCEPT !.waiting = FALSE]
      [] w.op \in {"success", "duplicate"} -> [p EXCEPT !.status = w.op]
      [] w.op \in {"refused", "lost"} -> [p EXCEPT !.status = "error"]

Receive(w) ==
    /\ w \in Reply
    /\ page' = [page EXCEPT ![w.form] = Shown(@, w)]
    /\ wires' = wires \ {w}
    /\ UNCHANGED serverVars

\* What the page is told of an exchange that failed.
Failure(w) ==
    [op |-> CASE w.op \in {"send", "sent"} -> "notSent"
              [] w.op \in {"verify", "verified"} -> "notVerified"
              [] w.op \in {"submit", "success", "duplicate", "refused"} -> "lost",
     form |-> w.form]

\* A request never arrives, or its answer does not.
Lose(w) ==
    /\ "loss" \in Faults
    /\ w.op \notin {"notSent", "notVerified", "lost"}
    /\ wires' = (wires \ {w}) \cup {Failure(w)}
    /\ UNCHANGED <<page, serverVars>>

-----------------------------------------------------------------------------
(* The server.                                                             *)

Answer(w, reply) == wires' = (wires \ {w}) \cup {reply}

\* Too many codes for one number are turned down; a message that cannot be sent
\* leaves a challenge nobody knows of.
IssueCode(w, c, i) ==
    /\ w.op = "send"
    /\ \/ /\ challenges[c] = None
          /\ challenges' = [challenges EXCEPT ![c] =
                [at |-> i, phone |-> w.phone, handoff |-> page[w.form].handoff, attempts |-> 0,
                 verified |-> FALSE, expired |-> FALSE]]
          /\ \/ Answer(w, [op |-> "sent", form |-> w.form, challenge |-> c])
             \/ Answer(w, [op |-> "notSent", form |-> w.form])
       \/ /\ "refusal" \in Faults
          /\ Answer(w, [op |-> "notSent", form |-> w.form])
          /\ UNCHANGED challenges
    /\ UNCHANGED <<page, csrf, verifications, records>>

\* A challenge that takes part in a check.
Live(c, h, i) ==
    /\ challenges[c] # None
    /\ challenges[c].at = i /\ challenges[c].handoff = h
    /\ ~challenges[c].verified /\ ~challenges[c].expired

\* The right code is accepted however often it was guessed before.
TryCountsNot(c) == TRUE

\* The counter is raised before it is compared; one beyond its limit its value
\* says no more.
TryCounts(c) == challenges[c].attempts + 1 <= MaxAttempts

CheckCode(w, i) ==
    /\ w.op = "verify"
    /\ LET c == w.challenge
           live == Live(c, page[w.form].handoff, i)
           ok == live /\ TryCounts(c) /\ w.right IN
        /\ challenges' =
            IF live
            THEN [challenges EXCEPT
                    ![c].attempts = IF @ <= MaxAttempts THEN @ + 1 ELSE @, ![c].verified = ok]
            ELSE challenges
        /\ verifications' = IF ok THEN [verifications EXCEPT ![c] = "fresh"] ELSE verifications
        /\ Answer(w, IF ok THEN [op |-> "verified", form |-> w.form, challenge |-> c]
                           ELSE [op |-> "notVerified", form |-> w.form])
    /\ UNCHANGED <<page, csrf, records>>

\* Any verification of the handoff will do.
ConsumableByAnyone(w, i) ==
    /\ verifications[w.token] = "fresh"
    /\ challenges[w.token].at = i /\ challenges[w.token].handoff = page[w.form].handoff

Consumable(w, i) ==
    /\ verifications[w.token] = "fresh"
    /\ challenges[w.token].at = i /\ challenges[w.token].handoff = page[w.form].handoff
    /\ challenges[w.token].phone = w.phone

Stored(f, i) == {r \in records : r.form = f /\ r.at = i}

\* The CSRF token is deleted first and whatever happens next.  The rate, the
\* handoff's age and the fields may be refused at once, a changed summary or a
\* missing dealer only when the verification is used up.
CreateRequest(w, i) ==
    /\ w.op = "submit"
    /\ csrf' = [csrf EXCEPT ![w.form] = IF @ = i THEN None ELSE @]
    /\ \/ /\ \/ "refusal" \in Faults
             \/ csrf[w.form] # i
             \/ Stored(w.form, i) = {} /\ ~Consumable(w, i)
          /\ Answer(w, [op |-> "refused", form |-> w.form])
          /\ UNCHANGED <<verifications, records>>
       \/ /\ csrf[w.form] = i
          /\ Stored(w.form, i) # {}
          /\ Answer(w, [op |-> "duplicate", form |-> w.form])
          /\ UNCHANGED <<verifications, records>>
       \/ /\ csrf[w.form] = i
          /\ Stored(w.form, i) = {}
          /\ Consumable(w, i)
          /\ verifications' = [verifications EXCEPT ![w.token] = "used"]
          /\ \/ /\ records' = records \cup
                      {[form |-> w.form, phone |-> w.phone, handoff |-> page[w.form].handoff,
                        token |-> w.token, at |-> i]}
                /\ Answer(w, [op |-> "success", form |-> w.form])
             \/ /\ "refusal" \in Faults
                /\ Answer(w, [op |-> "refused", form |-> w.form])
                /\ UNCHANGED records
    /\ UNCHANGED <<page, challenges>>

\* Five minutes for a code, thirty for a verification and a CSRF token.
ExpireCode(c) ==
    /\ "expiry" \in Faults
    /\ challenges[c] # None /\ ~challenges[c].expired
    /\ challenges' = [challenges EXCEPT ![c].expired = TRUE]
    /\ UNCHANGED <<browserVars, csrf, verifications, records>>

ExpireVerification(c) ==
    /\ "expiry" \in Faults
    /\ verifications[c] = "fresh"
    /\ verifications' = [verifications EXCEPT ![c] = "expired"]
    /\ UNCHANGED <<browserVars, csrf, challenges, records>>

ExpireCsrf(f) ==
    /\ "expiry" \in Faults
    /\ csrf[f] # None
    /\ csrf' = [csrf EXCEPT ![f] = None]
    /\ UNCHANGED <<browserVars, challenges, verifications, records>>

\* An instance is recycled with all it knows; an unknown challenge is like one
\* that has expired.
Restart(i) ==
    /\ "restart" \in Faults
    /\ csrf' = [f \in Forms |-> IF csrf[f] = i THEN None ELSE csrf[f]]
    /\ challenges' = [c \in Challenges |->
                         IF challenges[c] # None /\ challenges[c].at = i
                         THEN [challenges[c] EXCEPT !.expired = TRUE] ELSE challenges[c]]
    /\ verifications' = [c \in Challenges |->
                            IF verifications[c] = "fresh" /\ challenges[c].at = i
                            THEN "expired" ELSE verifications[c]]
    /\ records' = {r \in records : r.at # i}
    /\ UNCHANGED browserVars

-----------------------------------------------------------------------------
Next ==
    \/ \E f \in Forms :
        \/ \E h \in Handoffs, i \in Instances : Open(f, h, i)
        \/ \E p \in Phones : TypePhone(f, p)
        \/ \E right \in BOOLEAN : EnterCode(f, right)
        \/ AskCode(f) \/ Submit(f) \/ ExpireCsrf(f)
    \/ \E w \in wires :
        \/ Receive(w) \/ Lose(w)
        \/ \E i \in Instances : CheckCode(w, i) \/ CreateRequest(w, i)
        \/ \E i \in Instances, c \in Challenges : IssueCode(w, c, i)
    \/ \E c \in Challenges : ExpireCode(c) \/ ExpireVerification(c)
    \/ \E i \in Instances : Restart(i)

Spec == Init /\ [][Next]_vars

-----------------------------------------------------------------------------
(* Safety.                                                                 *)

\* A stored request names a phone whose owner entered the code that was sent to
\* it, for the link the request came from, on the instance that keeps it: also
\* when the number was changed while an answer for the old one was under way.
StoredPhoneWasVerified ==
    \A r \in records :
        LET c == challenges[r.token] IN
        /\ c # None
        /\ c.verified /\ c.phone = r.phone /\ c.handoff = r.handoff /\ c.at = r.at

\* A code that was guessed wrongly five times is never accepted.
ExhaustedStaysOpen ==
    [][\A c \in Challenges :
        challenges[c] # None /\ challenges[c].attempts >= MaxAttempts /\ ~challenges[c].verified
            => ~challenges'[c].verified]_vars

\* The documentation says that a repeated form returns to the same request: one
\* that is stored is never refused to the page that sent it.
RepeatIsRecognized ==
    \A w \in wires : w.op = "refused" => \A r \in records : r.form # w.form
=================================================================================

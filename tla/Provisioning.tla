---------------------------- MODULE Provisioning ----------------------------
(***************************************************************************)
(* Provisioning of the pilot's telephone number                            *)
(* (scripts/provision_retell.py): each run of the script lists the numbers *)
(* of the Retell account page by page, updates the one that is configured, *)
(* or buys one if the operator confirmed it.  Retell is external: it owns  *)
(* the numbers, a request may be carried out although its answer is lost   *)
(* or comes too late, and the script is then run again.                    *)
(***************************************************************************)
EXTENDS Naturals

CONSTANTS
  Runs, Numbers, Keys,
  None,
  Settings    \* what the runs may be configured with, and find

Types == {"retell-twilio", "retell-telnyx"}

\* What Retell says of a number it has sold us.  A field that the settings name
\* is as they ask for it, different, or not set.
Fields == {"type", "agents", "nickname", "fallback"}
Phones == [Fields -> Types \union {"ours", "other", "none"}]

\* RETELL_PHONE_NUMBER or None, whether RETELL_FALLBACK_NUMBER is set, and what
\* the account holds before the first run.
Setting == [number : Numbers \union {None}, fallback : BOOLEAN,
            account : [Numbers -> Phones \union {None}]]

\* What a run that has done its work reports.
Successes == {"unchanged", "updated", "purchased"}

ConfigAssumption ==
  /\ Settings \subseteq Setting
  /\ None \notin Numbers \union Keys \union Phones \union Successes

VARIABLES
  setting,    \* the one all runs have
  account,    \* Retell: the numbers it has sold us and what they are bound to
  run,        \* per run of the script: where it is and what it has read
  sent,       \* requests that write and have not been carried out: {<<run, kind>>}
  answer      \* per run: Retell's answer to such a request, or None

vars == <<setting, account, run, sent, answer>>

Configured == setting.number
HasFallback == setting.fallback

Bindings == {"agents", "nickname"} \union (IF HasFallback THEN {"fallback"} ELSE {})

\* The fields of build_update_phone_payload all have the configured value.
Desired == [field \in Bindings |-> "ours"]

NotStarted == [pc |-> "new", buy |-> FALSE, owned |-> FALSE, existing |-> None,
               twice |-> FALSE, keys |-> {}, result |-> None]

Init ==
  /\ setting \in Settings
  /\ account = setting.account
  /\ run = [r \in Runs |-> NotStarted]
  /\ sent = {}
  /\ answer = [r \in Runs |-> None]

Finish(r, result) == run' = [run EXCEPT ![r].pc = "done", ![r].result = result]
Owned == {n \in Numbers : account[n] # None}
Bought == {n \in Owned : setting.account[n] = None}

-----------------------------------------------------------------------------
\* from_env: settings that agree with each other (Configured and HasFallback
\* are what they say), and a key if Retell will be called.
Accepts(consistent, key, apply) == consistent /\ (apply => key)

\* main: without --apply, a plan; with it, a client and the first page.
Begin(r, apply, confirm) ==
  /\ run[r].pc = "new"
  /\ \E consistent, key \in BOOLEAN :
     IF ~Accepts(consistent, key, apply) THEN Finish(r, "error")
     ELSE IF apply THEN run' = [run EXCEPT ![r].pc = "list", ![r].buy = confirm,
                                        ![r].owned = Configured \in Owned]
     ELSE Finish(r, "planned")
  /\ UNCHANGED <<setting, account, sent, answer>>

SeenKeys(r, key) == run[r].keys \union {key}

\* One page of list_phone_numbers.  hit: the configured number is on it; Retell
\* says that there is no more only when the page or one before had it, if it
\* was there when the listing began.
Page(r, hit, more, key) ==
  LET known == run[r].existing # None
      next == [run[r] EXCEPT !.existing = IF hit /\ ~known THEN account[Configured] ELSE @,
                             !.twice = @ \/ (hit /\ known)]
  IN  /\ run[r].pc = "list"
      /\ hit => Configured \in Owned
      /\ ~more /\ run[r].owned => hit \/ known
      /\ IF ~more THEN run' = [run EXCEPT ![r] = [next EXCEPT !.pc = "decide"]]
         ELSE IF key = None \/ key \in run[r].keys THEN Finish(r, "error")
         ELSE run' = [run EXCEPT ![r] = [next EXCEPT !.keys = SeenKeys(r, key)]]
      /\ UNCHANGED <<setting, account, sent, answer>>

\* compute_update_changes
Changes(existing) == {f \in Bindings : existing[f] # Desired[f]}

Send(r, kind) ==
  /\ run' = [run EXCEPT ![r].pc = kind]
  /\ sent' = sent \union {<<r, kind>>}

\* --confirm-purchase
MayBuy(r) == run[r].buy

\* execute, once the account is listed.
Decide(r) ==
  LET x == run[r]
  IN  /\ x.pc = "decide"
      /\ IF x.existing = None
         THEN IF MayBuy(r) THEN Send(r, "create") ELSE Finish(r, "refused") /\ UNCHANGED sent
         ELSE IF x.twice \/ x.existing.type \notin Types THEN Finish(r, "error") /\ UNCHANGED sent
         ELSE IF Changes(x.existing) = {} THEN Finish(r, "unchanged") /\ UNCHANGED sent
         ELSE Send(r, "update")
      /\ UNCHANGED <<setting, account, answer>>

-----------------------------------------------------------------------------
(* Retell carries a request out, once, whether or not the run still waits. *)

Bound(number) == [f \in Fields |-> IF f \in Bindings THEN Desired[f] ELSE number[f]]
New == [f \in Fields |-> CASE f \in Bindings -> Desired[f] [] f = "type" -> "retell-twilio" [] OTHER -> "none"]

\* build_create_phone_payload: the exact number if there is one, else a country.
\* A number is sold once.
Offered == (IF Configured # None THEN {Configured} ELSE Numbers) \ Owned

Update(r) ==
  /\ <<r, "update">> \in sent
  /\ account' = [account EXCEPT ![Configured] = Bound(@)]
  /\ sent' = sent \ {<<r, "update">>}
  /\ answer' = [answer EXCEPT ![r] = Configured]
  /\ UNCHANGED <<setting, run>>

Sell(r, n) ==
  /\ <<r, "create">> \in sent /\ n \in Offered
  /\ account' = [account EXCEPT ![n] = New]
  /\ sent' = sent \ {<<r, "create">>}
  /\ answer' = [answer EXCEPT ![r] = n]
  /\ UNCHANGED <<setting, run>>

\* Retell refuses the request, or it never arrives.
Refuse(r, kind) ==
  /\ <<r, kind>> \in sent
  /\ sent' = sent \ {<<r, kind>>}
  /\ UNCHANGED <<setting, account, run, answer>>

\* The answer arrives; its number and type must be those that were asked for,
\* and garbled stands for one that is not what the API documents.
Answered(r, garbled) ==
  /\ run[r].pc \in {"update", "create"} /\ answer[r] # None
  /\ Finish(r, IF garbled \/ (Configured # None /\ answer[r] # Configured) THEN "error"
               ELSE IF run[r].pc = "update" THEN "updated" ELSE "purchased")
  /\ UNCHANGED <<setting, account, sent, answer>>

\* As below, with a purchase tried again.
FailAndRetry(r) ==
  /\ run[r].pc \in {"list", "update", "create"}
  /\ IF run[r].pc = "create" THEN run' = [run EXCEPT ![r].pc = "decide"] ELSE Finish(r, "error")
  /\ UNCHANGED <<setting, account, sent, answer>>

\* A timeout, a broken connection or an HTTP error, at any request.
Fail(r) ==
  /\ run[r].pc \in {"list", "update", "create"}
  /\ Finish(r, "error")
  /\ UNCHANGED <<setting, account, sent, answer>>

Listing(r) == \E hit, more \in BOOLEAN, key \in Keys \union {None} : Page(r, hit, more, key)

Next ==
  \E r \in Runs :
    \/ \E apply, confirm \in BOOLEAN : Begin(r, apply, confirm)
    \/ Listing(r)
    \/ Decide(r)
    \/ Update(r)
    \/ \E n \in Numbers : Sell(r, n)
    \/ \E kind \in {"update", "create"} : Refuse(r, kind)
    \/ \E garbled \in BOOLEAN : Answered(r, garbled)
    \/ Fail(r)

Spec == Init /\ [][Next]_vars
-----------------------------------------------------------------------------
(* The bindings of a number are those that the settings ask for.           *)
IsOurs(number) == \A f \in Bindings : number[f] = Desired[f]
=============================================================================

---------------------------- MODULE StripeWebhook ----------------------------
(***************************************************************************)
(* The Stripe webhook of one organisation: the events Stripe delivers      *)
(* until one delivery is acknowledged, the instances of the application    *)
(* that handle the deliveries (services/stripe_webhook_service.py), and    *)
(* the rows they share, of processed_stripe_events, billing_accounts and   *)
(* billing_audit_events (db/phase2_store.py, the Supabase repositories).   *)
(*                                                                         *)
(* The route is asynchronous and its handler is not, so an instance        *)
(* handles one delivery at a time; several instances run side by side.     *)
(***************************************************************************)
EXTENDS Naturals, FiniteSets, Sequences

CONSTANTS
    Instance,       \* instances of the application
    Events,         \* number of events; they are numbered in the order Stripe created them
    Kind,           \* what an event is about
    InvoiceOf,      \* the invoice an invoice event is about
    NamesOrg,       \* the events whose metadata carries the org_id
    RecentLimit,    \* how many invoices an account lists (10)
    MaxFaults,      \* bound: exceptions raised while a delivery is handled
    MaxCrashes,     \* bound: instances that die in a delivery
    MaxOverlaps     \* bound: deliveries begun while another one of the event is handled

Event == 1..Events
None == 0

ASSUME ConstantsAssumption ==
    /\ Events \in Nat \ {0} /\ RecentLimit \in Nat \ {0}
    /\ Kind \in [Event -> {"subscription", "invoice", "quote"}]
    /\ NamesOrg \subseteq Event
    /\ MaxFaults \in Nat /\ MaxCrashes \in Nat /\ MaxOverlaps \in Nat

\* processing_status; the row of an event nobody has claimed is absent.
Status == {"absent", "claimed", "failed", "processed"}

\* A billing account, by the events its columns come from.
NoAccount == [bound |-> FALSE, subscription |-> None, quote |-> None,
              invoices |-> <<>>, synced |-> None]

\* Its columns hold events.
Account == [bound : BOOLEAN, subscription : Event \cup {None}, quote : Event \cup {None},
            invoices : Seq(Event), synced : Event \cup {None}]

\* The steps of process_event inside its try block, and all of them.
Processing == {"read", "lookup", "store", "audit"}
Step == Processing \cup {"idle", "resolve", "claim", "mark", "fail", "answer"}

VARIABLES
    status,         \* processed_stripe_events
    account,        \* the billing account of the organisation
    audit,          \* the audit events appended, per Stripe event
    step,           \* where an instance stands; its locals are:
    event,          \*   the event delivered
    org,            \*   an org_id was resolved for it
    before,         \*   account_before, which the patch is computed from
    existing,       \*   the row the upsert has looked up
    acked,          \* events Stripe has seen an answer 200 for
    faults, crashes, overlaps,  \* what the environment has used of its bounds
    raced,          \* the account was written over a row another instance had changed
    stranded        \* events whose claim its holder has left behind

rows == <<status, account, audit>>
locals == <<event, org, before, existing>>
environment == <<acked, faults, crashes, overlaps, stranded, raced>>
vars == <<rows, step, locals, environment>>

Init ==
    /\ status = [e \in Event |-> "absent"]
    /\ account = NoAccount
    /\ audit = [e \in Event |-> 0]
    /\ step = [i \in Instance |-> "idle"]
    /\ event = [i \in Instance |-> None]
    /\ org = [i \in Instance |-> FALSE]
    /\ before = [i \in Instance |-> NoAccount]
    /\ existing = [i \in Instance |-> NoAccount]
    /\ acked = {} /\ faults = 0 /\ crashes = 0 /\ overlaps = 0
    /\ stranded = {} /\ raced = FALSE

At(i, s) == step[i] = s
Go(i, s) == step' = [step EXCEPT ![i] = s]

\* The request ends; its locals go with it.
End(i) ==
    /\ Go(i, "idle")
    /\ event' = [event EXCEPT ![i] = None]
    /\ org' = [org EXCEPT ![i] = FALSE]
    /\ before' = [before EXCEPT ![i] = NoAccount]
    /\ existing' = [existing EXCEPT ![i] = NoAccount]

-----------------------------------------------------------------------------
(* Stripe.                                                                 *)

\* An event is delivered until a delivery is acknowledged: again after an error, and, when
\* the answer takes too long, beside the delivery that is still handled.
Deliver(i, e) ==
    /\ At(i, "idle") /\ e \notin acked
    /\ \/ /\ \A j \in Instance : event[j] # e
          /\ UNCHANGED overlaps
       \/ /\ \E j \in Instance : event[j] = e
          /\ overlaps < MaxOverlaps
          /\ overlaps' = overlaps + 1
    /\ Go(i, "resolve")
    /\ event' = [event EXCEPT ![i] = e]
    /\ UNCHANGED <<rows, org, before, existing, acked, faults, crashes, stranded, raced>>

Answer(i) ==
    /\ At(i, "answer")
    /\ acked' = acked \cup {event[i]}
    /\ End(i)
    /\ UNCHANGED <<rows, faults, crashes, overlaps, stranded, raced>>

-----------------------------------------------------------------------------
(* process_event.                                                          *)

\* _resolve_org_id: by the account the customer is bound to, or by the metadata.
Resolve(i) ==
    /\ At(i, "resolve")
    /\ org' = [org EXCEPT ![i] = account.bound \/ event[i] \in NamesOrg]
    /\ Go(i, "claim")
    /\ UNCHANGED <<rows, event, before, existing, environment>>

\* Mutant of Claim: an event is claimed again until it is processed.
ClaimUnprocessed(i) ==
    /\ At(i, "claim")
    /\ IF status[event[i]] # "processed"
       THEN /\ status' = [status EXCEPT ![event[i]] = "claimed"]
            /\ Go(i, IF org[i] THEN "read" ELSE "fail")
       ELSE /\ Go(i, "answer")
            /\ UNCHANGED status
    /\ UNCHANGED <<account, audit, locals, environment>>

\* Mutant of Claim: a failed event is not claimed again.
ClaimOnce(i) ==
    /\ At(i, "claim")
    /\ IF status[event[i]] = "absent"
       THEN /\ status' = [status EXCEPT ![event[i]] = "claimed"]
            /\ Go(i, IF org[i] THEN "read" ELSE "fail")
       ELSE /\ Go(i, "answer")
            /\ UNCHANGED status
    /\ UNCHANGED <<account, audit, locals, environment>>

\* claim_event: an event that is new or has failed; any other one is answered as a duplicate.
\* An event without an organisation raises at once.
Claim(i) ==
    /\ At(i, "claim")
    /\ IF status[event[i]] \in {"absent", "failed"}
       THEN /\ status' = [status EXCEPT ![event[i]] = "claimed"]
            /\ Go(i, IF org[i] THEN "read" ELSE "fail")
       ELSE /\ Go(i, "answer")
            /\ UNCHANGED status
    /\ UNCHANGED <<account, audit, locals, environment>>

Read(i) ==
    /\ At(i, "read")
    /\ before' = [before EXCEPT ![i] = account]
    /\ Go(i, "lookup")
    /\ UNCHANGED <<rows, event, org, existing, environment>>

\* upsert_by_org reads the row once more: what the patch leaves out is stored as read here.
Lookup(i) ==
    /\ At(i, "lookup")
    /\ existing' = [existing EXCEPT ![i] = account]
    /\ Go(i, "store")
    /\ UNCHANGED <<rows, event, org, before, environment>>

\* Mutant of Listed: the event's invoice alone.
ListedAlone(invoices, e) == <<e>>

\* What a comprehension keeps of a list, given by its positions: SelectSeq, in a form that can be
\* reasoned about.
Place(positions, n) == Cardinality({k \in positions : k <= n})
AtPlace(positions, m) == CHOOSE n \in positions : Place(positions, n) = m
Kept(list, positions) == [m \in 1..Cardinality(positions) |-> list[AtPlace(positions, m)]]

\* recent_invoices: the event's invoice first, the former entry of that invoice dropped.
Listed(invoices, e) ==
    LET others == Kept(invoices, {n \in DOMAIN invoices : InvoiceOf[invoices[n]] # InvoiceOf[e]})
        listed == <<e>> \o others
    IN  SubSeq(listed, 1, IF Len(listed) < RecentLimit THEN Len(listed) ELSE RecentLimit)

\* What _process_subscription_event, _process_invoice_event and _process_quote_event patch.
Patched(row, e, read) ==
    LET synced == [row EXCEPT !.bound = TRUE, !.synced = e] IN
    CASE Kind[e] = "subscription" -> [synced EXCEPT !.subscription = e]
      [] Kind[e] = "invoice"      -> [synced EXCEPT !.invoices = Listed(read.invoices, e)]
      [] Kind[e] = "quote"        -> [synced EXCEPT !.quote = e]

Store(i) ==
    /\ At(i, "store")
    /\ account' = Patched(existing[i], event[i], before[i])
    /\ raced' = (raced \/ existing[i] # account \/ before[i] # account)
    /\ Go(i, "audit")
    /\ UNCHANGED <<status, audit, locals, acked, faults, crashes, overlaps, stranded>>

Audit(i) ==
    /\ At(i, "audit")
    /\ audit' = [audit EXCEPT ![event[i]] = @ + 1]
    /\ Go(i, "mark")
    /\ UNCHANGED <<status, account, locals, environment>>

Mark(i) ==
    /\ At(i, "mark")
    /\ status' = [status EXCEPT ![event[i]] = "processed"]
    /\ Go(i, "answer")
    /\ UNCHANGED <<account, audit, locals, environment>>

\* Mutant of Fail: the failure is answered like a success.
FailQuietly(i) ==
    /\ At(i, "fail")
    /\ status' = [status EXCEPT ![event[i]] = "failed"]
    /\ Go(i, "answer")
    /\ UNCHANGED <<account, audit, locals, environment>>

\* mark_failed, and the answer 503.
Fail(i) ==
    /\ At(i, "fail")
    /\ status' = [status EXCEPT ![event[i]] = "failed"]
    /\ End(i)
    /\ UNCHANGED <<account, audit, environment>>

\* An event is left claimed by a request that ends between its claim and its mark.
Strand(i) ==
    stranded' = IF step[i] \in Processing \cup {"mark", "fail"}
                THEN stranded \cup {event[i]} ELSE stranded

\* A repository raises.  Inside the try block the event is marked failed; anywhere else the
\* request ends in an error.
Raise(i) ==
    /\ step[i] \notin {"idle", "answer"}
    /\ faults < MaxFaults
    /\ faults' = faults + 1
    /\ IF step[i] \in Processing
       THEN Go(i, "fail") /\ UNCHANGED <<locals, stranded>>
       ELSE End(i) /\ Strand(i)
    /\ UNCHANGED <<rows, acked, crashes, overlaps, raced>>

\* The instance dies, and its delivery goes unanswered.
Crash(i) ==
    /\ ~At(i, "idle")
    /\ crashes < MaxCrashes
    /\ crashes' = crashes + 1
    /\ End(i) /\ Strand(i)
    /\ UNCHANGED <<rows, acked, faults, overlaps, raced>>

-----------------------------------------------------------------------------

Handle(i) ==
    \/ Resolve(i) \/ Claim(i) \/ Read(i) \/ Lookup(i) \/ Store(i) \/ Audit(i) \/ Mark(i)
    \/ Fail(i) \/ Answer(i)

Next ==
    \E i \in Instance :
       \/ \E e \in Event : Deliver(i, e)
       \/ Handle(i) \/ Raise(i) \/ Crash(i)

Spec == Init /\ [][Next]_vars

\* An instance goes on with its delivery, and Stripe keeps trying to deliver each event.
FairSpec ==
    /\ Spec
    /\ \A i \in Instance : WF_vars(Handle(i))
    /\ \A e \in Event : SF_vars(\E i \in Instance : Deliver(i, e))

-----------------------------------------------------------------------------
(* Properties.                                                             *)

\* The rows and the locals of the instances stay within their types.
TypeOK ==
    /\ status \in [Event -> Status]
    /\ account \in Account
    /\ audit \in [Event -> Nat]
    /\ step \in [Instance -> Step]
    /\ event \in [Instance -> Event \cup {None}]
    /\ org \in [Instance -> BOOLEAN]
    /\ before \in [Instance -> Account] /\ existing \in [Instance -> Account]
    /\ acked \subseteq Event /\ stranded \subseteq Event
    /\ raced \in BOOLEAN
    /\ faults \in Nat /\ crashes \in Nat /\ overlaps \in Nat

\* However often an event is delivered, and whichever instances handle the deliveries, its
\* effect is recorded at most once, and it is recorded before it reads processed.
AuditedOnce ==
    \A e \in Event : audit[e] <= 1 /\ (status[e] = "processed" => audit[e] = 1)

\* An event Stripe stops delivering has been processed, unless a request was cut off
\* between its claim and its mark, or ran beside another one of the event.
AckedIsProcessed ==
    \A e \in acked : status[e] = "processed" \/ e \in stranded \/ overlaps > 0

\* The account lists every invoice an event of which was processed, as long as it has room,
\* unless two instances have written it at once.
InvoicesKept ==
    \A e \in Event :
       Kind[e] = "invoice" /\ status[e] = "processed" =>
          \/ raced \/ Len(account.invoices) = RecentLimit
          \/ \E n \in DOMAIN account.invoices : InvoiceOf[account.invoices[n]] = InvoiceOf[e]

\* Every event is processed in the end, whatever order the events arrive in: one that comes
\* before the customer is bound fails, and is claimed again by a later delivery.  A single
\* claim left behind may hold up the others.
AllProcessed ==
    \A e \in Event : <>(status[e] = "processed" \/ stranded # {} \/ overlaps > 0)
=============================================================================

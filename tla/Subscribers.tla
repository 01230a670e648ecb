----------------------------- MODULE Subscribers -----------------------------
(***************************************************************************)
(* The double opt-in of internal/services/subscriber: every request reads  *)
(* one document, changes its copy, and replaces the whole stored document  *)
(* with the copy (or inserts a new one).  Nothing is locked and no index is *)
(* unique, so other requests and the worker's pruning come in between.     *)
(***************************************************************************)
EXTENDS Naturals, FiniteSets

CONSTANTS
  Subs,       \* identities of subscriber documents
  Addresses,  \* normalized email addresses
  Requests,   \* requests that may be in flight at once
  TTL,        \* VerificationTokenTTL
  Retention,  \* UnverifiedRetention
  MaxTime,    \* bound on the clock
  MaxTokens,  \* bound on the verification tokens issued
  Prunes,     \* whether the worker, which prunes, is enabled
  None        \* no token, no time, no document

ASSUME SubscribersAssumption ==
  /\ TTL \in Nat /\ Retention \in Nat /\ MaxTime \in Nat /\ MaxTokens \in Nat
  /\ Prunes \in BOOLEAN
  /\ None \notin Nat /\ None \notin Subs

VARIABLES
  now,        \* the clock
  stored,     \* documents in the collection
  used,       \* identities that were ever inserted
  sub,        \* the contents of each document
  job,        \* what each request is about to write
  issued,     \* verification tokens generated so far
  mailed,     \* tokens whose mail was, or is about to be, sent
  links,      \* documents whose unsubscribe link was mailed
  confirmed   \* documents whose owner presented a mailed, current token

vars == <<now, stored, used, sub, job, issued, mailed, links, confirmed>>

Tokens == Nat \ {0}

Documents ==
  [email : Addresses, verified : BOOLEAN, token : Tokens \cup {None},
   expires : Nat \cup {None}, unsubscribed : BOOLEAN, created : Nat]

Idle == [kind |-> "idle"]
Jobs ==
  {Idle} \cup [kind : {"insert"}, doc : Documents]
         \cup [kind : {"replace"}, op : {"subscribe", "verify", "unsubscribe", "resend"},
               id : Subs, doc : Documents]

TypeOK ==
  /\ now \in Nat /\ issued \in Nat
  /\ stored \subseteq used /\ used \subseteq Subs
  /\ DOMAIN sub = used /\ \A d \in used : sub[d] \in Documents
  /\ DOMAIN job = Requests /\ \A r \in Requests : job[r] \in Jobs
  /\ mailed \subseteq 1 .. issued
  /\ links \subseteq used /\ confirmed \subseteq used
  /\ \A r \in Requests : job[r].kind = "replace" => job[r].id \in used

Init ==
  /\ now = 0 /\ issued = 0
  /\ stored = {} /\ used = {} /\ sub = [d \in {} |-> None]
  /\ job = [r \in Requests |-> Idle]
  /\ mailed = {} /\ links = {} /\ confirmed = {}

Advance ==
  /\ now < MaxTime
  /\ now' = now + 1
  /\ UNCHANGED <<stored, used, sub, job, issued, mailed, links, confirmed>>

-----------------------------------------------------------------------------
(* The copies the service works on *)

\* Faulty variants: a generator that repeats itself, and a single opt-in.
StuckToken == 1
BornVerified(email) ==
  [email |-> email, verified |-> TRUE, token |-> issued + 1, expires |-> now + TTL,
   unsubscribed |-> FALSE, created |-> now]

\* A fresh verification token is the next number.
NewToken == issued + 1

WithNewToken(doc) == [doc EXCEPT !.token = NewToken, !.expires = now + TTL]

NewSubscriberWithTokens(email) ==
  [email |-> email, verified |-> FALSE, token |-> NewToken, expires |-> now + TTL,
   unsubscribed |-> FALSE, created |-> now]

\* Faulty variant: an unsubscribed record is re-activated as verified.
ReactivatedVerified(doc) == [doc EXCEPT !.unsubscribed = FALSE]

Reactivated(doc) ==
  WithNewToken([doc EXCEPT !.verified = FALSE, !.unsubscribed = FALSE])
Verified(doc) ==
  [doc EXCEPT !.verified = TRUE, !.token = None, !.expires = None]

Active(doc) == doc.verified /\ ~doc.unsubscribed

-----------------------------------------------------------------------------
(* First half of a request: the read and the change of the copy *)

\* The request will write w; issuing counts the token it generated.
Goes(r, w, issuing) ==
  /\ job[r] = Idle
  /\ job' = [job EXCEPT ![r] = w]
  /\ issued' = IF issuing THEN issued + 1 ELSE issued
  /\ issued' <= MaxTokens
  /\ UNCHANGED <<now, stored, used, sub, mailed, links>>

Replace(op, d, doc) == [kind |-> "replace", op |-> op, id |-> d, doc |-> doc]

\* Faulty variant: the record is not looked for.
SubscribeUnchecked(r, email) ==
  /\ Goes(r, [kind |-> "insert", doc |-> NewSubscriberWithTokens(email)], TRUE)
  /\ UNCHANGED confirmed

\* FindByEmail found nothing.
SubscribeNew(r, email) ==
  /\ \A d \in stored : sub[d].email # email
  /\ Goes(r, [kind |-> "insert", doc |-> NewSubscriberWithTokens(email)], TRUE)
  /\ UNCHANGED confirmed

\* A pending record gets a new token and keeps the rest, an unsubscribed one
\* is re-activated; an active one is a conflict, which changes nothing.
SubscribeAgain(r, d) ==
  /\ d \in stored /\ ~Active(sub[d])
  /\ Goes(r, Replace("subscribe", d, IF sub[d].verified THEN Reactivated(sub[d])
                                     ELSE WithNewToken(sub[d])), TRUE)
  /\ UNCHANGED confirmed

\* FindByVerificationToken found the record and its token has not expired.
Verify(r, d) ==
  /\ d \in stored /\ sub[d].token \in mailed
  /\ sub[d].expires # None => now <= sub[d].expires
  /\ Goes(r, Replace("verify", d, Verified(sub[d])), FALSE)
  /\ confirmed' = confirmed \cup {d}

Unsubscribe(r, d) ==
  /\ d \in stored /\ d \in links
  /\ Goes(r, Replace("unsubscribe", d, [sub[d] EXCEPT !.unsubscribed = TRUE]), FALSE)
  /\ UNCHANGED confirmed

\* An administrator's request.
ResendVerification(r, d) ==
  /\ d \in stored /\ ~Active(sub[d])
  /\ Goes(r, Replace("resend", d, WithNewToken([sub[d] EXCEPT !.verified = FALSE])), TRUE)
  /\ UNCHANGED confirmed

-----------------------------------------------------------------------------
(* Second half: the write, and the mail that follows it *)

\* Faulty variant: an upsert.
Upsert(r) ==
  /\ job[r].kind = "replace"
  /\ stored' = stored \cup {job[r].id}
  /\ sub' = [sub EXCEPT ![job[r].id] = job[r].doc]
  /\ mailed' = mailed \cup ({job[r].doc.token} \ {None})
  /\ job' = [job EXCEPT ![r] = Idle]
  /\ UNCHANGED <<now, used, issued, links, confirmed>>

\* The goroutine that mails the copy's token succeeds, sooner or later, or
\* fails.  How late the mail comes is left to when its link is used (Verify).
\* Verify and Unsubscribe send none.
Mail(r) ==
  \/ UNCHANGED mailed
  \/ /\ job[r].kind = "replace" => job[r].op \in {"subscribe", "resend"}
     /\ mailed' = mailed \cup {job[r].doc.token}

Insert(r, d) ==
  /\ job[r].kind = "insert" /\ d \notin used
  /\ stored' = stored \cup {d} /\ used' = used \cup {d}
  /\ sub' = [e \in used \cup {d} |-> IF e = d THEN job[r].doc ELSE sub[e]]
  /\ Mail(r)
  /\ job' = [job EXCEPT ![r] = Idle]
  /\ UNCHANGED <<now, issued, links, confirmed>>

\* ReplaceOne without upsert: nothing happens to a document that is gone, and
\* the request reports success all the same.
ReplaceOne(r) ==
  /\ job[r].kind = "replace"
  /\ sub' = IF job[r].id \in stored THEN [sub EXCEPT ![job[r].id] = job[r].doc] ELSE sub
  /\ Mail(r)
  /\ job' = [job EXCEPT ![r] = Idle]
  /\ UNCHANGED <<now, stored, used, issued, links, confirmed>>

\* The database refuses the write, and no mail is sent.
WriteFails(r) ==
  /\ job[r] # Idle
  /\ job' = [job EXCEPT ![r] = Idle]
  /\ UNCHANGED <<now, stored, used, sub, issued, mailed, links, confirmed>>

-----------------------------------------------------------------------------
(* Deletions, and notifications, whose mails hold the unsubscribe links *)

DeleteByID(d) ==
  /\ d \in stored
  /\ stored' = stored \ {d}
  /\ UNCHANGED <<now, used, sub, job, issued, mailed, links, confirmed>>

\* PruneUnverified, one document of its DeleteMany.
PruneUnverified(d) ==
  /\ Prunes
  /\ d \in stored /\ ~sub[d].verified /\ sub[d].created + Retention < now
  /\ stored' = stored \ {d}
  /\ UNCHANGED <<now, used, sub, job, issued, mailed, links, confirmed>>

\* ListVerified, and a mail to each record it returned.
DispatchSubscriberEmail ==
  /\ links' = links \cup {d \in stored : Active(sub[d])}
  /\ UNCHANGED <<now, stored, used, sub, job, issued, mailed, confirmed>>

-----------------------------------------------------------------------------
Request(r) ==
  \/ \E a \in Addresses : SubscribeNew(r, a)
  \/ \E d \in Subs : \/ SubscribeAgain(r, d) \/ Verify(r, d) \/ Unsubscribe(r, d)
                     \/ ResendVerification(r, d) \/ Insert(r, d)
  \/ ReplaceOne(r) \/ WriteFails(r)

Next ==
  \/ Advance \/ DispatchSubscriberEmail
  \/ \E r \in Requests : Request(r)
  \/ \E d \in Subs : DeleteByID(d) \/ PruneUnverified(d)

Spec == Init /\ [][Next]_vars

-----------------------------------------------------------------------------
(* Properties that hold however requests, pruning and failures interleave *)

\* Double opt-in: a record is verified only if its owner once presented a
\* token that had been mailed and was the record's current one.  No lost
\* update can verify a record nobody confirmed.
DoubleOptIn == \A d \in stored : sub[d].verified => d \in confirmed

\* A deleted or pruned record never comes back through a request that read it
\* before.
DeletedStaysDeleted == [][\A d \in used : d \notin stored => d \notin stored']_vars

-----------------------------------------------------------------------------
(* Properties that need one request at a time *)

\* An address has one record.  Two requests in flight may both find none.
OneRecordPerAddress ==
  \A d, e \in stored : sub[d].email = sub[e].email => d = e

\* A token that was used or replaced never works again: a token that is no
\* longer its record's does not become it.
OldTokensStayDead ==
  [][\A d \in stored : d \in stored' /\ sub[d].token # sub'[d].token
       => sub'[d].token \in {None} \cup (Tokens \ mailed)]_vars

\* Per address the records implement OptIn: nobody who left is active again
\* without asking and confirming again.
State(a) ==
  LET mine == {d \in stored : sub[d].email = a}
  IN  IF mine = {} THEN "absent"
      ELSE IF \E d \in mine : Active(sub[d]) THEN "active"
      ELSE IF \E d \in mine : sub[d].unsubscribed THEN "left" ELSE "pending"

Lifecycle == INSTANCE OptIn WITH state <- [a \in Addresses |-> State(a)]

ImplementsOptIn == Lifecycle!Spec

-----------------------------------------------------------------------------
(* What the comments say *)

\* "VerificationTokenTTL is how long a verification link stays valid": a
\* record whose current token was mailed and has not expired is not pruned.
LinkStaysValid ==
  [][\A d \in Subs : d \in stored /\ d \notin stored' /\ PruneUnverified(d) =>
       ~(sub[d].token \in mailed /\ now <= sub[d].expires)]_vars

=============================================================================

-------------------------- MODULE Subscribers_proofs --------------------------
(***************************************************************************)
(* Proofs about Subscribers.                                               *)
(***************************************************************************)
EXTENDS Subscribers, TLAPS

\* A copy with a fresh token is a document, and its token is the fresh one.
LEMMA NewTokenTyped ==
  ASSUME now \in Nat, issued \in Nat, NEW doc \in Documents
  PROVE  WithNewToken(doc) \in Documents /\ WithNewToken(doc).token = issued + 1
<1>1. issued + 1 \in Tokens /\ now + TTL \in Nat
  BY SubscribersAssumption DEF Tokens
<1>2. \A t \in Tokens, x \in Nat :
        LET copy == [doc EXCEPT !.token = t, !.expires = x]
        IN  copy \in Documents /\ copy.token = t
  BY DEF Documents
<1> QED
  BY <1>1, <1>2 DEF WithNewToken, NewToken

\* The copies the service makes of a document are documents.
LEMMA CopiesTyped ==
  ASSUME now \in Nat, issued \in Nat, NEW doc \in Documents
  PROVE  /\ Reactivated(doc) \in Documents /\ Reactivated(doc).token = issued + 1
         /\ Verified(doc) \in Documents
         /\ [doc EXCEPT !.unsubscribed = TRUE] \in Documents
         /\ WithNewToken([doc EXCEPT !.verified = FALSE]) \in Documents
         /\ WithNewToken([doc EXCEPT !.verified = FALSE]).token = issued + 1
<1>1. /\ [doc EXCEPT !.verified = FALSE] \in Documents
      /\ [doc EXCEPT !.unsubscribed = TRUE] \in Documents
      /\ [doc EXCEPT !.verified = FALSE, !.unsubscribed = FALSE] \in Documents
  BY DEF Documents
<1>2. Verified(doc) \in Documents
  BY DEF Verified, Documents
<1> QED
  BY <1>1, <1>2, NewTokenTyped DEF Reactivated

\* A new subscriber is a document with a fresh token.
LEMMA NewTyped ==
  ASSUME now \in Nat, issued \in Nat, NEW a \in Addresses
  PROVE  NewSubscriberWithTokens(a) \in Documents
         /\ NewSubscriberWithTokens(a).token = issued + 1
<1>1. issued + 1 \in Tokens /\ now + TTL \in Nat
  BY SubscribersAssumption DEF Tokens
<1> QED
  BY <1>1 DEF NewSubscriberWithTokens, NewToken, Documents

\* A job that is not idle holds a document.
LEMMA JobTyped ==
  ASSUME NEW w \in Jobs
  PROVE  /\ w = Idle \/ w.doc \in Documents
         /\ w = Idle \/ w.kind = "insert"
              \/ (w.kind = "replace" /\ w.id \in Subs
                  /\ w.op \in {"subscribe", "verify", "unsubscribe", "resend"})
         /\ w.kind \in {"idle", "insert", "replace"} /\ (w.kind = "idle" <=> w = Idle)
<1>1. CASE w = Idle
  BY <1>1 DEF Idle
<1>2. CASE w \in [kind : {"insert"}, doc : Documents]
  BY <1>2 DEF Idle
<1>3. CASE w \in [kind : {"replace"}, op : {"subscribe", "verify", "unsubscribe", "resend"},
                  id : Subs, doc : Documents]
  BY <1>3 DEF Idle
<1> QED
  BY <1>1, <1>2, <1>3 DEF Jobs

\* A copy whose write is followed by a mail has a token that was issued.
MailsIssued ==
  \A r \in Requests :
    job[r].kind = "insert" \/ (job[r].kind = "replace" /\ job[r].op \in {"subscribe", "resend"})
      => job[r].doc.token \in 1 .. issued

TypeInv == TypeOK /\ MailsIssued

\* What a read leaves to be written is well typed.
LEMMA GoesTyped ==
  ASSUME TypeInv, NEW r \in Requests, NEW w \in Jobs, NEW issuing \in BOOLEAN,
         Goes(r, w, issuing), confirmed' \subseteq used,
         w.kind = "replace" => w.id \in used,
         w.kind = "insert" \/ (w.kind = "replace" /\ w.op \in {"subscribe", "resend"})
           => issuing /\ w.doc.token = issued + 1
  PROVE  TypeInv'
<1> USE DEF TypeInv
<1>1. issued' \in Nat /\ issued <= issued' /\ (issuing => issued' = issued + 1)
  BY DEF Goes, TypeOK
<1>2. /\ job' = [job EXCEPT ![r] = w] /\ DOMAIN job = Requests
      /\ UNCHANGED <<now, stored, used, sub, mailed, links>>
  BY DEF Goes, TypeOK
<1>3. TypeOK'
  BY <1>1, <1>2 DEF TypeOK
<1>4. MailsIssued'
  <2> SUFFICES ASSUME NEW q \in Requests,
                      \/ job'[q].kind = "insert"
                      \/ job'[q].kind = "replace" /\ job'[q].op \in {"subscribe", "resend"}
               PROVE  job'[q].doc.token \in 1 .. issued'
    BY DEF MailsIssued
  <2>1. CASE q = r
    BY <1>1, <1>2, <2>1 DEF TypeOK
  <2>2. CASE q # r
    BY <1>1, <1>2, <2>2 DEF MailsIssued, TypeOK
  <2> QED
    BY <2>1, <2>2
<1> QED
  BY <1>3, <1>4

\* The state stays well typed.
THEOREM TypeCorrect == Spec => []TypeOK
<1> USE DEF TypeInv
<1>1. Init => TypeInv
  BY DEF Init, TypeOK, MailsIssued, Jobs, Idle
<1>2. TypeInv /\ [Next]_vars => TypeInv'
  <2> SUFFICES ASSUME TypeInv, [Next]_vars PROVE TypeInv'
    OBVIOUS
  <2>1. CASE Advance
    BY <2>1 DEF Advance, TypeOK, MailsIssued
  <2>2. CASE DispatchSubscriberEmail
    BY <2>2 DEF DispatchSubscriberEmail, TypeOK, MailsIssued
  <2>3. ASSUME NEW d \in Subs, DeleteByID(d) \/ PruneUnverified(d) PROVE TypeInv'
    BY <2>3 DEF DeleteByID, PruneUnverified, TypeOK, MailsIssued
  <2>4. ASSUME NEW r \in Requests, NEW a \in Addresses, SubscribeNew(r, a) PROVE TypeInv'
    <3> DEFINE w == [kind |-> "insert", doc |-> NewSubscriberWithTokens(a)]
    <3>1. NewSubscriberWithTokens(a) \in Documents
          /\ NewSubscriberWithTokens(a).token = issued + 1
      BY NewTyped DEF TypeOK
    <3>2. w \in Jobs /\ w.kind = "insert" /\ w.doc.token = issued + 1
      BY <3>1 DEF Jobs
    <3>3. Goes(r, w, TRUE) /\ confirmed' \subseteq used
      BY <2>4 DEF SubscribeNew, TypeOK
    <3> HIDE DEF w
    <3> QED
      BY <3>2, <3>3, GoesTyped
  <2>5. ASSUME NEW r \in Requests, NEW d \in Subs, NEW doc \in Documents,
               NEW op \in {"subscribe", "verify", "unsubscribe", "resend"},
               NEW issuing \in BOOLEAN,
               d \in stored, Goes(r, Replace(op, d, doc), issuing), confirmed' \subseteq used,
               op \in {"subscribe", "resend"} => issuing /\ doc.token = issued + 1
        PROVE  TypeInv'
    <3> DEFINE w == Replace(op, d, doc)
    <3>1. w \in Jobs /\ w.kind = "replace" /\ w.op = op /\ w.id = d /\ w.doc = doc
      BY DEF Jobs, Replace
    <3>2. d \in used
      BY <2>5 DEF TypeOK
    <3> HIDE DEF w
    <3> QED
      BY <2>5, <3>1, <3>2, GoesTyped DEF w
  <2>6. ASSUME NEW r \in Requests, NEW d \in Subs, SubscribeAgain(r, d) PROVE TypeInv'
    <3> DEFINE doc == IF sub[d].verified THEN Reactivated(sub[d]) ELSE WithNewToken(sub[d])
    <3>1. d \in stored /\ sub[d] \in Documents /\ confirmed' \subseteq used
      BY <2>6 DEF SubscribeAgain, TypeOK
    <3>2. doc \in Documents /\ doc.token = issued + 1
      BY <3>1, CopiesTyped, NewTokenTyped DEF TypeOK
    <3>3. Goes(r, Replace("subscribe", d, doc), TRUE)
      BY <2>6 DEF SubscribeAgain
    <3> HIDE DEF doc
    <3> QED
      BY <3>1, <3>2, <3>3, <2>5
  <2>7. ASSUME NEW r \in Requests, NEW d \in Subs, Verify(r, d) PROVE TypeInv'
    <3>1. d \in stored /\ sub[d] \in Documents /\ confirmed' \subseteq used
      BY <2>7 DEF Verify, TypeOK
    <3>2. Verified(sub[d]) \in Documents
      BY <3>1, CopiesTyped DEF TypeOK
    <3>3. Goes(r, Replace("verify", d, Verified(sub[d])), FALSE)
      BY <2>7 DEF Verify
    <3> QED
      BY <3>1, <3>2, <3>3, <2>5
  <2>8. ASSUME NEW r \in Requests, NEW d \in Subs, Unsubscribe(r, d) PROVE TypeInv'
    <3> DEFINE doc == [sub[d] EXCEPT !.unsubscribed = TRUE]
    <3>1. d \in stored /\ sub[d] \in Documents /\ confirmed' \subseteq used
      BY <2>8 DEF Unsubscribe, TypeOK
    <3>2. doc \in Documents
      BY <3>1, CopiesTyped DEF TypeOK
    <3>3. Goes(r, Replace("unsubscribe", d, doc), FALSE)
      BY <2>8 DEF Unsubscribe
    <3> HIDE DEF doc
    <3> QED
      BY <3>1, <3>2, <3>3, <2>5
  <2>9. ASSUME NEW r \in Requests, NEW d \in Subs, ResendVerification(r, d) PROVE TypeInv'
    <3> DEFINE doc == WithNewToken([sub[d] EXCEPT !.verified = FALSE])
    <3>1. d \in stored /\ sub[d] \in Documents /\ confirmed' \subseteq used
      BY <2>9 DEF ResendVerification, TypeOK
    <3>2. doc \in Documents /\ doc.token = issued + 1
      BY <3>1, CopiesTyped DEF TypeOK
    <3>3. Goes(r, Replace("resend", d, doc), TRUE)
      BY <2>9 DEF ResendVerification
    <3> HIDE DEF doc
    <3> QED
      BY <3>1, <3>2, <3>3, <2>5
  <2>10. ASSUME NEW r \in Requests, NEW d \in Subs, Insert(r, d) PROVE TypeInv'
    <3>1. job[r].doc \in Documents /\ mailed' \subseteq 1 .. issued
      <4>1. job[r] \in Jobs /\ job[r].kind = "insert" /\ Mail(r)
        BY <2>10 DEF Insert, TypeOK
      <4>2. job[r].doc \in Documents
        BY <4>1, JobTyped DEF Idle
      <4>3. job[r].doc.token \in 1 .. issued
        BY <4>1 DEF MailsIssued
      <4> QED
        BY <4>1, <4>2, <4>3 DEF Mail, TypeOK
    <3>2. TypeOK'
      BY <2>10, <3>1 DEF Insert, TypeOK, Jobs, Idle
    <3>3. MailsIssued'
      BY <2>10 DEF Insert, MailsIssued, TypeOK, Idle
    <3> QED
      BY <3>2, <3>3
  <2>11. ASSUME NEW r \in Requests, ReplaceOne(r) PROVE TypeInv'
    <3>1. job[r].doc \in Documents /\ job[r].id \in used /\ mailed' \subseteq 1 .. issued
      <4>1. job[r] \in Jobs /\ job[r].kind = "replace" /\ Mail(r) /\ job[r].id \in used
        BY <2>11 DEF ReplaceOne, TypeOK
      <4>2. job[r].doc \in Documents
        BY <4>1, JobTyped DEF Idle
      <4>3. job[r].op \in {"subscribe", "resend"} => job[r].doc.token \in 1 .. issued
        BY <4>1 DEF MailsIssued
      <4> QED
        BY <4>1, <4>2, <4>3 DEF Mail, TypeOK
    <3>2. TypeOK'
      BY <2>11, <3>1 DEF ReplaceOne, TypeOK, Jobs, Idle
    <3>3. MailsIssued'
      BY <2>11 DEF ReplaceOne, MailsIssued, TypeOK, Idle
    <3> QED
      BY <3>2, <3>3
  <2>12. ASSUME NEW r \in Requests, WriteFails(r) PROVE TypeInv'
    BY <2>12 DEF WriteFails, TypeOK, MailsIssued, Jobs, Idle
  <2>13. CASE UNCHANGED vars
    BY <2>13 DEF vars, TypeOK, MailsIssued
  <2> QED
    BY <2>1, <2>2, <2>3, <2>4, <2>6, <2>7, <2>8, <2>9, <2>10, <2>11, <2>12, <2>13
    DEF Next, Request
<1> QED
  BY <1>1, <1>2, PTL DEF Spec

-----------------------------------------------------------------------------
(* Double opt-in, whatever interleaves *)

\* Only confirmed records are verified, stored or about to be written.
ConsentInv ==
  /\ DoubleOptIn
  /\ \A r \in Requests : job[r].kind = "insert" => ~job[r].doc.verified
  /\ \A r \in Requests : job[r].kind = "replace" =>
       (job[r].doc.verified => job[r].id \in confirmed)

\* The read half of a request keeps ConsentInv if its copy does.
LEMMA GoesConsents ==
  ASSUME TypeOK, ConsentInv, NEW r \in Requests, NEW w, NEW issuing,
         Goes(r, w, issuing), confirmed \subseteq confirmed',
         w.kind = "insert" => ~w.doc.verified,
         w.kind = "replace" => (w.doc.verified => w.id \in confirmed')
  PROVE  ConsentInv'
<1>1. job' = [job EXCEPT ![r] = w] /\ DOMAIN job = Requests /\ UNCHANGED <<stored, sub>>
  BY DEF Goes, TypeOK
<1>2. DoubleOptIn'
  BY <1>1 DEF ConsentInv, DoubleOptIn
<1>3. ASSUME NEW q \in Requests
      PROVE  /\ job'[q].kind = "insert" => ~job'[q].doc.verified
             /\ job'[q].kind = "replace" => (job'[q].doc.verified => job'[q].id \in confirmed')
  <2>1. CASE q = r
    BY <1>1, <2>1
  <2>2. CASE q # r
    BY <1>1, <2>2 DEF ConsentInv
  <2> QED
    BY <2>1, <2>2
<1> QED
  BY <1>2, <1>3 DEF ConsentInv

\* No interleaving of requests, deletions, pruning and failing writes makes a
\* record verified that its owner never confirmed.
THEOREM OnlyConfirmed == Spec => []DoubleOptIn
<1>1. Init => ConsentInv
  BY DEF Init, ConsentInv, DoubleOptIn, Idle
<1>2. TypeOK /\ ConsentInv /\ [Next]_vars => ConsentInv'
  <2> SUFFICES ASSUME TypeOK, ConsentInv, [Next]_vars PROVE ConsentInv'
    OBVIOUS
  <2>1. CASE Advance
    BY <2>1 DEF Advance, ConsentInv, DoubleOptIn
  <2>2. CASE DispatchSubscriberEmail
    BY <2>2 DEF DispatchSubscriberEmail, ConsentInv, DoubleOptIn
  <2>3. ASSUME NEW d \in Subs, DeleteByID(d) \/ PruneUnverified(d) PROVE ConsentInv'
    BY <2>3 DEF DeleteByID, PruneUnverified, ConsentInv, DoubleOptIn
  <2>4. ASSUME NEW r \in Requests, NEW a \in Addresses, SubscribeNew(r, a) PROVE ConsentInv'
    <3> DEFINE w == [kind |-> "insert", doc |-> NewSubscriberWithTokens(a)]
    <3>1. Goes(r, w, TRUE) /\ confirmed' = confirmed
      BY <2>4 DEF SubscribeNew
    <3>2. w.kind = "insert" /\ ~w.doc.verified
      BY DEF NewSubscriberWithTokens
    <3> HIDE DEF w
    <3> QED
      BY <3>1, <3>2, GoesConsents
  <2>5. ASSUME NEW r \in Requests, NEW d \in stored, NEW doc, NEW op, NEW issuing,
               Goes(r, Replace(op, d, doc), issuing), confirmed \subseteq confirmed',
               doc.verified => d \in confirmed'
        PROVE  ConsentInv'
    <3> DEFINE w == Replace(op, d, doc)
    <3>1. w.kind = "replace" /\ w.id = d /\ w.doc = doc
      BY DEF Replace
    <3> HIDE DEF w
    <3> QED
      BY <2>5, <3>1, GoesConsents DEF w
  <2>6. \A d \in stored : sub[d] \in Documents /\ (sub[d].verified => d \in confirmed)
    BY DEF TypeOK, ConsentInv, DoubleOptIn
  <2>7. ASSUME NEW r \in Requests, NEW d \in Subs, SubscribeAgain(r, d) PROVE ConsentInv'
    <3> DEFINE doc == IF sub[d].verified THEN Reactivated(sub[d]) ELSE WithNewToken(sub[d])
    <3>1. d \in stored /\ Goes(r, Replace("subscribe", d, doc), TRUE) /\ confirmed' = confirmed
      BY <2>7 DEF SubscribeAgain
    <3>2. ~doc.verified
      BY <2>6, <3>1 DEF Reactivated, WithNewToken, Documents
    <3> HIDE DEF doc
    <3> QED
      BY <3>1, <3>2, <2>5
  <2>8. ASSUME NEW r \in Requests, NEW d \in Subs, Verify(r, d) PROVE ConsentInv'
    <3>1. d \in stored /\ Goes(r, Replace("verify", d, Verified(sub[d])), FALSE)
          /\ confirmed' = confirmed \cup {d}
      BY <2>8 DEF Verify
    <3> QED
      BY <3>1, <2>5
  <2>9. ASSUME NEW r \in Requests, NEW d \in Subs, Unsubscribe(r, d) PROVE ConsentInv'
    <3> DEFINE doc == [sub[d] EXCEPT !.unsubscribed = TRUE]
    <3>1. d \in stored /\ Goes(r, Replace("unsubscribe", d, doc), FALSE)
          /\ confirmed' = confirmed
      BY <2>9 DEF Unsubscribe
    <3>2. doc.verified = sub[d].verified
      BY <2>6, <3>1 DEF Documents
    <3> HIDE DEF doc
    <3> QED
      BY <3>1, <3>2, <2>5, <2>6
  <2>10. ASSUME NEW r \in Requests, NEW d \in Subs, ResendVerification(r, d) PROVE ConsentInv'
    <3> DEFINE doc == WithNewToken([sub[d] EXCEPT !.verified = FALSE])
    <3>1. d \in stored /\ Goes(r, Replace("resend", d, doc), TRUE) /\ confirmed' = confirmed
      BY <2>10 DEF ResendVerification
    <3>2. ~doc.verified
      BY <2>6, <3>1 DEF WithNewToken, Documents
    <3> HIDE DEF doc
    <3> QED
      BY <3>1, <3>2, <2>5
  <2>11. ASSUME NEW r \in Requests, NEW d \in Subs, Insert(r, d) PROVE ConsentInv'
    BY <2>11 DEF Insert, ConsentInv, DoubleOptIn, TypeOK, Idle
  <2>12. ASSUME NEW r \in Requests, ReplaceOne(r) PROVE ConsentInv'
    BY <2>12 DEF ReplaceOne, ConsentInv, DoubleOptIn, TypeOK, Idle
  <2>13. ASSUME NEW r \in Requests, WriteFails(r) PROVE ConsentInv'
    BY <2>13 DEF WriteFails, ConsentInv, DoubleOptIn, TypeOK, Idle
  <2>14. CASE UNCHANGED vars
    BY <2>14 DEF vars, ConsentInv, DoubleOptIn
  <2> QED
    BY <2>1, <2>2, <2>3, <2>4, <2>7, <2>8, <2>9, <2>10, <2>11, <2>12, <2>13, <2>14
    DEF Next, Request
<1>3. ConsentInv => DoubleOptIn
  BY DEF ConsentInv
<1> QED
  BY <1>1, <1>2, <1>3, TypeCorrect, PTL DEF Spec

\* A replacement never brings a deleted record back, whenever it was read.
THEOREM DeletionsLast == Spec => DeletedStaysDeleted
<1>1. TypeOK /\ [Next]_vars => (\A d \in used : d \notin stored => d \notin stored')
  BY DEF TypeOK, Next, Request, vars, Advance, DispatchSubscriberEmail, DeleteByID,
         PruneUnverified, SubscribeNew, SubscribeAgain, Verify, Unsubscribe,
         ResendVerification, Goes, Insert, ReplaceOne, WriteFails
<1> QED
  BY <1>1, TypeCorrect, PTL DEF Spec, DeletedStaysDeleted

-----------------------------------------------------------------------------
(* One request at a time: the records implement OptIn *)

OneAtATime == \A q, r \in Requests : q = r

\* What one document says of its address.
Standing(doc) ==
  IF Active(doc) THEN "active" ELSE IF doc.unsubscribed THEN "left" ELSE "pending"

\* What a request may make of a document: the same address, a step of OptIn or
\* none, and no token that was mailed before.
CopyOf(old, new) ==
  /\ new.email = old.email
  /\ \/ Standing(new) = Standing(old)
     \/ Standing(old) = "pending" /\ Standing(new) \in {"active", "left"}
     \/ Standing(old) = "active" /\ Standing(new) = "left"
     \/ Standing(old) = "left" /\ Standing(new) = "pending"
  /\ new.token = old.token \/ new.token \in {None} \cup (Tokens \ mailed)

\* While a request is between its read and its write, its address stays free
\* or its document what it was, unless it is deleted.
CopiesInv ==
  /\ OneRecordPerAddress
  /\ \A r \in Requests :
       /\ job[r].kind = "insert" => /\ Standing(job[r].doc) = "pending"
                                    /\ \A d \in stored : sub[d].email # job[r].doc.email
       /\ job[r].kind = "replace" /\ job[r].id \in stored => CopyOf(sub[job[r].id], job[r].doc)

\* A number not yet issued was not mailed.
LEMMA NewTokenUnmailed == TypeOK => issued + 1 \in Tokens \ mailed
BY DEF TypeOK, Tokens

\* The copies the service makes keep to CopyOf.
LEMMA CopiesFollow ==
  ASSUME TypeOK, NEW doc \in Documents
  PROVE  /\ CopyOf(doc, Verified(doc)) /\ CopyOf(doc, [doc EXCEPT !.unsubscribed = TRUE])
         /\ ~Active(doc) => /\ doc.verified => CopyOf(doc, Reactivated(doc))
                            /\ ~doc.verified => CopyOf(doc, WithNewToken(doc))
                            /\ CopyOf(doc, WithNewToken([doc EXCEPT !.verified = FALSE]))
<1>1. CopyOf(doc, Verified(doc)) /\ CopyOf(doc, [doc EXCEPT !.unsubscribed = TRUE])
  BY DEF CopyOf, Verified, Standing, Active, Documents
<1>2. ASSUME NEW d \in Documents, d.email = doc.email, ~Active(doc),
             Standing(d) = Standing(doc) \/ (Standing(doc) = "left" /\ Standing(d) = "pending")
      PROVE  CopyOf(doc, WithNewToken(d))
  <2>1. /\ WithNewToken(d).email = d.email /\ Standing(WithNewToken(d)) = Standing(d)
        /\ WithNewToken(d).token = issued + 1
    BY DEF WithNewToken, NewToken, Standing, Active, Documents
  <2> QED
    BY <1>2, <2>1, NewTokenUnmailed DEF CopyOf
<1>3. ASSUME ~Active(doc), doc.verified PROVE CopyOf(doc, Reactivated(doc))
  <2> DEFINE d == [doc EXCEPT !.verified = FALSE, !.unsubscribed = FALSE]
  <2>1. d \in Documents /\ d.email = doc.email
    BY DEF Documents
  <2>2. Standing(doc) = "left" /\ Standing(d) = "pending"
    BY <1>3 DEF Standing, Active, Documents
  <2> HIDE DEF d
  <2>3. CopyOf(doc, WithNewToken(d))
    BY <1>2, <1>3, <2>1, <2>2
  <2> QED
    BY <2>3 DEF d, Reactivated
<1>4. ASSUME ~Active(doc), ~doc.verified PROVE CopyOf(doc, WithNewToken(doc))
  BY <1>2, <1>4
<1>5. ASSUME ~Active(doc) PROVE CopyOf(doc, WithNewToken([doc EXCEPT !.verified = FALSE]))
  <2> DEFINE d == [doc EXCEPT !.verified = FALSE]
  <2>1. d \in Documents /\ d.email = doc.email /\ Standing(d) = Standing(doc)
    BY <1>5 DEF Standing, Active, Documents
  <2> HIDE DEF d
  <2>2. CopyOf(doc, WithNewToken(d))
    BY <1>2, <1>5, <2>1
  <2> QED
    BY <2>2 DEF d
<1> QED
  BY <1>1, <1>3, <1>4, <1>5

\* The read half of a request keeps CopiesInv if its copy does.
LEMMA GoesCopies ==
  ASSUME TypeOK, CopiesInv, NEW r \in Requests, NEW w, NEW issuing, Goes(r, w, issuing),
         w.kind = "insert" => /\ Standing(w.doc) = "pending"
                              /\ \A d \in stored : sub[d].email # w.doc.email,
         w.kind = "replace" /\ w.id \in stored => CopyOf(sub[w.id], w.doc)
  PROVE  CopiesInv'
<1>1. job' = [job EXCEPT ![r] = w] /\ DOMAIN job = Requests /\ UNCHANGED <<stored, sub, mailed>>
  BY DEF Goes, TypeOK
<1>2. OneRecordPerAddress'
  BY <1>1 DEF CopiesInv, OneRecordPerAddress
<1>3. ASSUME NEW q \in Requests
      PROVE  /\ job'[q].kind = "insert" => /\ Standing(job'[q].doc) = "pending"
                                           /\ \A d \in stored' : sub'[d].email # job'[q].doc.email
             /\ job'[q].kind = "replace" /\ job'[q].id \in stored'
                  => CopyOf(sub[job'[q].id], job'[q].doc)
  <2>1. CASE q = r
    BY <1>1, <2>1
  <2>2. CASE q # r
    BY <1>1, <2>2 DEF CopiesInv
  <2> QED
    BY <2>1, <2>2
<1> QED
  BY <1>1, <1>2, <1>3 DEF CopiesInv, CopyOf

LEMMA CopiesInit == Init => CopiesInv
BY DEF Init, CopiesInv, OneRecordPerAddress, Idle

LEMMA CopiesStep ==
  ASSUME OneAtATime, TypeOK, CopiesInv, [Next]_vars
  PROVE  CopiesInv'
<1>1. CASE Advance \/ DispatchSubscriberEmail \/ UNCHANGED vars
  BY <1>1 DEF Advance, DispatchSubscriberEmail, vars, CopiesInv, OneRecordPerAddress, CopyOf
<1>2. ASSUME NEW d \in Subs, DeleteByID(d) \/ PruneUnverified(d) PROVE CopiesInv'
  BY <1>2 DEF DeleteByID, PruneUnverified, CopiesInv, OneRecordPerAddress, CopyOf
<1>3. ASSUME NEW r \in Requests, NEW a \in Addresses, SubscribeNew(r, a) PROVE CopiesInv'
  <2> DEFINE w == [kind |-> "insert", doc |-> NewSubscriberWithTokens(a)]
  <2>1. Goes(r, w, TRUE) /\ \A d \in stored : sub[d].email # a
    BY <1>3 DEF SubscribeNew
  <2>2. /\ w.kind = "insert" /\ Standing(w.doc) = "pending" /\ w.doc.email = a
    BY DEF NewSubscriberWithTokens, Standing, Active
  <2> HIDE DEF w
  <2> QED
    BY <2>1, <2>2, GoesCopies
<1>4. ASSUME NEW r \in Requests, NEW d \in stored, NEW doc, NEW op, NEW issuing,
             Goes(r, Replace(op, d, doc), issuing), CopyOf(sub[d], doc)
      PROVE  CopiesInv'
  <2> DEFINE w == Replace(op, d, doc)
  <2>1. w.kind = "replace" /\ w.id = d /\ w.doc = doc
    BY DEF Replace
  <2> HIDE DEF w
  <2> QED
    BY <1>4, <2>1, GoesCopies DEF w
<1>5. ASSUME NEW r \in Requests, NEW d \in Subs, SubscribeAgain(r, d) PROVE CopiesInv'
  <2> DEFINE doc == IF sub[d].verified THEN Reactivated(sub[d]) ELSE WithNewToken(sub[d])
  <2>1. /\ d \in stored /\ ~Active(sub[d]) /\ sub[d] \in Documents
        /\ Goes(r, Replace("subscribe", d, doc), TRUE)
    BY <1>5 DEF SubscribeAgain, TypeOK
  <2>2. CopyOf(sub[d], doc)
    BY <2>1, CopiesFollow
  <2> HIDE DEF doc
  <2> QED
    BY <2>1, <2>2, <1>4
<1>6. ASSUME NEW r \in Requests, NEW d \in Subs, Verify(r, d) PROVE CopiesInv'
  <2>1. d \in stored /\ sub[d] \in Documents /\ Goes(r, Replace("verify", d, Verified(sub[d])), FALSE)
    BY <1>6 DEF Verify, TypeOK
  <2> QED
    BY <2>1, <1>4, CopiesFollow
<1>7. ASSUME NEW r \in Requests, NEW d \in Subs, Unsubscribe(r, d) PROVE CopiesInv'
  <2> DEFINE doc == [sub[d] EXCEPT !.unsubscribed = TRUE]
  <2>1. d \in stored /\ sub[d] \in Documents /\ Goes(r, Replace("unsubscribe", d, doc), FALSE)
    BY <1>7 DEF Unsubscribe, TypeOK
  <2>2. CopyOf(sub[d], doc)
    BY <2>1, CopiesFollow
  <2> HIDE DEF doc
  <2> QED
    BY <2>1, <2>2, <1>4
<1>8. ASSUME NEW r \in Requests, NEW d \in Subs, ResendVerification(r, d) PROVE CopiesInv'
  <2> DEFINE doc == WithNewToken([sub[d] EXCEPT !.verified = FALSE])
  <2>1. /\ d \in stored /\ ~Active(sub[d]) /\ sub[d] \in Documents
        /\ Goes(r, Replace("resend", d, doc), TRUE)
    BY <1>8 DEF ResendVerification, TypeOK
  <2>2. CopyOf(sub[d], doc)
    BY <2>1, CopiesFollow
  <2> HIDE DEF doc
  <2> QED
    BY <2>1, <2>2, <1>4
<1>9. ASSUME NEW r \in Requests, job' = [job EXCEPT ![r] = Idle], OneRecordPerAddress'
      PROVE  CopiesInv'
  BY <1>9 DEF OneAtATime, TypeOK, CopiesInv, Idle
<1>10. ASSUME NEW r \in Requests, NEW d \in Subs, Insert(r, d) PROVE CopiesInv'
  <2>1. OneRecordPerAddress'
    BY <1>10 DEF Insert, CopiesInv, OneRecordPerAddress, TypeOK
  <2> QED
    BY <1>9, <1>10, <2>1 DEF Insert
<1>11. ASSUME NEW r \in Requests, ReplaceOne(r) PROVE CopiesInv'
  <2>1. \A d \in stored : sub'[d].email = sub[d].email
    BY <1>11 DEF ReplaceOne, CopiesInv, CopyOf, TypeOK
  <2>2. OneRecordPerAddress'
    BY <1>11, <2>1 DEF ReplaceOne, CopiesInv, OneRecordPerAddress
  <2> QED
    BY <1>9, <1>11, <2>2 DEF ReplaceOne
<1>12. ASSUME NEW r \in Requests, WriteFails(r) PROVE CopiesInv'
  <2>1. OneRecordPerAddress'
    BY <1>12 DEF WriteFails, CopiesInv, OneRecordPerAddress
  <2> QED
    BY <1>9, <1>12, <2>1 DEF WriteFails
<1> QED
  BY <1>1, <1>2, <1>3, <1>5, <1>6, <1>7, <1>8, <1>10, <1>11, <1>12 DEF Next, Request

\* With one request at a time an address never has two records, although
\* nothing but the request's own search stands in the way.
THEOREM OneRecord ==
  ASSUME OneAtATime
  PROVE  Spec => []OneRecordPerAddress
<1>1. TypeOK /\ CopiesInv /\ [Next]_vars => CopiesInv'
  BY CopiesStep
<1>2. CopiesInv => OneRecordPerAddress
  BY DEF CopiesInv
<1> QED
  BY <1>1, <1>2, CopiesInit, TypeCorrect, PTL DEF Spec

\* With one request at a time a record never gets back a token that was mailed
\* before: used, replaced and expired links are dead for good.
THEOREM OldTokensDead ==
  ASSUME OneAtATime
  PROVE  Spec => OldTokensStayDead
<1>1. TypeOK /\ CopiesInv /\ [Next]_vars => CopiesInv'
  BY CopiesStep
<1>2. ASSUME TypeOK, CopiesInv, [Next]_vars, NEW d \in stored, sub'[d] # sub[d]
      PROVE  sub'[d].token \in {sub[d].token, None} \cup (Tokens \ mailed)
  <2>1. PICK r \in Requests : ReplaceOne(r)
    BY <1>2 DEF TypeOK, Next, Request, vars, Advance, DispatchSubscriberEmail, DeleteByID,
         PruneUnverified, SubscribeNew, SubscribeAgain, Verify, Unsubscribe,
         ResendVerification, Goes, Insert, WriteFails
  <2> QED
    BY <1>2, <2>1 DEF ReplaceOne, CopiesInv, CopyOf, TypeOK
<1>3. TypeOK /\ CopiesInv /\ [Next]_vars =>
        (\A d \in stored : d \in stored' /\ sub[d].token # sub'[d].token
           => sub'[d].token \in {None} \cup (Tokens \ mailed))
  BY <1>2
<1> QED
  BY <1>1, <1>3, CopiesInit, TypeCorrect, PTL DEF Spec, OldTokensStayDead

-----------------------------------------------------------------------------
(* The refinement, step by step *)

\* With one record per address, the record's standing is its address's.
LEMMA StateOfRecord ==
  ASSUME OneRecordPerAddress, NEW d \in Subs, d \in stored, NEW a, sub[d].email = a
  PROVE  State(a) = Standing(sub[d])
<1> DEFINE M == {e \in stored : sub[e].email = a}
<1>1. M = {d}
  BY DEF OneRecordPerAddress
<1> HIDE DEF M
<1>2. State(a) = IF M = {} THEN "absent" ELSE IF \E e \in M : Active(sub[e]) THEN "active"
                 ELSE IF \E e \in M : sub[e].unsubscribed THEN "left" ELSE "pending"
  BY DEF State, M
<1> QED
  BY <1>1, <1>2 DEF Standing

\* The same of the next state.
LEMMA StateOfNextRecord ==
  ASSUME OneRecordPerAddress', NEW d \in Subs, d \in stored', NEW a, sub'[d].email = a
  PROVE  State(a)' = Standing(sub'[d])
<1> DEFINE M == {e \in stored' : sub'[e].email = a}
<1>1. M = {d}
  BY DEF OneRecordPerAddress
<1> HIDE DEF M
<1>2. State(a)' = IF M = {} THEN "absent" ELSE IF \E e \in M : Active(sub'[e]) THEN "active"
                  ELSE IF \E e \in M : sub'[e].unsubscribed THEN "left" ELSE "pending"
  BY DEF State, M
<1> QED
  BY <1>1, <1>2 DEF Standing

\* A change of one record, of address a, changes no other address.
LEMMA OthersStay ==
  ASSUME NEW d \in Subs, NEW a \in Addresses,
         d \in stored => sub[d].email = a, d \in stored' => sub'[d].email = a,
         stored' \ {d} = stored \ {d}, \A e \in stored \ {d} : sub'[e] = sub[e]
  PROVE  \A b \in Addresses \ {a} : State(b)' = State(b)
<1> SUFFICES ASSUME NEW b \in Addresses \ {a} PROVE State(b)' = State(b)
  OBVIOUS
<1> DEFINE M == {e \in stored : sub[e].email = b}
           N == {e \in stored' : sub'[e].email = b}
<1>1. M = N /\ \A e \in M : sub'[e] = sub[e]
  OBVIOUS
<1> HIDE DEF M, N
<1>2. (\E e \in M : Active(sub[e])) <=> (\E e \in N : Active(sub'[e]))
  BY <1>1
<1>3. (\E e \in M : sub[e].unsubscribed) <=> (\E e \in N : sub'[e].unsubscribed)
  BY <1>1
<1>4. State(b) = IF M = {} THEN "absent" ELSE IF \E e \in M : Active(sub[e]) THEN "active"
                 ELSE IF \E e \in M : sub[e].unsubscribed THEN "left" ELSE "pending"
  BY DEF State, M
<1>5. State(b)' = IF N = {} THEN "absent" ELSE IF \E e \in N : Active(sub'[e]) THEN "active"
                  ELSE IF \E e \in N : sub'[e].unsubscribed THEN "left" ELSE "pending"
  BY DEF State, N
<1> QED
  BY <1>1, <1>2, <1>3, <1>4, <1>5

\* OptIn may move an address from one state to the other, or leaves it.
OptInMove(from, to) ==
  \/ to = from
  \/ from \in {"absent", "left"} /\ to = "pending"
  \/ from = "pending" /\ to = "active"
  \/ from \in {"pending", "active"} /\ to = "left"
  \/ from \in {"pending", "active", "left"} /\ to = "absent"

\* One address moves as OptIn allows: OptIn makes that move or stutters.
LEMMA OneMoves ==
  ASSUME NEW x \in Addresses, \A b \in Addresses \ {x} : State(b)' = State(b),
         OptInMove(State(x), State(x)')
  PROVE  [Lifecycle!Next]_(Lifecycle!vars)
<1> DEFINE f == [a \in Addresses |-> State(a)]
           g == [b \in Addresses |-> State(b)']
<1>1. f' = g
  OBVIOUS
<1>2. g = [f EXCEPT ![x] = State(x)']
  OBVIOUS
<1>3. f[x] = State(x) /\ DOMAIN f = Addresses
  OBVIOUS
<1>4. CASE State(x)' = State(x)
  <2>1. f' = f
    BY <1>1, <1>4
  <2> QED
    BY <2>1 DEF Lifecycle!vars
<1>5. ASSUME NEW S, NEW new, State(x) \in S, State(x)' = new PROVE Lifecycle!Move(x, S, new)
  BY <1>1, <1>2, <1>3, <1>5 DEF Lifecycle!Move
<1>6. CASE State(x) \in {"absent", "left"} /\ State(x)' = "pending"
  BY <1>5, <1>6 DEF Lifecycle!Next, Lifecycle!Ask
<1>7. CASE State(x) = "pending" /\ State(x)' = "active"
  BY <1>5, <1>7 DEF Lifecycle!Next, Lifecycle!Confirm
<1>8. CASE State(x) \in {"pending", "active"} /\ State(x)' = "left"
  BY <1>5, <1>8 DEF Lifecycle!Next, Lifecycle!Leave
<1>9. CASE State(x) \in {"pending", "active", "left"} /\ State(x)' = "absent"
  BY <1>5, <1>9 DEF Lifecycle!Next, Lifecycle!Forget
<1> QED
  BY <1>4, <1>6, <1>7, <1>8, <1>9 DEF OptInMove

LEMMA NothingMoves ==
  ASSUME UNCHANGED <<stored, sub>> PROVE [Lifecycle!Next]_(Lifecycle!vars)
<1>1. \A b \in Addresses : State(b)' = State(b)
  BY DEF State
<1> QED
  BY <1>1 DEF Lifecycle!vars

LEMMA OptInStep ==
  ASSUME OneAtATime, TypeOK, CopiesInv, CopiesInv', [Next]_vars
  PROVE  [Lifecycle!Next]_(Lifecycle!vars)
<1>1. CASE UNCHANGED <<stored, sub>>
  BY <1>1, NothingMoves
<1>2. ASSUME NEW d \in Subs, DeleteByID(d) \/ PruneUnverified(d)
      PROVE  [Lifecycle!Next]_(Lifecycle!vars)
  <2>1. d \in stored /\ stored' = stored \ {d} /\ sub' = sub /\ sub[d] \in Documents
    BY <1>2 DEF DeleteByID, PruneUnverified, TypeOK
  <2>2. PICK x \in Addresses : x = sub[d].email
    BY <2>1 DEF Documents
  <2>3. State(x) = Standing(sub[d])
    BY <2>1, <2>2, StateOfRecord DEF CopiesInv
  <2>4. State(x)' = "absent"
    <3>1. {e \in stored' : sub'[e].email = x} = {}
      BY <2>1, <2>2 DEF CopiesInv, OneRecordPerAddress
    <3> QED
      BY <3>1 DEF State
  <2>5. \A b \in Addresses \ {x} : State(b)' = State(b)
    BY <2>1, <2>2, OthersStay
  <2>6. OptInMove(State(x), State(x)')
    BY <2>3, <2>4 DEF OptInMove, Standing
  <2> QED
    BY <2>2, <2>5, <2>6, OneMoves
<1>3. ASSUME NEW r \in Requests, NEW d \in Subs, Insert(r, d)
      PROVE  [Lifecycle!Next]_(Lifecycle!vars)
  <2>1. /\ d \notin stored /\ stored' = stored \cup {d} /\ sub'[d] = job[r].doc
        /\ \A e \in stored : sub'[e] = sub[e]
    BY <1>3 DEF Insert, TypeOK
  <2>2. job[r].doc \in Documents /\ job[r].kind = "insert"
    BY <1>3, JobTyped DEF Insert, TypeOK, Idle
  <2>3. PICK x \in Addresses : x = job[r].doc.email
    BY <2>2 DEF Documents
  <2>4. State(x) = "absent"
    <3>1. {e \in stored : sub[e].email = x} = {}
      BY <2>2, <2>3 DEF CopiesInv
    <3> QED
      BY <3>1 DEF State
  <2>5. State(x)' = "pending"
    <3>1. State(x)' = Standing(sub'[d])
      BY <2>1, <2>3, StateOfNextRecord DEF CopiesInv
    <3> QED
      BY <2>1, <2>2, <3>1 DEF CopiesInv
  <2>6. \A b \in Addresses \ {x} : State(b)' = State(b)
    BY <2>1, <2>3, OthersStay
  <2>7. OptInMove(State(x), State(x)')
    BY <2>4, <2>5 DEF OptInMove
  <2> QED
    BY <2>3, <2>6, <2>7, OneMoves
<1>4. ASSUME NEW r \in Requests, ReplaceOne(r), job[r].id \in stored
      PROVE  [Lifecycle!Next]_(Lifecycle!vars)
  <2>8. PICK d \in Subs : d = job[r].id
    BY <1>4 DEF TypeOK
  <2>1. /\ d \in stored /\ stored' = stored /\ sub'[d] = job[r].doc
        /\ \A e \in stored \ {d} : sub'[e] = sub[e]
        /\ sub[d] \in Documents /\ CopyOf(sub[d], job[r].doc)
    BY <1>4, <2>8 DEF ReplaceOne, TypeOK, CopiesInv
  <2>2. PICK x \in Addresses : x = sub[d].email /\ x = sub'[d].email
    BY <2>1 DEF Documents, CopyOf
  <2>3. State(x) = Standing(sub[d])
    BY <2>1, <2>2, StateOfRecord DEF CopiesInv
  <2>4. State(x)' = Standing(sub'[d])
    BY <2>1, <2>2, StateOfNextRecord DEF CopiesInv
  <2>5. \A b \in Addresses \ {x} : State(b)' = State(b)
    BY <2>1, <2>2, OthersStay
  <2>6. OptInMove(State(x), State(x)')
    BY <2>1, <2>3, <2>4 DEF OptInMove, CopyOf
  <2> QED
    BY <2>2, <2>5, <2>6, OneMoves
<1>5. ASSUME NEW r \in Requests, ReplaceOne(r), job[r].id \notin stored
      PROVE  UNCHANGED <<stored, sub>>
  BY <1>5 DEF ReplaceOne
<1>6. \/ UNCHANGED <<stored, sub>>
      \/ \E d \in Subs : DeleteByID(d) \/ PruneUnverified(d)
      \/ \E r \in Requests : ReplaceOne(r) \/ \E d \in Subs : Insert(r, d)
  BY DEF Next, Request, vars, Advance, DispatchSubscriberEmail, SubscribeNew, SubscribeAgain,
         Verify, Unsubscribe, ResendVerification, Goes, WriteFails
<1> QED
  BY <1>1, <1>2, <1>3, <1>4, <1>5, <1>6

\* With one request at a time the records implement OptIn, whatever deletions,
\* pruning, notifications and failing writes come in between: nobody who left
\* becomes active without asking and confirming again.
THEOREM RecordsImplementOptIn ==
  ASSUME OneAtATime
  PROVE  Spec => ImplementsOptIn
<1>1. Init => Lifecycle!Init
  BY DEF Init, Lifecycle!Init, State
<1>2. TypeOK /\ CopiesInv /\ [Next]_vars => CopiesInv'
  BY CopiesStep
<1>3. TypeOK /\ CopiesInv /\ CopiesInv' /\ [Next]_vars
        => [Lifecycle!Next]_(Lifecycle!vars)
  BY OptInStep
<1> QED
  BY <1>1, <1>2, <1>3, CopiesInit, TypeCorrect, PTL DEF Spec, ImplementsOptIn, Lifecycle!Spec

=============================================================================

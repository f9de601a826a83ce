---------------------------- MODULE DocumentStore ----------------------------
(***************************************************************************)
(* What the file store promises to its callers: a map from the open        *)
(* documents to their newest text, where every call takes effect, and gets *)
(* its answer, in one step between its beginning and its return.           *)
(***************************************************************************)
EXTENDS Integers

CONSTANTS URI, Content, Version, None,
          Writers, Readers,
          Rejected   \* the documents no text is taken for

VARIABLES
  docs,    \* each document: None, or the newest version and its text
  call,    \* the call each caller is in
  answer   \* what each caller's last call returned

vars == <<docs, call, answer>>

Caller == Writers \union Readers

NoCall == [op |-> "none"]
Get(u) == [op |-> "get", uri |-> u]
Close(u) == [op |-> "close", uri |-> u]
Open(u, v, c) == [op |-> "open", uri |-> u, version |-> v, content |-> c]
Change(u, v, c) == [op |-> "update", uri |-> u, version |-> v, content |-> c]

NoAnswer == [is |-> "none"]
Ok == [is |-> "ok"]
Error == [is |-> "error"]
Found(d) == [is |-> "found", version |-> d.version, content |-> d.content]

Init ==
  /\ docs = [u \in URI |-> None]
  /\ call = [p \in Caller |-> NoCall]
  /\ answer = [p \in Caller |-> NoAnswer]

Begin(p) ==
  /\ call[p] = NoCall
  /\ \E u \in URI :
       \/ call' = [call EXCEPT ![p] = Get(u)]
       \/ p \in Writers /\ call' = [call EXCEPT ![p] = Close(u)]
       \/ /\ p \in Writers
          /\ \E v \in Version, c \in Content :
               \/ call' = [call EXCEPT ![p] = Open(u, v, c)]
               \/ call' = [call EXCEPT ![p] = Change(u, v, c)]
  /\ answer' = [answer EXCEPT ![p] = NoAnswer]
  /\ UNCHANGED docs

\* A text whose version is not newer is ignored; a new document is at version -1.
Newer(d, v, c) == IF v > d.version THEN [version |-> v, content |-> c] ELSE d
New == [version |-> -1, content |-> None]

Effect(k, d) ==
  LET u == k.uri IN
    \/ /\ k.op = "get" /\ docs[u] # None /\ d = Found(docs[u]) /\ UNCHANGED docs
    \/ /\ k.op = "close" /\ docs[u] # None /\ d = Ok
       /\ docs' = [docs EXCEPT ![u] = None]
    \/ /\ k.op = "open" /\ docs[u] = None /\ u \notin Rejected /\ d = Ok
       /\ docs' = [docs EXCEPT ![u] = Newer(New, k.version, k.content)]
    \/ /\ k.op = "update" /\ docs[u] # None /\ u \notin Rejected /\ d = Ok
       /\ docs' = [docs EXCEPT ![u] = Newer(docs[u], k.version, k.content)]

\* Only a call that cannot take effect is refused.
Refused(k) ==
  \/ k.op \in {"get", "close", "update"} /\ docs[k.uri] = None
  \/ k.op = "open" /\ docs[k.uri] # None
  \/ k.op \in {"open", "update"} /\ k.uri \in Rejected

Serve(p) ==
  /\ call[p] # NoCall
  /\ \E d \in {Ok, Error} \union {Found(docs[u]) : u \in {w \in URI : docs[w] # None}} :
       /\ answer' = [answer EXCEPT ![p] = d]
       /\ Effect(call[p], d) \/ (d = Error /\ Refused(call[p]) /\ UNCHANGED docs)
  /\ call' = [call EXCEPT ![p] = NoCall]

Next == \E p \in Caller : Begin(p) \/ Serve(p)

Spec == Init /\ [][Next]_vars
=============================================================================

------------------------------- MODULE Adapters -------------------------------
(***************************************************************************)
(* One call of complete() of an adapter (router/adapters/anthropic.py and  *)
(* openai.py): what becomes of what happened on the wire.  A reply is a    *)
(* response with a status and a body, or, with status 0, an httpx error.   *)
(***************************************************************************)
EXTENDS Integers, Sequences

\* The adapters of a process that was given keys for some providers: live ones
\* if there are any, the mock otherwise.  (api/app.py)
BuildAdapters(keys) ==
    LET live == SelectSeq(<<"anthropic", "openai">>, LAMBDA p : p \in keys)
    IN  IF live = <<>> THEN <<"mock">> ELSE live

Transport == {"timeout", "connect", "protocol", "network"}  \* the errors caught

\* The bodies of a response below 400: a message whose text is a verdict, one
\* with another text or with none, an OpenAI message with content null, and
\* something that is not the JSON of a message.
Body == {"verdict", "prose", "null", "garbage"}

\* Bound: the status codes of the tables, and one or two that are in none.
Status == {200, 307, 400, 401, 403, 404, 409, 422, 429, 500, 502, 503, 504, 529}

Reply == [status : {0}, body : Transport \cup {"other"}]
         \cup [status : Status, body : Body]

TransientStatus == {429, 502, 503, 504, 529}
PermanentStatus == {400, 401, 403, 404, 422}

\* Seeded bug: only the listed statuses are told apart.
IsTransientBug(reply) ==
    \/ reply.status = 0 /\ reply.body \in Transport
    \/ reply.status \in TransientStatus

\* TransientError: an error of the connection, a listed status, any other 5xx.
\* (OpenAI's table lacks 529, which is a 5xx.)
IsTransient(reply) ==
    \/ reply.status = 0 /\ reply.body \in Transport
    \/ reply.status \in TransientStatus
    \/ reply.status >= 500 /\ reply.status \notin PermanentStatus

\* complete() returned.  What it returns need not be text.
IsAnswer(reply) == reply.status \in 1..399 /\ reply.body # "garbage"

\* What the tests and the types call an outage, and what they call a rejection.
Outage    == {r \in Reply : \/ r.status = 0 /\ r.body # "other"
                            \/ r.status \in 500..599 \cup {429}}
Rejection == {r \in Reply : r.status \in 400..499 \ {429}}
Healthy   == {r \in Reply : r.status = 200 /\ r.body = "verdict"}
=============================================================================

------------------------------ MODULE Session -------------------------------
(***************************************************************************)
(* The session middleware of src/fasthttp-routing/middleware/session with  *)
(* its Redis store: Config.Handle takes a Data from the pool, loads the    *)
(* session of the client's cookie, runs the handlers, commits and sends    *)
(* the cookie.  Requests of one client may overlap.  A value, a CSRF token *)
(* and a session are told apart by the client they were made for.          *)
(*                                                                         *)
(* A client sends the cookie it was given, or a text of its own that       *)
(* passes ValidateHash, of any length; one that does not pass is like no   *)
(* cookie.  The texts of different clients differ, and none begins a token *)
(* drawn for another client.  All short texts have one length here.        *)
(***************************************************************************)
EXTENDS Integers, FiniteSets, Sequences

CONSTANTS Visitors,      \* clients, each with one cookie
          SessionReqs,   \* request goroutines
          Datas,         \* Data objects of the pool
          MaxTokens,     \* bound: session tokens GenerateToken2 draws, 1, 2, ...
          TextLengths,   \* of the texts clients make up: of "short", "full" and "long"
          Keys, Types,   \* keys of session values, their types; "json" is a type of JSON
          MaxSessionReqs, MaxSessionOps,   \* bounds: requests, operations per request
          Nil

ASSUME SessionAssumption ==
  /\ MaxTokens \in Nat /\ MaxSessionReqs \in Nat /\ MaxSessionOps \in Nat
  /\ Nil \notin Visitors /\ \A v \in Visitors : v \notin Nat
  /\ TextLengths \subseteq {"short", "full", "long"}

VARIABLES cookie,   \* [Visitors -> text]: the cookie the client was given
          redis,    \* key -> [csrf, values]; a key is <<prefix, head, tail>>
          data,     \* [Datas -> [head, tail, len, moved, csrf, values, status]]
          free,     \* the Datas in the pool
          sreq,     \* [SessionReqs -> [pc, v, d, new, ops]]
          drawn,    \* the tokens drawn so far are 1 .. drawn
          nreqs,
          kept,     \* history: [Visitors -> values its last request left, or Nil]
          clean     \* history: [SessionReqs -> [alone, flushed, loaded]]

sessionVars == <<cookie, redis, data, free, sreq, drawn, nreqs, kept, clean>>

\* A text is a token that was drawn or one of a client's own, and short (of
\* fewer than UrlEncodedTokenLen bytes), full or long (of more).
NoToken == 0
NoText == [who |-> NoToken, len |-> "cut"]
Drawn(t) == [who |-> t, len |-> "full"]
OwnTexts(v) == {[who |-> v, len |-> l] : l \in TextLengths}

NoValues == [k \in {} |-> Nil]

\* A map with one entry set; the entries of f, and those of g for other keys
With(f, k, x) == [y \in DOMAIN f \cup {k} |-> IF y = k THEN x ELSE f[y]]
Merged(f, g) == [y \in DOMAIN f \cup DOMAIN g |-> IF y \in DOMAIN f THEN f[y] ELSE g[y]]

\* JSONCodec.Decode of what Encode wrote: a value is an int, or a time, that
\* JSON gives back as another type, or it is of a type of JSON.
Decoded(f) == [k \in DOMAIN f |-> [f[k] EXCEPT !.type = "json"]]

NotClean == [alone |-> FALSE, flushed |-> FALSE, loaded |-> NoValues]
NoRequest == [pc |-> "idle", v |-> Nil, d |-> Nil, new |-> FALSE, ops |-> 0]

\* Manager.dataPool's New: the token's array holds the prefix and no token yet
FreshData == [head |-> NoToken, tail |-> NoToken, len |-> "cut", moved |-> FALSE,
              csrf |-> Nil, values |-> NoValues, status |-> "Unmodified"]

\* Mutant: the values stay in the pooled Data.
resetKeepsValues(d) == [d EXCEPT !.len = "cut", !.csrf = Nil, !.status = "Unmodified"]

\* Data.reset: the token is cut to length 0, its bytes stay in the array
reset(d) == [d EXCEPT !.len = "cut", !.csrf = Nil, !.values = NoValues, !.status = "Unmodified"]

\* The text is copied over the bytes in the array of the token.  A short one
\* leaves the tail of the token before; a long one does not fit and moves to an
\* array without the prefix in front of it.
SetToken(d, text) ==
  [d EXCEPT !.head = text.who, !.tail = IF text.len = "short" THEN @ ELSE text.who,
            !.len = text.len, !.moved = @ \/ text.len = "long"]

SessionInit ==
  /\ cookie = [v \in Visitors |-> NoText] /\ redis = [k \in {} |-> Nil]
  /\ data = [d \in Datas |-> FreshData] /\ free = Datas
  /\ sreq = [p \in SessionReqs |-> NoRequest]
  /\ drawn = 0 /\ nreqs = 0
  /\ kept = [v \in Visitors |-> Nil]
  /\ clean = [p \in SessionReqs |-> NotClean]

\* doStoreFind, doStoreCommit and doStoreDelete slice the array from
\* len(sessionPrefix) bytes in front of the token on, whatever its length: the
\* prefix (1), or in front of an array that has moved any bytes (0 or 1).
InFront(d) == IF d.moved THEN {0, 1} ELSE {1}
Key(d, f) == <<f, d.head, d.tail>>

\* RedisStore.Delete puts the prefix in front of the key once more (2);
\* DeleteCtx does not.
DeleteKey(d, f, withCtx) == Key(d, IF withCtx THEN f ELSE 2)
Deleted(k) == [x \in DOMAIN redis \ {k} |-> redis[x]]

D(p) == data[sreq[p].d]
Others(p, v) == {q \in SessionReqs \ {p} : sreq[q].pc # "idle" /\ sreq[q].v = v}

\* getSession: a Data from the pool gets the text of the cookie if isValidToken
\* says so, else a token that is drawn
getSession(p, v, d, text) ==
  LET new == text = NoText IN
  /\ sreq[p].pc = "idle" /\ nreqs < MaxSessionReqs /\ d \in free
  /\ new => drawn < MaxTokens
  /\ free' = free \ {d} /\ nreqs' = nreqs + 1
  /\ drawn' = IF new THEN drawn + 1 ELSE drawn
  /\ data' = [data EXCEPT ![d] = SetToken(data[d], IF new THEN Drawn(drawn + 1) ELSE text)]
  /\ sreq' = [sreq EXCEPT ![p] = [pc |-> "start", v |-> v, d |-> d, new |-> new, ops |-> 0]]
  /\ clean' = [q \in SessionReqs |->
                 IF q = p THEN [NotClean EXCEPT !.alone = /\ Others(p, v) = {}
                                                          /\ text = cookie[v] /\ ~data[d].moved]
                 ELSE IF q \in Others(p, v) THEN [clean[q] EXCEPT !.alone = FALSE] ELSE clean[q]]
  /\ UNCHANGED <<cookie, redis, kept>>

\* Data.Start and LoadSession; a session without CSRF token gets one
Start(p) ==
  /\ sreq[p].pc = "start"
  /\ \E f \in InFront(D(p)) :
       LET k == Key(D(p), f)
           found == ~sreq[p].new /\ k \in DOMAIN redis
           values == IF found THEN Decoded(redis[k].values) ELSE D(p).values
           csrf == IF found THEN redis[k].csrf ELSE D(p).csrf
       IN /\ data' = [data EXCEPT ![sreq[p].d] =
                        [@ EXCEPT !.values = values, !.csrf = IF csrf = Nil THEN sreq[p].v ELSE csrf]]
          /\ clean' = [clean EXCEPT ![p].loaded = values]
  /\ sreq' = [sreq EXCEPT ![p].pc = "run"]
  /\ UNCHANGED <<cookie, redis, free, drawn, nreqs, kept>>

\* LoadSession cannot decode what the store has: it is to be deleted, but the
\* CSRF token is nil and Start panics drawing one.  The Data is not released.
DecodeFails(p) ==
  /\ sreq[p].pc = "start" /\ ~sreq[p].new
  /\ \E f \in InFront(D(p)) :
       /\ Key(D(p), f) \in DOMAIN redis
       /\ redis' = Deleted(DeleteKey(D(p), f, FALSE))
  /\ sreq' = [sreq EXCEPT ![p] = NoRequest] /\ clean' = [clean EXCEPT ![p] = NotClean]
  /\ UNCHANGED <<cookie, data, free, drawn, nreqs, kept>>

\* The store fails in LoadSession or in Commit, or Encode does: no cookie is sent
StoreFails(p) ==
  /\ \/ sreq[p].pc = "start" /\ ~sreq[p].new
     \/ sreq[p].pc \in {"commit", "set"}
  /\ sreq' = [sreq EXCEPT ![p].pc = "failed"]
  /\ UNCHANGED <<cookie, redis, data, free, drawn, nreqs, kept, clean>>

\* One operation of a handler on the session data
Op(p, new) ==
  /\ data' = [data EXCEPT ![sreq[p].d] = new]
  /\ sreq' = [sreq EXCEPT ![p].ops = @ + 1]
  /\ UNCHANGED <<cookie, free, nreqs, kept>>

\* Data.Put, RememberMe
Put(p, k, type) ==
  /\ Op(p, [D(p) EXCEPT !.values = With(@, k, [by |-> sreq[p].v, type |-> type]),
                        !.status = "Modified"])
  /\ UNCHANGED <<redis, drawn, clean>>

\* Mutant: the data is not marked as modified.
PopUnmarked(p, k) ==
  /\ k \in DOMAIN D(p).values
  /\ Op(p, [D(p) EXCEPT !.values = [x \in DOMAIN @ \ {k} |-> @[x]]])
  /\ UNCHANGED <<redis, drawn, clean>>

\* Data.Pop and Remove: nothing happens when the key is absent
Pop(p, k) ==
  /\ k \in DOMAIN D(p).values
  /\ Op(p, [D(p) EXCEPT !.values = [x \in DOMAIN @ \ {k} |-> @[x]], !.status = "Modified"])
  /\ UNCHANGED <<redis, drawn, clean>>

\* Data.Clear
Clear(p) ==
  /\ D(p).values # NoValues
  /\ Op(p, [D(p) EXCEPT !.values = NoValues, !.status = "Modified"])
  /\ UNCHANGED <<redis, drawn, clean>>

\* Data.Flush leaves the status alone
Flush(p) ==
  /\ D(p).values # NoValues
  /\ Op(p, [D(p) EXCEPT !.values = NoValues])
  /\ clean' = [clean EXCEPT ![p].flushed = TRUE]
  /\ UNCHANGED <<redis, drawn>>

\* Data.Migrate, RenewToken (destroy) and Invalidate (destroy, and flushes)
Migrate(p, destroy, flush) ==
  \E f \in InFront(D(p)) :
    /\ drawn < MaxTokens
    /\ Op(p, [SetToken(D(p), Drawn(drawn + 1)) EXCEPT !.status = "Modified",
                !.values = IF flush THEN NoValues ELSE @])
    /\ drawn' = drawn + 1
    /\ redis' = IF destroy /\ D(p).len # "cut" THEN Deleted(DeleteKey(D(p), f, FALSE)) ELSE redis
    /\ UNCHANGED clean

\* Manager.Destroy: reset takes the status Destroyed back
Destroy(p, withCtx) ==
  \E f \in InFront(D(p)) :
    /\ Op(p, reset([D(p) EXCEPT !.status = "Destroyed"]))
    /\ redis' = Deleted(DeleteKey(D(p), f, withCtx))
    /\ UNCHANGED <<drawn, clean>>

\* Manager.Destroy returns the error of the store, which may have deleted the key
DestroyFails(p, withCtx) ==
  \E f \in InFront(D(p)) :
    /\ Op(p, D(p))
    /\ redis' \in {redis, Deleted(DeleteKey(D(p), f, withCtx))}
    /\ UNCHANGED <<drawn, clean>>

\* Data.MergeSession of an earlier session t of the same client, in a slice with
\* the prefix in front; its delete has the prefix twice.  With other slices, with
\* a ctx (FindCtx has it twice) and for data Decode rejects nothing changes.
MergeSession(p, t) ==
  LET from == SetToken(FreshData, Drawn(t))
      k == Key(from, 1)
  IN /\ t # D(p).head /\ k \in DOMAIN redis /\ redis[k].csrf = sreq[p].v
     /\ Op(p, [D(p) EXCEPT !.values = Merged(@, Decoded(redis[k].values)), !.status = "Modified"])
     /\ redis' = Deleted(DeleteKey(from, 1, FALSE))
     /\ UNCHANGED <<drawn, clean>>

\* The handlers return and commit starts
Handled(p) ==
  /\ sreq[p].pc = "run"
  /\ sreq' = [sreq EXCEPT ![p].pc = IF D(p).status = "Modified" THEN "set" ELSE "commit",
                           ![p].ops = 0]
  /\ UNCHANGED <<cookie, redis, data, free, drawn, nreqs, kept, clean>>

\* RedisStore.Commit without modification: EXPIREAT, and SET only if the key is gone
Expireat(p) ==
  /\ sreq[p].pc = "commit"
  /\ \E f \in InFront(D(p)) :
       sreq' = [sreq EXCEPT ![p].pc = IF Key(D(p), f) \in DOMAIN redis THEN "cookie" ELSE "set"]
  /\ UNCHANGED <<cookie, redis, data, free, drawn, nreqs, kept, clean>>

\* RedisStore.Commit: SET
Set(p) ==
  /\ sreq[p].pc = "set"
  /\ \E f \in InFront(D(p)) :
       redis' = With(redis, Key(D(p), f), [csrf |-> D(p).csrf, values |-> D(p).values])
  /\ sreq' = [sreq EXCEPT ![p].pc = "cookie"]
  /\ UNCHANGED <<cookie, data, free, drawn, nreqs, kept, clean>>

\* The cookie in the response
Token(d) == IF d.len = "cut" THEN NoText ELSE [who |-> d.head, len |-> d.len]

\* What a client that sent nothing else meanwhile finds in its next request
Left(p) == IF /\ clean[p].alone /\ D(p).len = "full" /\ ~D(p).moved
              /\ ~(clean[p].flushed /\ D(p).status = "Unmodified")
           THEN D(p).values ELSE Nil

\* The end of handleStatefulRequest and Release: the cookie, the Data back to the pool
Release(p) ==
  LET v == sreq[p].v
  IN /\ sreq[p].pc \in {"cookie", "failed"}
     /\ cookie' = IF sreq[p].pc = "failed" THEN cookie
                  ELSE [cookie EXCEPT ![v] = IF D(p).status = "Destroyed" THEN NoText ELSE Token(D(p))]
     /\ data' = [data EXCEPT ![sreq[p].d] = reset(D(p))]
     /\ free' = free \cup {sreq[p].d}
     /\ sreq' = [sreq EXCEPT ![p] = NoRequest] /\ clean' = [clean EXCEPT ![p] = NotClean]
     /\ kept' = [kept EXCEPT ![v] = IF sreq[p].pc = "failed" THEN Nil ELSE Left(p)]
     /\ UNCHANGED <<redis, drawn, nreqs>>

\* Redis drops a key at its expiry time
Expire(k) ==
  /\ redis' = Deleted(k)
  /\ kept' = [v \in Visitors |-> IF cookie[v].who = k[2] THEN Nil ELSE kept[v]]
  /\ clean' = [p \in SessionReqs |->
                 IF sreq[p].pc # "idle" /\ D(p).head = k[2]
                 THEN [clean[p] EXCEPT !.alone = FALSE] ELSE clean[p]]
  /\ UNCHANGED <<cookie, data, free, sreq, drawn, nreqs>>

Handler(p) ==
  /\ sreq[p].pc = "run" /\ sreq[p].ops < MaxSessionOps
  /\ \/ \E k \in Keys : Pop(p, k) \/ \E type \in Types : Put(p, k, type)
     \/ Clear(p) \/ Flush(p)
     \/ \E destroy \in BOOLEAN, flush \in BOOLEAN :
          (flush => destroy) /\ Migrate(p, destroy, flush)
     \/ \E withCtx \in BOOLEAN : Destroy(p, withCtx) \/ DestroyFails(p, withCtx)
     \/ \E t \in 1 .. drawn : MergeSession(p, t)

SessionNext ==
  \/ \E p \in SessionReqs :
       \/ \E v \in Visitors, d \in Datas :
            \E text \in {NoText, cookie[v]} \cup OwnTexts(v) : getSession(p, v, d, text)
       \/ Start(p) \/ DecodeFails(p) \/ StoreFails(p) \/ Handler(p) \/ Handled(p)
       \/ Expireat(p) \/ Set(p) \/ Release(p)
  \/ \E k \in DOMAIN redis : Expire(k)

SessionSpec == SessionInit /\ [][SessionNext]_sessionVars

-----------------------------------------------------------------------------
\* What a request sees of a session was made for its own client: values and
\* CSRF token come from no other client's session, through a pooled Data, the
\* bytes of a token left in its array, a cookie or the store (DataPool.Release,
\* SetToken, doStoreFind, Commit).
SessionOwn ==
  \A p \in SessionReqs : sreq[p].pc \notin {"idle", "start"} =>
    /\ D(p).csrf \in {Nil, sreq[p].v}
    /\ \A k \in DOMAIN D(p).values : D(p).values[k].by = sreq[p].v

\* A client that sends the cookie it was given, one request at a time, finds in its
\* session what its last request left there, as the codec gives it back (Data's
\* operations mark it Modified; Commit; the cookie follows the token through
\* Migrate).  Not so when the store failed, the session expired or was destroyed,
\* when that request only called Flush, when the cookie is a short or a long text,
\* and on a Data whose array a long text has moved.
SessionKept ==
  \A p \in SessionReqs :
    LET v == sreq[p].v IN
    (sreq[p].pc = "run" /\ clean[p].alone /\ kept[v] # Nil) => clean[p].loaded = Decoded(kept[v])
=============================================================================

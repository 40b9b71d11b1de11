----------------------------- MODULE AppUiFetch -----------------------------
(***************************************************************************)
(* The request helpers of the daemon UI tests, src/pcs_test/tier0/daemon/  *)
(* app/fixtures_app.py: AppUiTestMixin.fetch turns the test's keyword     *)
(* arguments sid= and is_ajax= into a Cookie and an X-Requested-With      *)
(* header, defaults follow_redirects, and hands over to AppTest.fetch,    *)
(* which sends the request and asserts the Strict-Transport-Security     *)
(* header of the answer; get and post go through the same fetch.          *)
(*                                                                         *)
(* A headers= dict is the caller's object: fetch writes into it, so the   *)
(* dicts a test holds are state that outlives one call.  A call's keyword *)
(* arguments are a record whose fields are Absent when not passed.  The   *)
(* server (pcs.daemon) is not under src/: whether its answer carries the  *)
(* HSTS header, and which cookies its Set-Cookie header sets, are free     *)
(* choices.  assert_session_in_response and extract_sid then inspect the  *)
(* answer of the last request.                                             *)
(***************************************************************************)
EXTENDS TLC

CONSTANTS
    Sid,        \* session ids a test can pass as sid=
    HeaderDict, \* dicts a test holds and may pass as headers=
    Absent      \* a keyword argument that is not passed

VARIABLES
    dicts,  \* HeaderDict -> the headers that dict holds now
    last,   \* the last request sent: the call, what went on the wire, the answer
    check   \* the last assert_session_in_response on that answer, or Absent

vars == <<dicts, last, check>>

EmptyDict == [k \in {} |-> Absent]

\* The keyword arguments a test passes to get/post/fetch.
Call ==
    [sid : Sid \cup {Absent}, is_ajax : {TRUE, FALSE, Absent},
     headers : HeaderDict \cup {Absent}, follow_redirects : {TRUE, Absent}]

\* The name of the session cookie, PCSD_SESSION.
PcsdSession == "pcsd.sid"

\* The daemon's Set-Cookie header, parsed: absent, without the session
\* cookie, or setting a session.
SetCookie == {Absent, EmptyDict} \cup { PcsdSession :> s : s \in Sid }

\* kwargs["headers"][key] = value, creating the dict when none was passed.
\* The Cookie value f"{PCSD_SESSION}={sid}" is represented by the sid.
SetHeader(h, key, value) ==
    (key :> value) @@ (IF h = Absent THEN EmptyDict ELSE h)

\* Mutant: the is_ajax branch always starts a new headers dict.
UiHeadersFreshForAjax(call) ==
    LET h0 == IF call.headers = Absent THEN Absent ELSE dicts[call.headers]
        h1 == IF call.sid = Absent THEN h0 ELSE SetHeader(h0, "Cookie", call.sid)
    IN IF call.is_ajax = Absent THEN h1
       ELSE SetHeader(Absent, "X-Requested-With", "XMLHttpRequest")

\* AppUiTestMixin.fetch: the headers after "sid" and "is_ajax" are moved
\* into them.  Both branches test that the keyword is present, not its
\* value, and write into the dict the caller passed.
ui_headers(call) ==
    LET h0 == IF call.headers = Absent THEN Absent ELSE dicts[call.headers]
        h1 == IF call.sid = Absent THEN h0 ELSE SetHeader(h0, "Cookie", call.sid)
    IN IF call.is_ajax = Absent THEN h1
       ELSE SetHeader(h1, "X-Requested-With", "XMLHttpRequest")

\* Mutant: the keyword is passed on as given, without the default.
FollowRedirectsAsGiven(call) == call.follow_redirects

\* follow_redirects is False unless the caller passed it.
follow_redirects(call) ==
    IF call.follow_redirects = Absent THEN FALSE ELSE call.follow_redirects

\* A failed assertTrue/assertEqual, or the KeyError of extract_sid, ends
\* the test method: nothing after it is sent or checked.
TestRunning ==
    /\ last # Absent => last.outcome = "ok"
    /\ check # Absent => check.outcome = "ok"

\* AppUiTestMixin.fetch, then AppTest.fetch: the request goes out with the
\* headers, the caller's dict keeps what was written into it, and the
\* answer's HSTS header is asserted.
Send(call, method) ==
    /\ TestRunning
    /\ \E hsts \in BOOLEAN, set_cookie \in SetCookie :
        /\ dicts' = IF call.headers = Absent THEN dicts
                    ELSE [dicts EXCEPT ![call.headers] = ui_headers(call)]
        /\ last' = [call |-> call, method |-> method,
                    headers |-> ui_headers(call),
                    follow_redirects |-> follow_redirects(call),
                    set_cookie |-> set_cookie,
                    outcome |-> IF hsts THEN "ok" ELSE "AssertionError"]
        /\ check' = Absent

\* AppTest.get (and a direct fetch): the default method.
Get == \E call \in Call : Send(call, "GET")

\* AppTest.post: method and the urlencoded body are added to the kwargs.
Post == \E call \in Call : Send(call, "POST")

\* Mutant: the session is returned without comparing it with sid.
AssertSessionIgnoringSid(cookie, sid) ==
    IF cookie = Absent THEN [outcome |-> "AssertionError", value |-> Absent]
    ELSE IF PcsdSession \notin DOMAIN cookie THEN [outcome |-> "KeyError", value |-> Absent]
    ELSE [outcome |-> "ok", value |-> cookie[PcsdSession]]

\* assert_session_in_response(response, sid): the Set-Cookie header must be
\* there; assertTrue(PCSD_SESSION, cookie) always passes (its first
\* argument is a non-empty string), so a missing session cookie surfaces
\* as the KeyError of cookie[PCSD_SESSION]; with sid given the session
\* must equal it.
assert_session_in_response(cookie, sid) ==
    IF cookie = Absent THEN [outcome |-> "AssertionError", value |-> Absent]
    ELSE IF PcsdSession \notin DOMAIN cookie THEN [outcome |-> "KeyError", value |-> Absent]
    ELSE IF sid # Absent /\ cookie[PcsdSession] # sid
         THEN [outcome |-> "AssertionError", value |-> Absent]
    ELSE [outcome |-> "ok", value |-> cookie[PcsdSession]]

\* A test checks the session of the last answer: extract_sid passes no sid.
AssertSessionInResponse ==
    /\ TestRunning
    /\ last # Absent
    /\ \E sid \in Sid \cup {Absent} :
         check' = [sid |-> sid] @@ assert_session_in_response(last.set_cookie, sid)
    /\ UNCHANGED <<dicts, last>>

\* A test starts with the dicts it builds empty and nothing sent.
Init ==
    /\ dicts = [h \in HeaderDict |-> EmptyDict]
    /\ last = Absent
    /\ check = Absent

Next == Get \/ Post \/ AssertSessionInResponse

Spec == Init /\ [][Next]_vars

-----------------------------------------------------------------------------
(* Properties                                                              *)

HeaderKeys == {"Cookie", "X-Requested-With"}

Has(h, key) == h # Absent /\ key \in DOMAIN h

TypeOK ==
    /\ \A h \in HeaderDict : DOMAIN dicts[h] \subseteq HeaderKeys
    /\ last = Absent \/ /\ last.call \in Call
                        /\ last.method \in {"GET", "POST"}
                        /\ last.follow_redirects \in BOOLEAN
                        /\ last.outcome \in {"ok", "AssertionError"}
                        /\ last.set_cookie \in SetCookie
    /\ check = Absent \/ check.outcome \in {"ok", "AssertionError", "KeyError"}

\* A request made with sid=s carries the session cookie of s, and one made
\* with is_ajax=True the AJAX header, whichever of the two branches of
\* AppUiTestMixin.fetch creates the headers dict and whatever the caller's
\* dict already held.
RequestedHeadersSent ==
    last # Absent =>
      /\ last.call.sid # Absent =>
           Has(last.headers, "Cookie") /\ last.headers["Cookie"] = last.call.sid
      /\ last.call.is_ajax = TRUE => Has(last.headers, "X-Requested-With")
      /\ last.follow_redirects = (last.call.follow_redirects = TRUE)

\* A session check passes only on an answer that set a session, returns
\* that session, and, asked for a particular one, passes only for it:
\* the vacuous assertTrue lets an answer without the session cookie reach
\* the lookup, which must then fail rather than return.
SessionCheckSound ==
    check # Absent /\ check.outcome = "ok" =>
      /\ last.set_cookie # Absent /\ PcsdSession \in DOMAIN last.set_cookie
      /\ check.value = last.set_cookie[PcsdSession]
      /\ check.sid # Absent => check.value = check.sid

\* A request carries a session cookie only when its own call passed sid=
\* (fetch writes the cookie into the caller's headers dict, so a later
\* call with the same dict and no sid sends the old session).
SessionCookieOnlyWithSid ==
    last # Absent /\ Has(last.headers, "Cookie") => last.call.sid # Absent

=============================================================================

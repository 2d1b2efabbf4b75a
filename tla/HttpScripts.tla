---------------------------- MODULE HttpScripts ----------------------------
(***************************************************************************)
(* The probers of pkg/probers that make one HTTP request, each as a script *)
(* of Steps.  The time of the request (http.Client.Timeout, or a context   *)
(* the function makes itself) also covers the reading of the body.         *)
(***************************************************************************)
EXTENDS WireScripts

\* One request whose status the code tells apart, and then its body; what the
\* code reads when nothing can go wrong any more is for diagnostics.
HTTP(request, body) ==
  [first   |-> "request", rtt |-> "request",
   harvest |-> {l \in DOMAIN body :
                  \A o \in DOMAIN body[l].on : body[l].on[o] = "up"},
   step    |-> [request |-> Request(request)] @@ body]

\* A body whose text does not matter, nor whether all of it arrives.
Ignored == [body |-> Step("http", Keep, [whole |-> "up"], Fails("up"))]

\* A body whose reading decides between two returns, after the status did.
Judged(accepted, refused) ==
  [body |-> Step("http", Keep, [whole |-> accepted], Fails("down")),
   junk |-> Step("http", Keep, [whole |-> refused], Fails(refused))]

\* http.go: any status will do; with --expect the body, as far as it can be
\* read, has to contain the text.
Web(expect) ==
  HTTP([answer |-> "body"],
       IF expect
         THEN [body |-> Step("http", Keep, [match |-> "rest", other |-> "down"], Fails("down")),
               rest |-> Step("http", Keep, [whole |-> "up"], Fails("up"))]
         ELSE Ignored)

\* grpc.go: UNAVAILABLE in the header is a failure; a status in the trailer is
\* not seen, because the body is not read.
GRPC == HTTP([s14 |-> "down", status |-> "up", trailer |-> "up"], <<>>)

\* storage.go and o365.go: any answer will do.
Storage == HTTP([answer |-> "body"], Ignored)

O365 == HTTP([answer |-> "body"], Ignored)

\* winrm.go: WS-Man Identify is answered with 200 or with a challenge.
WinRM == HTTP([s200 |-> "body", s401 |-> "body", other |-> "junk"],
              Judged("up", "down"))

\* kms.go: the statuses that show that a provider is operational; for CyberArk,
\* which has no list of its own, any that is not an error of the server.
KmsStatuses == {200, 302, 400, 401, 403, 404, 429, 472, 473, 500, 501, 503}

Operational == [hashicorp |-> {200, 429, 472, 473, 501, 503},
                azure     |-> {200, 401, 403},
                aws       |-> {200, 400, 403, 404},
                gcp       |-> {200, 401, 403, 404},
                cyberark  |-> {s \in KmsStatuses : s < 500}]

KMS(provider) ==
  HTTP([s \in {ToString(n) : n \in KmsStatuses} |->
          IF s \in {ToString(n) : n \in Operational[provider]}
            THEN "body" ELSE "junk"],
       Judged("up", "down"))

\* sso.go: a metadata document, from a server that answers with 2xx or 3xx.
Metadata == HTTP([s2xx |-> "body", other |-> "junk"], Judged("up", "down"))

\* entra.go and sso.go: a discovery document and then, for diagnostics, the
\* keys it points to, for two seconds whatever the timeout.
Discovery ==
  [Metadata EXCEPT
     !.harvest = {"keys"},
     !.step = [@ EXCEPT !.body.on = [whole |-> "keys", other |-> "up"] @@ Fails("down")]
              @@ [keys |-> TryRequest(TwoSeconds, [s200 |-> "up", other |-> "up"], "up")]]
=============================================================================

------------------------------ MODULE Pipeline ------------------------------
(***************************************************************************)
(* spy/governance_pipeline.py over the hybrid encryption of hybrid_engine, *)
(* crypto_engine and the wrap functions of rsa_engine and ecc_engine: text *)
(* encrypted and decrypted in memory.  A pipeline's key provider is a copy *)
(* of the registry of the moment it was made.  The encrypt agent makes a   *)
(* pipeline for each call; whoever decrypts keeps one.                     *)
(*                                                                         *)
(* A call computes its outcome from what it has in hand, then writes one   *)
(* audit event, then returns.  Encryption is what it promises: the data    *)
(* key comes out of its wrapping under the private key, and for ECC the    *)
(* sender and the associated data, it was wrapped with; the text comes out *)
(* under the data key and the associated data it was encrypted with.       *)
(***************************************************************************)
EXTENDS KeyDirectory, Access, Policy, Sequences

CONSTANTS
    Encryptor,      \* processes that run spy/agents/encrypt_agent.py
    Decryptor,      \* processes with a pipeline to decrypt with
    People,         \* users they call it for
    Signals,        \* bound: the policy contexts they give
    Levels,         \* bound: the classifications they ask for
    MaxPackages,    \* bound on the packages returned
    CallFaults,     \* which failures happen: "kill", "audit"
    NoKey           \* no key id

Agent == Encryptor \cup Decryptor

\* What the constants must be; assumed where they are (Artifacts).
PipelineAssumption ==
    /\ Methods \subseteq {"rsa", "ecc"}
    /\ Encryptor \cap Decryptor = {}
    /\ People \subseteq Caller /\ Levels \subseteq Level
    /\ MaxPackages \in Nat
    /\ CallFaults \subseteq {"kill", "audit"}
    /\ NoKey \notin KeyId

VARIABLES
    packages,   \* packages returned so far: the key each is wrapped with
    provider,   \* the registry copy of each agent's provider
    call,       \* the call it has under way, which is to write its event
    reply       \* what the call that ended with the last step returned

callVars == <<packages, provider, call, reply>>

EncKeys == {k \in KeyId : k[1][2] = "enc"}
Package == 1 .. MaxPackages

\* The arguments of a decryption, each taken from some package: sender 0 is
\* no sender.
Request == [method : Methods, key : EncKeys, wrapped : Package,
            sender : {0} \cup Package, aad : Package, message : Package]

CallEvent == [action : {"none", "ACCESS_DENIED", "ENCRYPT", "DECRYPT"},
              result : {"none", "success", "denied", "error"},
              key : EncKeys \cup {NoKey}]
NoEvent == [action |-> "none", result |-> "none", key |-> NoKey]

\* A call that fails leaves nothing but its event.
Call == [what : {"none", "fails", "encrypt"}, event : CallEvent]
        \cup [what : {"decrypt"}, user : People, level : Level, request : Request,
              event : CallEvent]
NoCall == [what |-> "none", event |-> NoEvent]

Reply == [what : {"none", "refused", "ok", "failed", "audit failure", "killed"},
          text : {0} \cup Package, call : Call, event : CallEvent]
NoReply == [what |-> "none", text |-> 0, call |-> NoCall, event |-> NoEvent]

PipelineTypeOK ==
    /\ packages \in Seq(EncKeys) /\ Len(packages) <= MaxPackages
    /\ provider \in [Agent -> {<<>>} \cup Registry]
    /\ call \in [Agent -> Call]
    /\ reply \in Reply

\* <<>>: an agent has no pipeline yet.
PipelineInit ==
    /\ packages = <<>>
    /\ provider = [p \in Agent |-> <<>>]
    /\ call = [p \in Agent |-> NoCall]
    /\ reply = NoReply

-----------------------------------------------------------------------------
(* Packages *)

MethodOf(n) == packages[n][1][1]

\* An RSA package has no sender.
Sender(n) == IF MethodOf(n) = "ecc" THEN n ELSE 0

\* Bug: the sender is left out.
BuildAadMethodOnly(n) == <<MethodOf(n)>>

\* _build_aad: the method, and for ECC the sender's ephemeral key.
BuildAad(n) == IF MethodOf(n) = "ecc" THEN <<"ecc", Sender(n)>> ELSE <<"rsa">>

\* rsa_engine.unwrap_key ignores sender and associated data.
UnwrapsWith(q) ==
    /\ packages[q.wrapped] = q.key
    /\ q.method = "ecc" =>
          q.sender = Sender(q.wrapped) /\ BuildAad(q.aad) = BuildAad(q.wrapped)

\* decrypt_hybrid, with the private key of q.key: the key package n was
\* wrapped with carries the data key of n.
DecryptHybrid(q) ==
    /\ Approved(q.method, q.key[1][1])
    /\ UnwrapsWith(q)
    /\ q.message = q.wrapped /\ BuildAad(q.aad) = BuildAad(q.message)

-----------------------------------------------------------------------------
(* Calls *)

\* A step with which no call ends.
Silent == reply' = NoReply

Idle(p) == call[p] = NoCall

\* LocalPemKeyProvider(); a process may make a new one.
Construct(p) ==
    /\ Idle(p)
    /\ provider' = [provider EXCEPT ![p] = registry]
    /\ Silent
    /\ UNCHANGED <<packages, call>>

Record(action, result, k) == [action |-> action, result |-> result, key |-> k]
Denied == Record("ACCESS_DENIED", "denied", NoKey)
NotPossible == Record("ACCESS_DENIED", "error", NoKey)

\* A call returns, and the encrypt agent with it.
Returns(p, what, n, e) ==
    /\ call' = [call EXCEPT ![p] = NoCall]
    /\ reply' = [what |-> what, text |-> n, call |-> call[p], event |-> e]
    /\ provider' = [provider EXCEPT ![p] = IF p \in Encryptor THEN <<>> ELSE @]

Calls(p) == Idle(p) /\ provider[p] # <<>>

\* False, with a reason and no event.
Refused(p) == Returns(p, "refused", 0, NoEvent) /\ UNCHANGED packages

\* The call goes on to its event.
Undertakes(p, c) ==
    /\ call' = [call EXCEPT ![p] = c]
    /\ Silent
    /\ UNCHANGED <<packages, provider>>

IsAuthenticated(u) == u # System /\ u.authenticated

\* get_active_rsa_key_id, get_active_ecc_key_id
EncryptKeys(p, m) == ActiveIds(provider[p], <<m, "enc">>)

\* Policy, authorization, key, encryption, in this order; "fails" is a text
\* the encryption does not take.
EncryptEvents(p, u, c, level, fails) ==
    IF ~ IsValidContext(c) THEN {NotPossible}
    ELSE IF ~ Authorize(u, "encrypt", level) THEN {Denied}
    ELSE LET ks == EncryptKeys(p, SelectMethod(c))
         IN  IF ks = {} THEN {NotPossible}
             ELSE {Record("ENCRYPT", IF fails THEN "error" ELSE "success", k) : k \in ks}

Encrypt(p) ==
    /\ p \in Encryptor /\ Calls(p)
    /\ \E u \in People, c \in Signals, level \in Levels, fails \in BOOLEAN :
          IF ~ IsAuthenticated(u) THEN Refused(p)
          ELSE \E e \in EncryptEvents(p, u, c, level, fails) :
                  Undertakes(p, [event |-> e, what |->
                                 IF e.result = "success" THEN "encrypt" ELSE "fails"])

\* Bug: the active key instead of the package's.
DecryptKeyActive(p, q) ==
    IF q.key \in EncryptKeys(p, q.key[1][1]) THEN {q.key} ELSE {}

\* "Key resolution using the exact key_id from the encrypted artifact"
DecryptKey(p, q) == IF Decrypts(provider[p], q.key) THEN {q.key} ELSE {}

\* Authorization, key, decryption.  The private key of the other method does
\* not load with this method's passphrase, unless the two are the same.
DecryptEvents(p, u, level, q) ==
    IF ~ Authorize(u, "decrypt", level) THEN {Denied}
    ELSE IF DecryptKey(p, q) = {} THEN {NotPossible}
    ELSE LET unloadable == IF q.method = q.key[1][1] THEN {} ELSE {NotPossible}
         IN  unloadable \cup
             {Record("DECRYPT", IF DecryptHybrid(q) THEN "success" ELSE "error", q.key)}

Requests == IF packages = <<>> THEN {}
            ELSE [method : Methods, key : {packages[n] : n \in DOMAIN packages},
                  wrapped : DOMAIN packages, sender : {0} \cup DOMAIN packages,
                  aad : DOMAIN packages, message : DOMAIN packages]

Decrypt(p) ==
    /\ p \in Decryptor /\ Calls(p)
    /\ \E u \in People, level \in Levels :
          IF ~ IsAuthenticated(u) \/ u.role # "admin" THEN Refused(p)
          ELSE \E q \in Requests : \E e \in DecryptEvents(p, u, level, q) :
                  Undertakes(p, IF e.result # "success" THEN [what |-> "fails", event |-> e]
                                ELSE [what |-> "decrypt", user |-> u, level |-> level,
                                      request |-> q, event |-> e])

\* With event e in the log, or in the bug without it.
Completes(p, e) ==
    LET n == Len(packages) + 1 IN
    CASE call[p].what = "fails" ->
              Returns(p, "failed", 0, e) /\ UNCHANGED packages
      [] call[p].what = "encrypt" ->
              /\ n <= MaxPackages
              /\ packages' = Append(packages, call[p].event.key)
              /\ Returns(p, "ok", n, e)
      [] call[p].what = "decrypt" ->
              Returns(p, "ok", call[p].request.message, e) /\ UNCHANGED packages

LogCall(p) == ~ Idle(p) /\ Completes(p, call[p].event)

\* Bug: an event that could not be written is passed over.
CallNotLoggedIgnored(p) == "audit" \in CallFaults /\ ~ Idle(p) /\ Completes(p, NoEvent)

\* "Audit failure: operation aborted": what was computed is dropped.
CallNotLogged(p) ==
    /\ "audit" \in CallFaults
    /\ ~ Idle(p)
    /\ Returns(p, "audit failure", 0, NoEvent)
    /\ UNCHANGED packages

\* The agent's process dies, and with it its pipeline; it may be between the
\* event and the return.
Killed(p) ==
    /\ "kill" \in CallFaults
    /\ provider[p] # <<>>
    /\ provider' = [provider EXCEPT ![p] = <<>>]
    /\ call' = [call EXCEPT ![p] = NoCall]
    /\ \E e \in {NoEvent, call[p].event} :
          reply' = [what |-> "killed", text |-> 0, call |-> NoCall, event |-> e]
    /\ UNCHANGED packages

CallStep(p) ==
    \/ Construct(p) \/ Encrypt(p) \/ Decrypt(p)
    \/ LogCall(p) \/ CallNotLogged(p) \/ Killed(p)

-----------------------------------------------------------------------------
(* Properties *)

\* The request that goes with package n.
Whole(n) == [method |-> MethodOf(n), key |-> packages[n], wrapped |-> n,
             sender |-> Sender(n), aad |-> n, message |-> n]

\* "key rotation must not break existing artifacts": every package, also one
\* from a pipeline that is older than a rotation, opens under the registry
\* there is now, and in every pipeline that has heard of its key.
PackagesOpen ==
    \A n \in DOMAIN packages :
        /\ DecryptHybrid(Whole(n))
        /\ Decrypts(registry, packages[n])
        /\ \A p \in Agent : provider[p] # <<>> =>
              provider[p][packages[n]] = "none" \/ DecryptKey(p, Whole(n)) = {packages[n]}

\* A decryption returns a text only to an authenticated admin cleared for the
\* level asked for, and only for the parts of one package: no part of another
\* gives the text of either, except the associated data of RSA packages, all
\* alike, and the sender, which an RSA decryption does not look at.
DecryptExact ==
    reply.call.what = "decrypt" /\ reply.what = "ok" =>
        LET q == reply.call.request
            n == reply.text
        IN  /\ Authorize(reply.call.user, "decrypt", reply.call.level)
            /\ reply.call.user.role = "admin"
            /\ [q EXCEPT !.aad = n, !.sender = Sender(n)] = Whole(n)
            /\ MethodOf(n) = "ecc" => q.aad = n /\ q.sender = Sender(n)
            /\ MethodOf(q.aad) = MethodOf(n)

\* "Record all outcomes": what a call returns is what the log says of it. A
\* success is logged before it is returned, with the key that opened or closed
\* the package; whoever was let in and failed has one event saying so. (A call
\* that is killed returns nothing, and may have its event.)
CallsAccounted ==
    LET e == reply.event IN
    /\ reply.what = "ok" => e.result = "success" /\ packages[reply.text] = e.key
    /\ reply.what = "failed" => e.result \in {"denied", "error"}
    /\ e.result = "success" => reply.what \in {"ok", "killed"}
    /\ e.result \in {"denied", "error"} => reply.what \in {"failed", "killed"}
    /\ e.result = "denied" => e.action = "ACCESS_DENIED"
=============================================================================

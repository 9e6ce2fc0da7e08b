------------------------------ MODULE Connectors ------------------------------
(***************************************************************************)
(* The OAuth tokens of the two connectors that renew them (internal/ghl,    *)
(* internal/gmail).  Runs of pipelines and the operator's commands call a   *)
(* connector at the same time.  GoHighLevel's refresh tokens are good for   *)
(* one use, and its renewal is under a mutex; Google's stay good, and       *)
(* nothing guards theirs.  `vendor` says which of the two a behaviour is    *)
(* about.  A token is the number of its issue, 0 the empty string.          *)
(*                                                                          *)
(* What is sent with an access token is not modelled, nor GoHighLevel's     *)
(* private tokens, which are never renewed.  An access token that is read   *)
(* while it is written may come out torn: such a request is refused, and    *)
(* no token changes by it.                                                  *)
(***************************************************************************)
EXTENDS Naturals

CONSTANTS
    Callers,    \* goroutines that need a token
    Loop,       \* the one of them that is the main loop
    MaxTokens,  \* bound: issues after the first
    MaxFaults   \* bound: lost or unreadable answers, failed writes, crashes

Nobody == "nobody"

ConnectorsAssumption ==
    Loop \in Callers /\ Nobody \notin Callers /\ {MaxTokens, MaxFaults} \subseteq Nat

Tokens == 0 .. (MaxTokens + 1)
Empty == 0
First == 1

VARIABLES
    vendor,     \* "ghl" or "gmail"
    up,         \* the process has the connector
    mu,         \* who holds GHLConnector.mu
    refresh,    \* token.RefreshToken
    access,     \* accessToken: the issue it belongs to
    fresh,      \* expiresAt has not come
    stored,     \* the refresh token in the file
    call,       \* where each caller is, and the tokens it has in hand
    good,       \* the provider's: refresh tokens it takes
    issued,     \* the last one it issued
    slipped,    \* history: an issue is neither in memory nor on its way to the file
    told,       \* history: the last issue /authcode was told "Success" of
    faults

vars == <<vendor, up, mu, refresh, access, fresh, stored, call, good, issued, slipped, told, faults>>

Hand(pc, r, a, g) == [pc |-> pc, refresh |-> r, access |-> a, grant |-> g]
Idle == Hand("idle", Empty, Empty, Empty)

ConnectorsTypeOK ==
    /\ vendor \in {"ghl", "gmail"} /\ {up, fresh, slipped} \subseteq BOOLEAN
    /\ mu \in Callers \cup {Nobody}
    /\ {refresh, access, stored, issued, told} \cup good \subseteq Tokens
    /\ call \in [Callers -> [pc : {"idle", "wants", "asks", "exchanges", "answered", "marshals", "writes"},
                             refresh : Tokens, access : Tokens, grant : Tokens]]
    /\ faults \in 0 .. MaxFaults

-----------------------------------------------------------------------------
At(c, pc) == call[c].pc = pc
Becomes(c, hand) == call' = [call EXCEPT ![c] = hand]
Ends(c) == Becomes(c, Idle) /\ mu' = IF mu = c THEN Nobody ELSE mu
Fault == faults < MaxFaults /\ faults' = faults + 1

\* A refresh token of GoHighLevel's was used up and the next is not in the file.
Between == vendor = "ghl" /\ \E c \in Callers : call[c].pc \in {"answered", "writes"}

\* NewGmailConnector renews at once, NewGHLConnector takes the stored access
\* token to be good for an hour; neither does without a file it can parse, and
\* Google's not when the grant is gone.
Boot ==
    /\ ~up /\ stored # Empty /\ up' = TRUE
    /\ vendor = "gmail" => stored \in good
    /\ refresh' = stored /\ access' = stored /\ fresh' = TRUE
    /\ UNCHANGED <<vendor, mu, stored, call, good, issued, slipped, told, faults>>

\* A run or a command calls the API.
Request(c) ==
    /\ up /\ At(c, "idle") /\ Becomes(c, Hand("wants", Empty, Empty, Empty))
    /\ UNCHANGED <<vendor, up, mu, refresh, access, fresh, stored, good, issued, slipped, told, faults>>

Expire ==
    /\ fresh /\ fresh' = FALSE
    /\ UNCHANGED <<vendor, up, mu, refresh, access, stored, call, good, issued, slipped, told, faults>>

\* Mutant of MayLook: renewal without GHLConnector.mu.
MayLookUnlocked == TRUE

\* GoHighLevel's mutex is held over the look and the renewal.
MayLook == vendor = "ghl" => mu = Nobody

EnsureToken(c) ==
    /\ At(c, "wants") /\ MayLook
    /\ \/ fresh /\ Ends(c)
       \/ /\ ~fresh /\ Becomes(c, Hand("asks", refresh, Empty, Empty))
          /\ mu' = IF vendor = "ghl" THEN c ELSE mu
    /\ UNCHANGED <<vendor, up, refresh, access, fresh, stored, good, issued, slipped, told, faults>>

\* handleAuthCode: the operator sends the code of a new consent.
AuthCode ==
    /\ vendor = "gmail" /\ up /\ At(Loop, "idle")
    /\ Becomes(Loop, Hand("exchanges", Empty, Empty, Empty))
    /\ UNCHANGED <<vendor, up, mu, refresh, access, fresh, stored, good, issued, slipped, told, faults>>

-----------------------------------------------------------------------------
\* External: what the providers do.
Issue == issued <= MaxTokens /\ issued' = issued + 1
Rotated(r) == (good \ {r}) \cup {issued'}

\* GoHighLevel's refresh token is gone with its use, and the answer brings the
\* next; Google's stays good, and the answer brings an access token alone.
Renew(c) ==
    /\ At(c, "asks") /\ call[c].refresh \in good
    /\ \/ /\ vendor = "ghl" /\ Issue /\ good' = Rotated(call[c].refresh)
          /\ Becomes(c, Hand("answered", issued', issued', Empty))
       \/ /\ vendor = "gmail" /\ UNCHANGED <<good, issued>>
          /\ Becomes(c, Hand("answered", Empty, call[c].refresh, Empty))
    /\ UNCHANGED <<vendor, up, mu, refresh, access, fresh, stored, slipped, told, faults>>

\* A code brings an access token, and a refresh token unless Google leaves it out.
Grant(c) ==
    /\ At(c, "exchanges") /\ Issue
    /\ \/ good' = good \cup {issued'} /\ Becomes(c, Hand("answered", issued', issued', issued'))
       \/ good' = good /\ Becomes(c, Hand("answered", Empty, issued', Empty))
    /\ UNCHANGED <<vendor, up, mu, refresh, access, fresh, stored, slipped, told, faults>>

\* A token or a code that is not taken.  The callers return with the error.
Refuse(c) ==
    /\ \/ At(c, "asks") /\ call[c].refresh \notin good
       \/ At(c, "exchanges")
    /\ Ends(c)
    /\ UNCHANGED <<vendor, up, refresh, access, fresh, stored, good, issued, slipped, told, faults>>

\* The call fails on its way there or back.
LoseCall(c) ==
    /\ call[c].pc \in {"asks", "exchanges", "answered"} /\ Fault /\ Ends(c)
    /\ slipped' = (slipped \/ (vendor = "ghl" /\ At(c, "answered")))
    /\ UNCHANGED <<vendor, up, refresh, access, fresh, stored, good, issued, told>>

\* Google's answer cannot be read: nobody looks at the error, so its fields are
\* empty and no error of the provider's.
GarbleAnswer(c) ==
    /\ vendor = "gmail" /\ At(c, "answered") /\ Fault
    /\ Becomes(c, Hand("answered", Empty, Empty, call[c].grant))
    /\ UNCHANGED <<vendor, up, mu, refresh, access, fresh, stored, good, issued, slipped, told>>

-----------------------------------------------------------------------------
\* What expires_in says is 0 in an answer nobody could read.  Google's refresh
\* token is replaced by one that came, GoHighLevel's token by the new one whole.
TakeTokens(c) ==
    /\ At(c, "answered")
    /\ access' = call[c].access /\ fresh' = (call[c].access # Empty)
    /\ refresh' = IF vendor = "gmail" /\ call[c].refresh = Empty THEN refresh ELSE call[c].refresh
    /\ Becomes(c, [call[c] EXCEPT !.pc = IF vendor = "ghl" THEN "writes" ELSE "marshals"])
    /\ UNCHANGED <<vendor, up, mu, stored, good, issued, slipped, told, faults>>

\* saveToken takes the fields as they are by then.
MarshalToken(c) ==
    /\ At(c, "marshals") /\ Becomes(c, [call[c] EXCEPT !.pc = "writes", !.refresh = refresh])
    /\ UNCHANGED <<vendor, up, mu, refresh, access, fresh, stored, good, issued, slipped, told, faults>>

\* The file is cut and written; what goes wrong is logged.
WriteToken(c) ==
    /\ At(c, "writes") /\ Ends(c)
    /\ \/ stored' = call[c].refresh /\ slipped' = FALSE /\ UNCHANGED faults
       \/ Fault /\ stored' \in {stored, Empty} /\ slipped' = TRUE
    /\ told' = IF call[c].grant = Empty THEN told ELSE call[c].grant
    /\ UNCHANGED <<vendor, up, refresh, access, fresh, good, issued>>

\* A call on its way may still arrive, a file that is being written is empty.
Crash ==
    /\ up /\ Fault /\ up' = FALSE /\ mu' = Nobody
    /\ refresh' = Empty /\ access' = Empty /\ fresh' = FALSE
    /\ call' = [c \in Callers |-> Idle]
    /\ \/ stored' = stored
       \/ (\E c \in Callers : At(c, "writes")) /\ stored' = Empty
    /\ \/ UNCHANGED <<good, issued>>
       \/ /\ vendor = "ghl" /\ Issue
          /\ \E c \in Callers : At(c, "asks") /\ call[c].refresh \in good /\ good' = Rotated(call[c].refresh)
    /\ slipped' = (slipped \/ Between \/ stored' # stored \/ good' # good)
    /\ UNCHANGED <<vendor, told>>

Init ==
    /\ vendor \in {"ghl", "gmail"} /\ up = TRUE /\ mu = Nobody
    /\ refresh = First /\ access = First /\ stored = First /\ fresh = TRUE
    /\ call = [c \in Callers |-> Idle]
    /\ good = {First} /\ issued = First
    /\ slipped = FALSE /\ told = Empty /\ faults = 0

Next ==
    \/ Boot \/ Expire \/ AuthCode \/ Crash
    \/ \E c \in Callers :
          \/ Request(c) \/ EnsureToken(c)
          \/ Renew(c) \/ Grant(c) \/ Refuse(c) \/ LoseCall(c) \/ GarbleAnswer(c)
          \/ TakeTokens(c) \/ MarshalToken(c) \/ WriteToken(c)

Spec == Init /\ [][Next]_vars

-----------------------------------------------------------------------------
\* Renewal goes on: no caller presents a refresh token that is used up, and
\* memory and file hold one that is good, unless the provider's answer was lost,
\* a write failed or the process died in between (GHLConnector.ensureToken,
\* refreshToken; GmailConnector.ExchangeCode).
CanRenew ==
    \/ slipped
    \/ /\ \A c \in Callers : At(c, "asks") => call[c].refresh \in good
       /\ ~Between => stored \in good /\ (up => refresh \in good)

-----------------------------------------------------------------------------
\* What the code says, and does not do.

\* After "Success. Gmail now has send/compose permissions" (main.go:2180) the
\* connector has them, and has them after a restart, if nothing failed.
ReauthHolds ==
    told # Empty /\ faults = 0 => stored >= told /\ (fresh => access >= told)

=============================================================================

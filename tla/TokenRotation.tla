----------------------------- MODULE TokenRotation -----------------------------
(***************************************************************************)
(* One user's Questrade connection (venue/manager.py refresh_venues,       *)
(* venue/questrade_venue.py) in the processes that keep one: the API and   *)
(* the scheduler.  A refresh token buys one access token and the next      *)
(* refresh token, once.  The next token goes to the user's settings, from  *)
(* where each process connects, under a lock of the database, and into the *)
(* venue object, which later renews its access with no lock at all.        *)
(*                                                                         *)
(* The exchange answers a token it takes with a token nobody has; tokens   *)
(* nobody has any more are used again, so a few of them stand for any      *)
(* number.  Whether a request is refused or cannot be made is the same to  *)
(* the caller.                                                             *)
(***************************************************************************)
EXTENDS Naturals

CONSTANTS
  Processes,   \* the processes that keep a connection for the user
  Tokens,      \* refresh tokens, more than are in use at any one time
  MaxEvents,   \* bound: what the owner writes to the settings, crashes,
               \* dead lock sessions and lost answers, together
  None

TokenRotationAssumption ==
  /\ Tokens # {}
  /\ None \notin Tokens \cup Processes
  /\ MaxEvents \in Nat

VARIABLES
  stored,   \* the refresh token in user_settings
  enabled,  \* whether the venue is enabled there
  redeemable, \* tokens the exchange still takes
  lock,     \* the process whose session holds the rotation lock
  pc,       \* where each process is in refresh_venues
  config,   \* what its refresh read of the settings
  rotated,  \* the token its connect was given
  live,     \* the token of its connected venue, or None
  renewal,  \* a renewal of that venue between its answer and its save
  severed,  \* an answer was lost, or a save failed (history)
  unlocked, \* a lock session died under its holder (history)
  events    \* how many of those have been

settings == <<stored, enabled>>
refresh  == <<pc, config, rotated>>
history  == <<severed, unlocked, events>>
vars     == <<settings, redeemable, lock, refresh, live, renewal, history>>

NoRenewal == [from |-> None, to |-> None]
Unread    == [token |-> None, enabled |-> FALSE]
InSection == {"redeeming", "persisting", "resolving"}

TypeOK ==
  /\ stored \in Tokens \cup {None} /\ enabled \in BOOLEAN
  /\ redeemable \subseteq Tokens
  /\ lock \in Processes \cup {None}
  /\ pc \in [Processes -> {"idle", "waiting"} \cup InSection]
  /\ config \in [Processes -> [token : Tokens \cup {None}, enabled : BOOLEAN]]
  /\ rotated \in [Processes -> Tokens \cup {None}]
  /\ live \in [Processes -> Tokens \cup {None}]
  /\ renewal \in [Processes -> [from : Tokens \cup {None}, to : Tokens \cup {None}]]
  /\ severed \in BOOLEAN /\ unlocked \in BOOLEAN
  /\ events \in 0..MaxEvents
  /\ \A p \in Processes : pc[p] \in {"persisting", "resolving"} <=> rotated[p] # None

(* The owner has stored a token and enabled the venue.                      *)
Init ==
  /\ stored = (CHOOSE token \in Tokens : TRUE) /\ enabled = TRUE
  /\ redeemable = {stored}
  /\ lock = None
  /\ pc = [p \in Processes |-> "idle"]
  /\ config = [p \in Processes |-> Unread]
  /\ rotated = [p \in Processes |-> None]
  /\ live = [p \in Processes |-> None]
  /\ renewal = [p \in Processes |-> NoRenewal]
  /\ severed = FALSE /\ unlocked = FALSE
  /\ events = 0

--------------------------------------------------------------------------------
(* The exchange.                                                            *)
InUse ==
  {stored} \cup UNION {{config[p].token, rotated[p], live[p], renewal[p].from, renewal[p].to}
                        : p \in Processes}

NewToken == CHOOSE token \in Tokens : token \notin InUse

Takes(token) ==
  /\ token \in redeemable
  /\ redeemable' = ((redeemable \cap InUse) \ {token}) \cup {NewToken}

Event ==
  /\ events < MaxEvents
  /\ events' = events + 1

(* The token is taken and the answer lost.                                  *)
Loses(token) ==
  /\ token \in redeemable
  /\ redeemable' = (redeemable \cap InUse) \ {token}
  /\ severed' = TRUE
  /\ Event

--------------------------------------------------------------------------------
(* refresh_venues.                                                          *)

(* _load_venue_config, under the lock of the process alone.                 *)
LoadVenueConfig(p) ==
  /\ pc[p] = "idle"
  /\ config' = [config EXCEPT ![p] = [token |-> stored, enabled |-> enabled]]
  /\ pc' = [pc EXCEPT ![p] = "waiting"]
  /\ UNCHANGED <<settings, redeemable, lock, rotated, live, renewal, history>>

Return(p) ==
  /\ pc' = [pc EXCEPT ![p] = "idle"]
  /\ config' = [config EXCEPT ![p] = Unread]
  /\ rotated' = [rotated EXCEPT ![p] = None]

Unlock(p) == lock' = IF lock = p THEN None ELSE lock

(* RefreshBusy.                                                             *)
Busy(p) ==
  /\ pc[p] = "waiting" /\ lock # None
  /\ Return(p)
  /\ UNCHANGED <<settings, redeemable, lock, live, renewal, history>>

(* Mutant: the lock is that of the process, as it was before audit A14.     *)
MutFree(p) == TRUE

Free(p) == lock = None

MustConnect(p) == config[p].enabled /\ live[p] = None /\ config[p].token # None

(* With the lock: a disabled venue is closed, a live one is left alone, one *)
(* without a token cannot be connected.                                     *)
Reconcile(p) ==
  /\ pc[p] = "waiting" /\ Free(p) /\ ~MustConnect(p)
  /\ live' = [live EXCEPT ![p] = IF config[p].enabled THEN @ ELSE None]
  /\ Return(p)
  /\ UNCHANGED <<settings, redeemable, lock, renewal, history>>

Connect(p) ==
  /\ pc[p] = "waiting" /\ Free(p) /\ MustConnect(p)
  /\ lock' = p
  /\ pc' = [pc EXCEPT ![p] = "redeeming"]
  /\ UNCHANGED <<settings, redeemable, config, rotated, live, renewal, history>>

(* _refresh_access_token: the request.                                      *)
Redeem(p) ==
  /\ pc[p] = "redeeming"
  /\ Takes(config[p].token)
  /\ rotated' = [rotated EXCEPT ![p] = NewToken]
  /\ pc' = [pc EXCEPT ![p] = "persisting"]
  /\ UNCHANGED <<settings, lock, config, live, renewal, history>>

(* The request fails, one way or another.                                   *)
ConnectFails(p) ==
  /\ pc[p] = "redeeming"
  /\ \/ UNCHANGED <<redeemable, severed, events>>
     \/ Loses(config[p].token)
  /\ Return(p) /\ Unlock(p)
  /\ UNCHANGED <<settings, live, renewal, unlocked>>

(* Mutant: the token that was presented is put back.                        *)
MutPersist(p) ==
  /\ pc[p] = "persisting"
  /\ stored' = config[p].token
  /\ pc' = [pc EXCEPT ![p] = "resolving"]
  /\ UNCHANGED <<enabled, redeemable, lock, config, rotated, live, renewal, history>>

(* store_venue_refresh_token: whatever the settings hold by now.            *)
Persist(p) ==
  /\ pc[p] = "persisting"
  /\ stored' = rotated[p]
  /\ pc' = [pc EXCEPT ![p] = "resolving"]
  /\ UNCHANGED <<enabled, redeemable, lock, config, rotated, live, renewal, history>>

PersistFails(p) ==
  /\ pc[p] = "persisting"
  /\ severed' = TRUE /\ Event
  /\ Return(p) /\ Unlock(p)
  /\ UNCHANGED <<settings, redeemable, live, renewal, unlocked>>

(* _resolve_account, which may fail, and the end of the section.            *)
ResolveAccount(p) ==
  /\ pc[p] = "resolving"
  /\ live' \in {live, [live EXCEPT ![p] = rotated[p]]}
  /\ Return(p) /\ Unlock(p)
  /\ UNCHANGED <<settings, redeemable, renewal, history>>

--------------------------------------------------------------------------------
(* _ensure_token of a connected venue: no lock is taken.                    *)
Renew(p) ==
  /\ live[p] # None /\ renewal[p] = NoRenewal
  /\ Takes(live[p])
  /\ renewal' = [renewal EXCEPT ![p] = [from |-> live[p], to |-> NewToken]]
  /\ UNCHANGED <<settings, lock, refresh, live, history>>

RenewLost(p) ==
  /\ live[p] # None /\ renewal[p] = NoRenewal
  /\ Loses(live[p])
  /\ UNCHANGED <<settings, lock, refresh, live, renewal, unlocked>>

(* The token is saved, then kept by the venue, if that is still connected.  *)
SaveRenewed(p) ==
  /\ renewal[p] # NoRenewal
  /\ stored' = renewal[p].to
  /\ live' = [live EXCEPT ![p] = IF @ = renewal[p].from THEN renewal[p].to ELSE @]
  /\ renewal' = [renewal EXCEPT ![p] = NoRenewal]
  /\ UNCHANGED <<enabled, redeemable, lock, refresh, history>>

--------------------------------------------------------------------------------
(* The owner: none of these writes takes a lock.                            *)

(* store_venue_credentials, with a token from the exchange's own page.      *)
StoreCredentials ==
  /\ Event
  /\ stored' = NewToken
  /\ redeemable' = (redeemable \cap InUse) \cup {NewToken}
  /\ UNCHANGED <<enabled, lock, refresh, live, renewal, severed, unlocked>>

(* clear_venue_credentials.                                                 *)
ClearCredentials ==
  /\ Event
  /\ stored' = None /\ enabled' = FALSE
  /\ UNCHANGED <<redeemable, lock, refresh, live, renewal, severed, unlocked>>

(* set_venue_enabled.                                                       *)
SetEnabled(on) ==
  /\ enabled # on /\ Event
  /\ on => stored # None
  /\ enabled' = on
  /\ UNCHANGED <<stored, redeemable, lock, refresh, live, renewal, severed, unlocked>>

(* disconnect_venue, after new credentials; disconnect_user.                *)
Disconnect(p) ==
  /\ pc[p] = "idle" /\ live[p] # None
  /\ live' = [live EXCEPT ![p] = None]
  /\ UNCHANGED <<settings, redeemable, lock, refresh, renewal, history>>

--------------------------------------------------------------------------------
LockDies(p) ==
  /\ lock = p /\ Event
  /\ lock' = None
  /\ unlocked' = TRUE
  /\ UNCHANGED <<settings, redeemable, refresh, live, renewal, severed>>

(* The process dies; a token it had not saved is gone.                      *)
Crash(p) ==
  /\ Event
  /\ severed' = (severed \/ pc[p] = "persisting" \/ renewal[p] # NoRenewal)
  /\ Return(p) /\ Unlock(p)
  /\ live' = [live EXCEPT ![p] = None]
  /\ renewal' = [renewal EXCEPT ![p] = NoRenewal]
  /\ UNCHANGED <<settings, redeemable, unlocked>>

--------------------------------------------------------------------------------
RefreshVenues(p) ==
  \/ LoadVenueConfig(p) \/ Busy(p) \/ Reconcile(p) \/ Connect(p)
  \/ Redeem(p) \/ ConnectFails(p) \/ Persist(p) \/ PersistFails(p) \/ ResolveAccount(p)

EnsureToken(p) == Renew(p) \/ RenewLost(p) \/ SaveRenewed(p)

Next ==
  \/ \E p \in Processes :
       RefreshVenues(p) \/ EnsureToken(p) \/ Disconnect(p) \/ LockDies(p) \/ Crash(p)
  \/ StoreCredentials \/ ClearCredentials \/ \E on \in BOOLEAN : SetEnabled(on)

Spec == Init /\ [][Next]_vars

--------------------------------------------------------------------------------
(* One process at a time connects, unless its lock session died             *)
(* (_rotation_lock, audit A14).                                             *)
OneRotationAtATime ==
  ~unlocked => \A p, other \in Processes :
                 pc[p] \in InSection /\ pc[other] \in InSection => p = other

(* The stored credential never ends up consumed but persisted: unless an    *)
(* answer or a save was lost, the exchange takes the stored token, or the   *)
(* process it answered last is about to store the next one.  Neither the    *)
(* renewals outside the lock nor the owner's writes nor a dead lock session *)
(* break the chain.                                                         *)
StoredTokenIsGood ==
  ~severed =>
    \/ stored \in redeemable \cup {None}
    \/ \E p \in Processes : pc[p] = "persisting" /\ config[p].token = stored
    \/ \E p \in Processes : renewal[p].from = stored

(* A process connects with the token that is stored when it takes the lock  *)
(* ("reading the stored refresh token, connecting, and persisting a rotated *)
(* token are one serialized critical section", refresh_venues).             *)
ConnectsWithStoredToken ==
  [][\A p \in Processes :
       pc[p] = "waiting" /\ pc'[p] = "redeeming" => config[p].token = stored]_vars

================================================================================

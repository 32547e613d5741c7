----------------------------- MODULE Credentials -----------------------------
(***************************************************************************)
(* Custody of one user's provider credentials: the Akahu token and the     *)
(* refresh token of Sign in with Apple, encrypted under the keyring of     *)
(* src/lib/token-crypto.ts, while the key is rotated as docs/key-runbook.md *)
(* tells the operator to and processes take the new configuration one by   *)
(* one.                                                                    *)
(*                                                                         *)
(* A ciphertext is the version of its key.  A request exchanges a code at  *)
(* the provider, encrypts what it gets and upserts it: each call may fail, *)
(* the process may stop in between, and an upsert that was sent may be     *)
(* written after its request has ended, over whatever the row has become.  *)
(***************************************************************************)
EXTENDS Naturals, Sequences

CONSTANTS
  Versions,   \* key versions: v1, v2, ...
  Configs,    \* what TOKEN_ENC_KEY may be set to: lists of versions
  FirstKey,   \* the version the deployment begins with
  Processes,  \* instances of the server; they overlap during a deploy
  Captures,   \* requests that store a credential
  Invalid,    \* a TOKEN_ENC_KEY that does not parse
  Absent      \* no row

Slots == {"akahu_tokens", "apple_grants"}

ASSUME ConfigsAssumption ==
  /\ Configs \subseteq Seq(Versions)
  /\ FirstKey \in Versions
ASSUME AbsentAssumption == Absent \notin Versions

VARIABLES
  config,   \* TOKEN_ENC_KEY in the secret store
  ring,     \* the keyring each process parsed when it started
  stored,   \* the ciphertext in each table, or Absent
  capture,  \* the requests under way
  promised, \* history: some capture of a grant was answered stored: true
  hasty     \* history: the versions dropped while something referenced them,
            \* and not listed again since

credentialVars == <<config, ring, stored, capture, promised, hasty>>

Listed(list) == {list[i] : i \in DOMAIN list}

(* parseKeyring: empty, or a version listed twice, is an error.            *)
ParseKeyring(list) ==
  IF list = <<>> \/ \E i, j \in DOMAIN list : i # j /\ list[i] = list[j]
  THEN Invalid
  ELSE [activeVersion |-> list[1], keys |-> Listed(list)]

(* mutation: any key will do                                               *)
EncryptToken_AnyKey(keyring) == keyring.keys

(* The versions encryptToken may tag what it encrypts with.                *)
EncryptToken(keyring) == {keyring.activeVersion}

(* decryptToken throws on a version the keyring does not hold.             *)
Decrypts(keyring, ciphertext) == ciphertext \in keyring.keys

Waiting == [pc |-> "waiting"]

CredentialsInit ==
  /\ config = <<FirstKey>>
  /\ ring = [p \in Processes |-> [activeVersion |-> FirstKey, keys |-> {FirstKey}]]
  /\ stored = [s \in Slots |-> Absent]
  /\ capture = [q \in Captures |-> Waiting]
  /\ promised = FALSE
  /\ hasty = {}

-----------------------------------------------------------------------------
(* Requests                                                                *)

(* The code is sent to the provider, who takes it once.                    *)
Exchange(q, p, s) ==
  /\ capture[q] = Waiting
  /\ capture' = [capture EXCEPT ![q] = [pc |-> "exchange", process |-> p, slot |-> s]]
  /\ UNCHANGED <<config, ring, stored, promised, hasty>>

(* A token came back: it is encrypted as the upsert is sent.               *)
Encrypt(q) ==
  /\ capture[q].pc = "exchange"
  /\ \E v \in EncryptToken(ring[capture[q].process]) :
       capture' = [capture EXCEPT ![q] =
         [pc |-> "upsert", process |-> @.process, slot |-> @.slot, ciphertext |-> v]]
  /\ UNCHANGED <<config, ring, stored, promised, hasty>>

(* mutation: stored: true is answered as soon as the upsert is sent        *)
Upsert_NotAwaited(q) ==
  /\ capture[q].pc = "upsert"
  /\ stored' \in {stored, [stored EXCEPT ![capture[q].slot] = capture[q].ciphertext]}
  /\ promised' = (promised \/ capture[q].slot = "apple_grants")
  /\ capture' = [capture EXCEPT ![q] = Waiting]
  /\ UNCHANGED <<config, ring, hasty>>

(* The upsert on user_id, and stored: true for an Apple grant.             *)
Upsert(q) ==
  /\ capture[q].pc = "upsert"
  /\ stored' = [stored EXCEPT ![capture[q].slot] = capture[q].ciphertext]
  /\ promised' = (promised \/ capture[q].slot = "apple_grants")
  /\ capture' = [capture EXCEPT ![q] = Waiting]
  /\ UNCHANGED <<config, ring, hasty>>

(* The request is over; an upsert it had sent may be written later on.     *)
Ended(record) ==
  {Waiting} \cup
  IF record.pc = "upsert"
  THEN {[pc |-> "adrift", slot |-> record.slot, ciphertext |-> record.ciphertext]}
  ELSE {}

Running(q) == capture[q].pc \in {"exchange", "upsert"}

(* The exchange is refused, brings no refresh token or is not answered, or *)
(* the upsert fails or has no answer in time: stored: false, the code is   *)
(* spent and nothing retried.                                              *)
FailCapture(q) ==
  /\ Running(q)
  /\ \E rest \in Ended(capture[q]) : capture' = [capture EXCEPT ![q] = rest]
  /\ UNCHANGED <<config, ring, stored, promised, hasty>>

(* A write whose request has ended reaches the table, and is told nobody.  *)
Land(q) ==
  /\ capture[q].pc = "adrift"
  /\ stored' = [stored EXCEPT ![capture[q].slot] = capture[q].ciphertext]
  /\ capture' = [capture EXCEPT ![q] = Waiting]
  /\ UNCHANGED <<config, ring, promised, hasty>>

(* The Akahu token is read and decrypted, revoked at Akahu, and the row    *)
(* deleted.  Nothing deletes a grant.                                      *)
Forget(p) ==
  /\ Decrypts(ring[p], stored["akahu_tokens"])
  /\ stored' = [stored EXCEPT !["akahu_tokens"] = Absent]
  /\ UNCHANGED <<config, ring, capture, promised, hasty>>

-----------------------------------------------------------------------------
(* The operator and the platform                                           *)

(* Step 1 of the runbook: the new key goes first, the old ones stay.       *)
PrependKey(list) ==
  /\ list # <<>> /\ Tail(list) = config
  /\ config' = list
  /\ hasty' = hasty \ {list[1]}
  /\ UNCHANGED <<ring, stored, capture, promised>>

OnItsWay(q) == capture[q].pc \in {"upsert", "adrift"}

(* A row is under version v, a write under it has been sent, or a process  *)
(* still encrypts with it.                                                 *)
References(v) ==
  \/ \E s \in Slots : stored[s] = v
  \/ \E q \in Captures : OnItsWay(q) /\ capture[q].ciphertext = v
  \/ \E p \in Processes : ring[p].activeVersion = v

(* Step 3: the old key is dropped, "only when nothing references" it.  The *)
(* operator decrypts what is stored, or simply waits for everybody to have *)
(* authorised again.  Waiting looks at no row, and neither looks at writes *)
(* under way or at processes, so nothing is a guard here: a drop too early *)
(* is noted.                                                               *)
DropKey(list) ==
  /\ list # <<>> /\ list[1] = config[1]
  /\ Listed(list) \subseteq Listed(config)
  /\ hasty' = hasty \cup {v \in Listed(config) \ Listed(list) : References(v)}
  /\ config' = list
  /\ UNCHANGED <<ring, stored, capture, promised>>

RunBy(p) == {q \in Captures : Running(q) /\ capture[q].process = p}

(* A process is replaced, in order or after a crash, and its requests end. *)
(* The new process refuses to start when the keyring does not parse.       *)
Restart(p) ==
  /\ ParseKeyring(config) # Invalid
  /\ ring' = [ring EXCEPT ![p] = ParseKeyring(config)]
  /\ \E landing \in SUBSET {q \in RunBy(p) : capture[q].pc = "upsert"} :
       capture' = [q \in Captures |->
         IF q \in landing
         THEN [pc |-> "adrift", slot |-> capture[q].slot, ciphertext |-> capture[q].ciphertext]
         ELSE IF q \in RunBy(p) THEN Waiting ELSE capture[q]]
  /\ UNCHANGED <<config, stored, promised, hasty>>

CredentialsNext ==
  \/ \E q \in Captures :
       \/ \E p \in Processes, s \in Slots : Exchange(q, p, s)
       \/ Encrypt(q) \/ Upsert(q) \/ FailCapture(q) \/ Land(q)
  \/ \E p \in Processes : Forget(p) \/ Restart(p)
  \/ \E list \in Configs : PrependKey(list) \/ DropKey(list)

CredentialsSpec == CredentialsInit /\ [][CredentialsNext]_credentialVars

-----------------------------------------------------------------------------
(* Properties                                                              *)

(* "Only when nothing references v1": a process that starts with the       *)
(* configured keyring reads every stored credential, unless the version it *)
(* lacks was dropped while a row, a write on its way or a running process  *)
(* still referenced it.  A version dropped when nothing did never comes    *)
(* back, whatever captures, crashes, late writes and rolling restarts      *)
(* follow.  The stored ciphertexts that the runbook tells to verify are    *)
(* one of the three: to verify them alone is not enough                    *)
(* (docs/key-runbook.md:84-89, token-crypto.ts:119-131).                   *)
NewestReads ==
  \A s \in Slots :
    stored[s] # Absent => stored[s] \in Listed(config) \cup hasty

(* Whoever was told stored: true has a grant to revoke at deletion: not    *)
(* lost with the process, nor with the tokens of the bank                  *)
(* (apple.service.ts:31-55).                                               *)
GrantKept == promised => stored["apple_grants"] # Absent
=============================================================================

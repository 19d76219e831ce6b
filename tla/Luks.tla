-------------------------------- MODULE Luks --------------------------------
(***************************************************************************)
(* What opens a LUKS volume besides its passphrase: the key file           *)
(* (lib/actions/luks_keyfile_action.py) and the hardware tokens            *)
(* (luks_token_action.py), enrolled and wiped on an installed machine too. *)
(* A header says which keyslots a token is bound to, never which token, so *)
(* FIDO2 keys are counted.  The plan of these two actions is made together *)
(* with the one of the disk, and they run after it in the same apply.      *)
(***************************************************************************)
EXTENDS Disks

CONSTANTS Unlocks,      \* the ways to unlock a document may declare
          HeaderReads,  \* does luksDump succeed: a subset of BOOLEAN
          MaxApplies, MaxHands

ASSUME UnlockAssumption ==
    /\ Unlocks \subseteq [fido2 : Nat, tpm2 : BOOLEAN, keyfile : BOOLEAN, password : BOOLEAN,
                         policy : {"abort", "warn-and-continue"}]
    /\ HeaderReads \subseteq BOOLEAN

VARIABLES
    unlock,     \* the declared one
    owned,      \* the items of the manifest
    todo,       \* the changes of the plan still to be applied
    interactive,\* is there somebody to ask
    skipped,    \* the kinds whose enrolment was given up
    wiped,      \* the keyslots this apply has wiped
    keyfile,    \* what the key file holds
    attached,   \* is the key device plugged in
    slotKey,    \* what the key file held when it was enrolled
    applies, hands

luksVars == <<unlock, owned, todo, interactive, skipped, wiped, keyfile,
              attached, slotKey, applies, hands>>

Item(kind, index) == [kind |-> kind, index |-> index]

(* _declared of both actions *)
Count(kind) ==
    CASE kind = "tpm2"    -> IF unlock.tpm2 THEN 1 ELSE 0
      [] kind = "fido2"   -> unlock.fido2
      [] kind = "keyfile" -> IF unlock.keyfile THEN 1 ELSE 0

Declared == UNION {{Item(k, i) : i \in 1 .. Count(k)} : k \in {"tpm2", "fido2", "keyfile"}}

(* _dump: a header that cannot be read is taken for one that is empty. *)
Dumps == {IF r THEN header ELSE NoSlots : r \in HeaderReads}

SlotsOf(dump, kind) == {s \in Slots : dump[s] = kind}

EnrolledCount(dump, kind) == Cardinality(SlotsOf(dump, kind))

(* Mutant: what is left to open the volume is not looked at. *)
NoMatterWhatRemains(dump) == TRUE

(* _passphrase_would_remain: a keyslot no token is bound to. *)
PassphraseWouldRemain(dump) == SlotsOf(dump, "passphrase") \cup SlotsOf(dump, "keyfile") # {}

Open == mapper # Closed

(* _key_works: --test-passphrase with what the file holds now. *)
KeyWorks == Open /\ keyfile # "none" /\ SlotsOf(header, "keyfile") # {} /\ slotKey = keyfile

(* actual of both *)
Enrolled(dump) ==
    (IF Open THEN {i \in [kind : {"tpm2", "fido2"}, index : Slots] :
                        i.index <= EnrolledCount(dump, i.kind)} ELSE {})
    \cup {i \in {Item("keyfile", 1)} : unlock.keyfile /\ attached /\ KeyWorks}

-----------------------------------------------------------------------------
(* Plan *)

Change(op, item) == [op |-> op, item |-> item]

(* The changes of a set of items, in the order of their index. *)
InOrder(op, items) ==
    [n \in 1 .. Cardinality(items) |->
        Change(op, CHOOSE i \in items :
                       Cardinality({j \in items : j.index < i.index}) = n - 1)]

(* Mutant: one token enrolled stands for all of them. *)
MissingAny(dump, kind) ==
    {i \in Declared : i.kind = kind /\ (~Open \/ EnrolledCount(dump, kind) = 0)}

Missing(dump, kind) ==
    {i \in Declared : i.kind = kind /\ (~Open \/ i.index > EnrolledCount(dump, kind))}

(* Owned and no longer declared, still in the header, and not the last     *)
(* thing that opens it.                                                    *)
Surplus(dump, kind) ==
    {i \in owned \ Declared : /\ i.kind = kind /\ Open
                              /\ i.index <= EnrolledCount(dump, kind)
                              /\ PassphraseWouldRemain(dump)}

PlanKeyfile ==
    InOrder("install", IF unlock.keyfile /\ ~(attached /\ KeyWorks)
                       THEN {Item("keyfile", 1)} ELSE {})
    \o InOrder("remove", {i \in owned \ Declared : i.kind = "keyfile"})

PlanTokens(dump) ==
    InOrder("install", Missing(dump, "tpm2")) \o InOrder("install", Missing(dump, "fido2"))
    \o InOrder("remove", Surplus(dump, "tpm2")) \o InOrder("remove", Surplus(dump, "fido2"))

(* Every action plans before the first of them is applied. *)
StartApply(labels, seen, dump, asked) ==
    /\ applies < MaxApplies /\ applies' = applies + 1
    /\ ApplyDisk(labels, seen)
    /\ todo' = PlanKeyfile \o PlanTokens(dump)
    /\ interactive' = asked /\ skipped' = {} /\ wiped' = {}
    /\ UNCHANGED <<unlock, owned, keyfile, attached, slotKey, hands>>

-----------------------------------------------------------------------------
(* Apply *)

Current == Head(todo)
Kind == Current.item.kind

Running == pc = "done" /\ todo # <<>>

Advance == todo' = Tail(todo) /\ UNCHANGED <<pc, work, node, outcome>>

(* The action raises; a manifest of the earlier actions is written, which  *)
(* is the old one as far as these two go, unless the key file had its turn *)
(* behind it.                                                              *)
RaiseLuks ==
    /\ Raise /\ todo' = <<>>
    /\ owned' = IF Kind = "keyfile" THEN owned
                ELSE {i \in owned : i.kind # "keyfile"} \cup {i \in Declared : i.kind = "keyfile"}

NeedsVolume ==
    /\ Running /\ ~Open
    /\ Current.op = "install" \/ Kind # "keyfile"
    /\ RaiseLuks
    /\ UNCHANGED <<layout, disk, mounts, clean, failures, cuts, unlock, interactive,
                   skipped, wiped, keyfile, attached, slotKey, applies, hands>>

(* The keyslot of a key file is left in place. *)
DropKeyfile ==
    /\ Running /\ Kind = "keyfile" /\ Current.op = "remove"
    /\ Advance
    /\ UNCHANGED <<layout, disk, mounts, clean, failures, cuts, owned, unlock, interactive,
                   skipped, wiped, keyfile, attached, slotKey, applies, hands>>

(* _create_keyfile: made empty and then filled, unless there is one.  A    *)
(* failing dd leaves what it had written.                                  *)
CreateKeyfile(done) ==
    /\ Running /\ Open /\ Kind = "keyfile" /\ Current.op = "install" /\ pc = "done"
    /\ attached /\ keyfile \in {"none", "opened"}
    /\ Unchecked(done)
    /\ CASE keyfile = "none" /\ done   -> keyfile' = "opened" /\ UNCHANGED <<todo, owned, pc, work, node, outcome>>
         [] keyfile = "opened" /\ done -> keyfile' = "whole" /\ UNCHANGED <<todo, owned, pc, work, node, outcome>>
         [] ~done -> RaiseLuks /\ keyfile' = IF keyfile = "opened" THEN "partial" ELSE keyfile
    /\ UNCHANGED <<layout, disk, mounts, cuts, unlock, interactive,
                   skipped, wiped, attached, slotKey, applies, hands>>

FreeSlots == SlotsOf(header, "free")

InSlot(kind) == [header EXCEPT ![CHOOSE s \in FreeSlots : \A t \in FreeSlots : s <= t] = kind]

(* _enroll: authorised by the declared passphrase, or not at all. *)
EnrollKeyfile(done) ==
    /\ Running /\ Open /\ Kind = "keyfile" /\ Current.op = "install"
    /\ ~attached \/ keyfile \in {"partial", "whole"}
    /\ done => attached /\ unlock.password /\ SlotsOf(header, "passphrase") # {} /\ FreeSlots # {}
    /\ IF done
       THEN Advance /\ header' = InSlot("keyfile") /\ slotKey' = keyfile /\ UNCHANGED owned
       ELSE RaiseLuks /\ UNCHANGED <<header, slotKey>>
    /\ UNCHANGED <<layout, table, parts, content, mapper, mounts, clean, failures, cuts, unlock,
                   interactive, skipped, wiped, keyfile, attached, applies, hands>>

TokenInstall == Running /\ Open /\ Kind # "keyfile" /\ Current.op = "install"

AlreadySkipped ==
    /\ TokenInstall /\ Kind \in skipped
    /\ Advance
    /\ UNCHANGED <<layout, disk, mounts, clean, failures, cuts, owned, unlock, interactive,
                   skipped, wiped, keyfile, attached, slotKey, applies, hands>>

EnrolToken ==
    /\ TokenInstall /\ Kind \notin skipped
    /\ unlock.password /\ SlotsOf(header, "passphrase") # {} /\ FreeSlots # {}
    /\ header' = InSlot(Kind)
    /\ Advance
    /\ UNCHANGED <<layout, table, parts, content, mapper, mounts, clean, failures, cuts, owned,
                   unlock, interactive, skipped, wiped, keyfile, attached, slotKey, applies, hands>>

(* Asked before the key or after a failure, somebody says skip; nobody     *)
(* there, the policy lets the apply go on.                                 *)
SkipToken ==
    /\ TokenInstall /\ Kind \notin skipped
    /\ IF interactive THEN Count(Kind) > 1 \/ unlock.password
       ELSE unlock.policy = "warn-and-continue" /\ unlock.password
    /\ skipped' = skipped \cup {Kind}
    /\ Advance
    /\ UNCHANGED <<layout, disk, mounts, clean, failures, cuts, owned, unlock, interactive,
                   wiped, keyfile, attached, slotKey, applies, hands>>

AbortToken ==
    /\ TokenInstall /\ Kind \notin skipped
    /\ interactive \/ unlock.policy = "abort" \/ ~unlock.password
    /\ RaiseLuks
    /\ UNCHANGED <<layout, disk, mounts, clean, failures, cuts, unlock, interactive,
                   skipped, wiped, keyfile, attached, slotKey, applies, hands>>

(* _wipe: one keyslot, the highest not wiped yet; every one of the kind    *)
(* when none can be named.                                                 *)
WipeToken(dump) ==
    /\ Running /\ Open /\ Kind # "keyfile" /\ Current.op = "remove"
    /\ LET left == SlotsOf(dump, Kind) \ wiped
           gone == IF left = {} THEN SlotsOf(header, Kind) ELSE {Max(left)}
       IN /\ header' = [s \in Slots |-> IF s \in gone THEN "free" ELSE header[s]]
          /\ wiped' = IF left = {} THEN wiped ELSE wiped \cup gone
    /\ Advance
    /\ UNCHANGED <<layout, table, parts, content, mapper, mounts, clean, failures, cuts, owned,
                   unlock, interactive, skipped, keyfile, attached, slotKey, applies, hands>>

(* managed_keys: what is declared, enrolled or skipped. *)
FinishApply ==
    /\ pc = "done" /\ todo = <<>>
    /\ EndWith(IF outcome = "made" THEN "made" ELSE "ok") /\ UNCHANGED node
    /\ owned' = Declared
    /\ UNCHANGED <<layout, disk, mounts, clean, failures, cuts, unlock, todo, interactive,
                   skipped, wiped, keyfile, attached, slotKey, applies, hands>>

-----------------------------------------------------------------------------
(* sync, the user, death *)

(* import_state counts the tokens of a header it can read, and drops the   *)
(* passphrase; _owned_after_sync keeps what is there.                      *)
SyncLuks(dump, read) ==
    /\ read => dump = header
    /\ unlock' = [unlock EXCEPT !.password = FALSE,
                    !.fido2 = IF Open /\ read THEN EnrolledCount(dump, "fido2") ELSE @,
                    !.tpm2 = IF Open /\ read THEN EnrolledCount(dump, "tpm2") > 0 ELSE @]
    /\ owned' = Enrolled(dump) \cap (owned \cup Declared)

Sync(dump, read) ==
    /\ pc = "idle" /\ hands < MaxHands /\ hands' = hands + 1
    /\ CaptureDisk /\ SyncLuks(dump, read)
    /\ UNCHANGED <<todo, interactive, skipped, wiped, keyfile, attached, slotKey, applies>>

Edit(u) ==
    /\ pc = "idle" /\ hands < MaxHands /\ hands' = hands + 1
    /\ u # unlock /\ unlock' = u
    /\ UNCHANGED <<diskVars, owned, todo, interactive, skipped, wiped, keyfile,
                   attached, slotKey, applies>>

(* cryptsetup and systemd-cryptenroll in the user's hands. *)
HandEnrol(kind) ==
    /\ pc = "idle" /\ Open /\ FreeSlots # {} /\ hands < MaxHands /\ hands' = hands + 1
    /\ header' = InSlot(kind)
    /\ UNCHANGED <<layout, table, parts, content, mapper, mounts, pc, work, node, book, unlock, owned,
                   todo, interactive, skipped, wiped, keyfile, attached, slotKey, applies>>

HandKill(s) ==
    /\ pc = "idle" /\ header[s] # "free" /\ hands < MaxHands /\ hands' = hands + 1
    /\ \E t \in Slots \ {s} : header[t] # "free"
    /\ header' = [header EXCEPT ![s] = "free"]
    /\ UNCHANGED <<layout, table, parts, content, mapper, mounts, pc, work, node, book, unlock, owned,
                   todo, interactive, skipped, wiped, keyfile, attached, slotKey, applies>>

PlugOrUnplug ==
    /\ hands < MaxHands /\ hands' = hands + 1
    /\ attached' = ~attached
    /\ UNCHANGED <<diskVars, unlock, owned, todo, interactive, skipped, wiped, keyfile,
                   slotKey, applies>>

(* The volume is opened again after a boot. *)
Unlock ==
    /\ pc = "idle" /\ ~Open
    /\ \E s \in Reachable : content[s].enc /\ mapper' = s
    /\ \E s \in Slots : header[s] # "free"
    /\ UNCHANGED <<layout, table, parts, content, header, mounts, pc, work, node, book, luksVars>>

LuksSteps ==
    \/ NeedsVolume \/ DropKeyfile \/ AlreadySkipped \/ EnrolToken \/ SkipToken \/ AbortToken
    \/ FinishApply
    \/ \E done \in BOOLEAN : CreateKeyfile(done) \/ EnrollKeyfile(done)
    \/ \E dump \in Dumps : WipeToken(dump)

(* The process dies: a key file that was being filled stays as it was. *)
CutShort ==
    /\ todo' = <<>>
    /\ keyfile' = IF keyfile = "opened" THEN "partial" ELSE keyfile
    /\ UNCHANGED <<unlock, owned, interactive, skipped, wiped, attached, slotKey,
                   applies, hands>>
=============================================================================

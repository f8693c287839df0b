---------------------------- MODULE ItemPayloads ----------------------------
(***************************************************************************)
(* What is in an item: keyring-store/src/model.rs and the payload half of  *)
(* repository.rs, with the commands that write items and project them for  *)
(* the frontend (src-tauri/src/commands/items.rs, totp.rs, icon.rs and     *)
(* dto.rs).  A draft is split into a payload that is read for every item   *)
(* at unlock and one that is read a field at a time.                       *)
(*                                                                         *)
(* Abstractions: one item; its sealing and its vault are VaultStore's.     *)
(* The texts of a payload that are no secrets (title, notes, tags,         *)
(* username, urls and the like) are one text, in which a blank title is    *)
(* refused; the secret fields of a body are entered as one word and told     *)
(* apart by their names.  Words, configurations and icons are model        *)
(* values.                                                                 *)
(***************************************************************************)
EXTENDS Integers, Sequences, Subsequences

CONSTANTS
    Words,                     \* what a secret or a text may hold
    TotpConfigs,               \* one-time-code setups: seed and parameters
    Icons,                     \* what custom_icon::process may return
    CustomLists,               \* the lists of custom fields a draft may carry
    PASSWORD_HISTORY_LIMIT,    \* past passwords kept (5 in the code)
    MaxRevision                \* bound: writes

None == "none"
BlankText == "blank"
Kinds == {"Login", "SecureNote", "Card", "Identity"}
CustomField == [kind : {"Text", "Hidden"}, value : Words]

ASSUME PayloadAssumption ==
    /\ CustomLists \subseteq Seq(CustomField)
    /\ PASSWORD_HISTORY_LIMIT \in Nat \ {0} /\ MaxRevision \in Nat \ {0}
    /\ None \notin TotpConfigs \cup Icons

VARIABLES
    item,        \* the row: both payloads, revision, deleted_at; or NoItem
    entered,       \* ghost: what was last entered into the secret fields
    replaced     \* ghost: the passwords replaced while the item was a login

payloadVars == <<item, entered, replaced>>

NoItem == [revision |-> 0]
Stored == item # NoItem

\* SecretField: a name, or a hidden custom field by index.
Named(name) == <<name, 0>>
Custom(index) == <<"Custom", index>>
Password == Named("Password")
TotpSecret == Named("TotpSecret")

\* The secret fields of a body.
BodySecrets(kind) ==
    CASE kind = "Login" -> {Password}
      [] kind = "SecureNote" -> {}
      [] kind = "Card" -> {Named("CardNumber"), Named("CardCvv"), Named("CardPin")}
      [] kind = "Identity" -> {Named("DocumentNumber")}

Draft == [kind : Kinds, text : Words \cup {BlankText}, favorite : BOOLEAN, word : Words,
          totp : TotpConfigs \cup {None}, custom : CustomLists]

\* ItemBodyInput has a place for a configuration in a login only.
Drafts == {d \in Draft : d.totp # None => d.kind = "Login"}

-----------------------------------------------------------------------------
(* Splitting a draft.                                                      *)

Hidden(f) == f.kind = "Hidden"
HiddenOnes(custom) == Only(custom, {i \in DOMAIN custom : Hidden(custom[i])})

\* split_custom_fields, the metadata half: the value of a hidden field is blanked.
MetaCustoms(custom) ==
    [i \in DOMAIN custom |-> IF Hidden(custom[i]) THEN [custom[i] EXCEPT !.value = BlankText]
                             ELSE custom[i]]

\* The other half: the hidden values, in their order.
HiddenValues(custom) ==
    LET hidden == HiddenOnes(custom)
    IN  [i \in DOMAIN hidden |-> hidden[i].value]

Truncated(s) == SubSeq(s, 1, IF Len(s) < PASSWORD_HISTORY_LIMIT THEN Len(s) ELSE PASSWORD_HISTORY_LIMIT)

\* split_draft: the password that is being replaced goes in front.
History(draft, previous) ==
    IF {draft.kind, previous.kind} = {"Login"} /\ previous.fields[Password] # draft.word
    THEN Truncated(<<previous.fields[Password]>> \o previous.history)
    ELSE previous.history

\* split_body and split_draft.
SecretOf(draft, history) ==
    [kind |-> draft.kind,
     fields |-> [f \in BodySecrets(draft.kind) |-> draft.word],
     totp |-> draft.totp,
     hidden |-> HiddenValues(draft.custom),
     history |-> history]

\* A draft has no icon, and created_at is the time of the write.
MetaOf(draft, created) ==
    [kind |-> draft.kind, text |-> draft.text, favorite |-> draft.favorite,
     hasTotp |-> draft.totp # None, created |-> created,
     custom |-> MetaCustoms(draft.custom), icon |-> None]

-----------------------------------------------------------------------------
(* Reading.                                                                *)

Readable == Stored /\ ~item.deleted

\* decode_meta: a payload sealed before there were icons ends where the icon is due.
BeforeIcons(meta) == [f \in DOMAIN meta \ {"icon"} |-> meta[f]]
Decoded(meta) ==
    [f \in DOMAIN meta \cup {"icon"} |-> IF f \in DOMAIN meta THEN meta[f] ELSE None]
Meta == Decoded(item.meta)

\* item_secret: ItemSecretPayload::field; a custom field by its index in hidden_custom.
Revealed(field) ==
    LET secret == item.secret
        index == field[2] + 1
    IN  CASE field \in DOMAIN secret.fields -> secret.fields[field]
          [] field = TotpSecret /\ secret.totp # None -> secret.totp
          [] field[1] = "Custom" /\ index \in DOMAIN secret.hidden -> secret.hidden[index]
          [] OTHER -> "NoSuchField"

\* item_get, ItemDetailDto::from_meta: the secrets it says are there; a hidden custom
\* field goes by its index in the item's own list.
Presented ==
    BodySecrets(Meta.kind)
      \cup (IF Meta.hasTotp THEN {TotpSecret} ELSE {})
      \cup {Custom(i - 1) : i \in {j \in DOMAIN Meta.custom : Hidden(Meta.custom[j])}}

-----------------------------------------------------------------------------
(* Writing.                                                                *)

\* read_secret, seal_payloads and the UPDATE: both halves at the next revision.
Sealed(meta, secret) ==
    [item EXCEPT !.meta = meta, !.secret = secret, !.revision = @ + 1]

\* item_upsert without an id: insert_item.
Insert(draft) ==
    /\ ~Stored
    /\ item' = [meta |-> MetaOf(draft, "first write"), secret |-> SecretOf(draft, <<>>),
                revision |-> 1, deleted |-> FALSE]
    /\ entered' = draft /\ replaced' = <<>>

\* item_upsert with one: update_item, of a deleted item too.
Update(draft) ==
    /\ Stored /\ item.revision < MaxRevision
    /\ item' = Sealed(MetaOf(draft, "later write"), SecretOf(draft, History(draft, item.secret)))
    /\ entered' = draft
    /\ replaced' = IF {Meta.kind, draft.kind} = {"Login"} /\ Revealed(Password) # draft.word
                   THEN <<Revealed(Password)>> \o replaced ELSE replaced

\* The command refuses a blank title.
ItemUpsert(draft) == draft.text # BlankText /\ (Insert(draft) \/ Update(draft))

\* Mutant: an edit goes through upsert, with the fields the form does not have empty.
ItemEditMetaByUpsert(text) ==
    /\ Readable /\ text # BlankText /\ item.revision < MaxRevision
    /\ item' = Sealed([Meta EXCEPT !.text = text],
                      [item.secret EXCEPT !.fields = [f \in DOMAIN @ |-> BlankText]])
    /\ UNCHANGED <<entered, replaced>>

\* item_edit_meta; an edit with nothing in it is not made.
ItemEditMeta(text) ==
    /\ Readable /\ text # BlankText /\ item.revision < MaxRevision
    /\ item' = Sealed([Meta EXCEPT !.text = text], item.secret)
    /\ UNCHANGED <<entered, replaced>>

\* item_toggle_favorite, item_set_favorite.
ToggleFavorite ==
    /\ Readable /\ item.revision < MaxRevision
    /\ item' = Sealed([Meta EXCEPT !.favorite = ~@], item.secret)
    /\ UNCHANGED <<entered, replaced>>

\* item_set_icon, item_clear_icon: item_set_custom_icon; the same again is no write.
SetCustomIcon(icon) ==
    /\ Readable /\ icon # Meta.icon /\ item.revision < MaxRevision
    /\ item' = Sealed([Meta EXCEPT !.icon = icon], item.secret)
    /\ UNCHANGED <<entered, replaced>>

\* Mutant: a setup that is removed leaves its badge.
SetTotpKeepingBadge(totp) ==
    /\ Readable /\ Meta.kind = "Login" /\ totp # item.secret.totp /\ item.revision < MaxRevision
    /\ item' = Sealed([Meta EXCEPT !.hasTotp = @ \/ totp # None], [item.secret EXCEPT !.totp = totp])
    /\ entered' = [entered EXCEPT !.totp = totp]
    /\ UNCHANGED replaced

\* item_set_totp, of a login only; the same again is no write.
SetTotp(totp) ==
    /\ Readable /\ Meta.kind = "Login" /\ totp # item.secret.totp /\ item.revision < MaxRevision
    /\ item' = Sealed([Meta EXCEPT !.hasTotp = totp # None], [item.secret EXCEPT !.totp = totp])
    /\ entered' = [entered EXCEPT !.totp = totp]
    /\ UNCHANGED replaced

\* item_delete, item_restore.
SetDeleted(deleted) ==
    /\ Stored /\ item.deleted # deleted
    /\ item' = [item EXCEPT !.deleted = deleted]
    /\ UNCHANGED <<entered, replaced>>

-----------------------------------------------------------------------------
\* Nothing, or an item of a build without icons.
PayloadInit ==
    /\ replaced = <<>>
    /\ \/ item = NoItem /\ entered = NoItem
       \/ \E draft \in Drafts :
            /\ draft.text # BlankText
            /\ entered = draft
            /\ item = [meta |-> BeforeIcons(MetaOf(draft, "first write")), secret |-> SecretOf(draft, <<>>),
                       revision |-> 1, deleted |-> FALSE]

PayloadNext ==
    \/ \E draft \in Drafts : ItemUpsert(draft)
    \/ \E text \in Words \cup {BlankText} : ItemEditMeta(text)
    \/ ToggleFavorite
    \/ \E icon \in Icons \cup {None} : SetCustomIcon(icon)
    \/ \E totp \in TotpConfigs \cup {None} : SetTotp(totp)
    \/ \E deleted \in BOOLEAN : SetDeleted(deleted)

PayloadSpec == PayloadInit /\ [][PayloadNext]_payloadVars

-----------------------------------------------------------------------------
(* Properties.                                                             *)

PayloadTypeOK ==
    Stored =>
      /\ item.revision \in 1..MaxRevision /\ item.deleted \in BOOLEAN
      /\ Meta.kind \in Kinds /\ Meta.text \in Words /\ Meta.favorite \in BOOLEAN
      /\ Meta.icon \in Icons \cup {None} /\ item.secret.totp \in TotpConfigs \cup {None}
      /\ DOMAIN item.secret.fields = BodySecrets(Meta.kind)
      /\ Len(item.secret.history) <= PASSWORD_HISTORY_LIMIT

\* "Writing one without the other is how an item ends up with a badge and no code":
\* however an item was written, the half that is read at unlock says of the other
\* half what is true, and holds none of its hidden values.
HalvesAgree ==
    Stored =>
      /\ Meta.kind = item.secret.kind
      /\ Meta.hasTotp <=> item.secret.totp # None
      /\ LET hidden == HiddenOnes(Meta.custom)
         IN  /\ Len(hidden) = Len(item.secret.hidden)
             /\ \A i \in DOMAIN hidden : hidden[i].value = BlankText

\* "Nothing in it can lose one": through edits of texts, flags, icons and setups,
\* deletions and a payload of an older build, every secret field reveals what was
\* last entered into it, and the passwords it replaced are kept, newest first.
SecretsSurvive ==
    Stored =>
      /\ \A f \in BodySecrets(Meta.kind) : Revealed(f) = entered.word
      /\ Revealed(TotpSecret) = IF entered.totp = None THEN "NoSuchField" ELSE entered.totp
      /\ item.secret.hidden = HiddenValues(entered.custom)
      /\ item.secret.history = Truncated(replaced)

\* An item stays whole: its two halves are of one item, and no secret in them is
\* lost, through saves, the edits that reseal one half, and payloads of an older
\* build (split_draft, seal_payloads and the five UPDATEs of repository.rs).
ItemIsWhole == HalvesAgree /\ SecretsSurvive

-----------------------------------------------------------------------------
(* Claims of the repository that are not kept.                             *)

\* "A hidden custom field is addressed by its index in the item's own list": every
\* secret the detail lists can be revealed, and a custom one is that field's value.
DetailAddressesSecrets ==
    Readable =>
      \A f \in Presented :
        /\ Revealed(f) # "NoSuchField"
        /\ f[1] = "Custom" => Revealed(f) = entered.custom[f[2] + 1].value

\* "A save from a form that has no icon field cannot silently erase one": an item
\* that is saved again keeps its icon.
SaveKeepsIcon ==
    [][\A draft \in Drafts : Stored /\ Update(draft) => item'.meta.icon = Meta.icon]_payloadVars
=============================================================================

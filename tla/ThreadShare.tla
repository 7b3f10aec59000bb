----------------------------- MODULE ThreadShare -----------------------------
(***************************************************************************)
(* The public link of a thread: share and unshare of api/threads/share.rs  *)
(* over db/thread_shares.rs. The snapshot behind a link is known by its    *)
(* age only. A step is one statement.                                      *)
(***************************************************************************)
EXTENDS Naturals

CONSTANTS
  Sharer,     \* requests that share the thread
  MaxShares,  \* bound on requests to share or to revoke
  MaxAges     \* bound on how often the messages of the thread change

ASSUME ShareConstants == MaxShares \in Nat /\ MaxAges \in Nat

VARIABLES
  age,     \* how often the messages have changed
  share,   \* the row: its link, 0 if there is none, and its snapshot
  sharer,  \* sharer[s]: a request in its handler
  links,   \* number of links that were minted
  shares   \* number of requests to share or to revoke

shareVars == <<age, share, sharer, links, shares>>

NoShare == [link |-> 0, snapshot |-> 0]
NoSharer == [at |-> "idle", link |-> 0, snapshot |-> 0]

ShareTypeOK ==
  /\ age \in 0..MaxAges
  /\ share \in [link : 0..MaxShares, snapshot : 0..MaxAges]
  /\ sharer \in [Sharer -> [at : {"idle", "id", "upsert"}, link : 0..MaxShares,
                            snapshot : 0..MaxAges]]
  /\ links \in 0..MaxShares /\ shares \in 0..MaxShares
  /\ share.snapshot <= age

ShareInit ==
  /\ age = 0
  /\ share = NoShare
  /\ sharer = [s \in Sharer |-> NoSharer]
  /\ links = 0 /\ shares = 0

MessagesChange ==
  /\ age < MaxAges
  /\ age' = age + 1
  /\ UNCHANGED <<share, sharer, links, shares>>

SharerGoes(s, r) == sharer' = [sharer EXCEPT ![s] = r] /\ UNCHANGED age

\* share reads the messages first.
ReadsForShare(s) ==
  /\ sharer[s].at = "idle" /\ shares < MaxShares
  /\ shares' = shares + 1
  /\ SharerGoes(s, [at |-> "id", link |-> 0, snapshot |-> age])
  /\ UNCHANGED <<share, links>>

\* share_id_for_thread, or a new id
ChoosesLink(s) ==
  /\ sharer[s].at = "id"
  /\ links' = IF share.link = 0 THEN links + 1 ELSE links
  /\ SharerGoes(s, [sharer[s] EXCEPT !.at = "upsert",
                      !.link = IF share.link = 0 THEN links + 1 ELSE share.link])
  /\ UNCHANGED <<share, shares>>

\* upsert_thread_share: on a conflict the row keeps its id.
Upserts(s) ==
  /\ sharer[s].at = "upsert"
  /\ share' = [link |-> IF share.link = 0 THEN sharer[s].link ELSE share.link,
               snapshot |-> sharer[s].snapshot]
  /\ SharerGoes(s, NoSharer)
  /\ UNCHANGED <<links, shares>>

\* delete_thread_share
Revokes ==
  /\ share # NoShare /\ shares < MaxShares
  /\ shares' = shares + 1
  /\ share' = NoShare
  /\ UNCHANGED <<age, sharer, links>>

ShareNext ==
  \/ MessagesChange \/ Revokes
  \/ \E s \in Sharer : ReadsForShare(s) \/ ChoosesLink(s) \/ Upserts(s)

ShareSpec == ShareInit /\ [][ShareNext]_shareVars

-----------------------------------------------------------------------------

\* "Reuse the live share's id on a re-share ... so existing links keep
\* working": a link stays the thread's until it is revoked, also when two
\* requests share it for the first time.
LinkStaysStable ==
  [][share.link # 0 /\ share'.link # 0 => share'.link = share.link]_shareVars
=============================================================================

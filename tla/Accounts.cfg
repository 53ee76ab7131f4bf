\* Three accounts of two humans, three rows: every door, links, removals, folds.
SPECIFICATION Spec
CONSTANTS
  Users <- TeamUsers
  Guests <- TeamGuests
  Invitees <- TeamInvitees
  Pending = ""
  Ids <- TeamIds
  Logins <- TeamLogins
  Mails <- TeamMails
  Rows = {r1, r2, r3}
  Tokens = {s, t, v}
  Keys = {k1, k2}
  Roles = {1}
  Ops = {"revoke", "unlink", "combine"}
  HumanOf <- Humans
  NoRow = NoRow
  NoKey = NoKey
  NoMail = NoMail
  NoSession = NoSession
  NoToken = NoToken
  NoLink = NoLink
SYMMETRY Slots
INVARIANTS TypeOK OneRowEach OneRowPerAddress BlockedOut KeyUsedOnce NoMixing
PROPERTIES NobodyLost NoClimb SessionsFollow
CHECK_DEADLOCK FALSE

----------------------------- MODULE Operations -----------------------------
(***************************************************************************)
(* The use cases of internal/service as their two transports see them: by  *)
(* the errors they return.  A use case that reads the standing of its      *)
(* actor again, after the transport has verified the bearer, is Guarded:   *)
(* it returns ErrBanned when a ban has committed since.  What the use      *)
(* cases do to the database is in the other modules of this project.       *)
(*                                                                         *)
(* An error is named after the sentinel it wraps.  "Conflict" and          *)
(* "Related" are the PostgreSQL errors of a unique and of a foreign key;   *)
(* "Plain" is every other error without a sentinel: a failed statement, a  *)
(* missing row, a refused mount.  Where one is possible, the statement may *)
(* also break a check, lose a serialization conflict or be cancelled with  *)
(* its context.                                                            *)
(***************************************************************************)
EXTENDS FiniteSets

Errors == {"InvalidCredentials", "OTPInvalid", "Stale", "WrongTokenType", "Banned", "Forbidden", "Locked",
           "NotFound", "TagNotConfigured", "RequestNotPending", "InvalidInvite", "InvalidArgument",
           "PasswordPolicy", "CannotBanSelf", "CannotBanSuperuser", "Conflict", "Related", "Check", "Serialization", "Cancelled", "Plain"}

Open(errs) == [early |-> errs, guarded |-> FALSE, late |-> {}]
\* IsSuperuser, IsBanned, IsRoleAdmin and CanAssignRole all start with the actor's row.
Guarded(early, late) == [early |-> early, guarded |-> TRUE, late |-> late \cup {"Plain"}]
\* Superusers only, or superusers and the administrators of the role.
Authorized(early, late) == Guarded(early, late \cup {"Forbidden"})

\* A bearer in the body of a request fails as it would in a header.
BearerErrors == {"Stale", "WrongTokenType", "InvalidCredentials", "Banned", "Plain"}
\* issueTokenPair
PairErrors == {"Banned", "InvalidCredentials", "InvalidArgument", "Plain"}

(* Public use cases. *)
PreviewRegistrationInvite == Open({"Plain"})
Register == Open({"InvalidInvite", "PasswordPolicy", "Conflict", "Plain"})
\* An expired password is a result and no error; the transports treat it as an outcome.
LoginPassword == Open({"InvalidCredentials", "Banned", "Locked", "Expired", "Plain"})
IssueServiceToken == Open({"InvalidCredentials", "Banned", "Plain"})
CheckTokenRole == Open(BearerErrors)
CheckTokenRoleWithTag == Open(BearerErrors)
InspectToken == Open(BearerErrors)
VerifyAccessToken == Open(BearerErrors)
VerifyLoginOTP == Open({"OTPInvalid"} \cup PairErrors)
StartMagicLink == Open({"InvalidArgument"})
CompleteMagicLink == Open({"OTPInvalid"} \cup PairErrors)
StartPasswordReset == Open({"InvalidArgument"})
CompletePasswordReset == Open({"OTPInvalid", "PasswordPolicy", "Plain"})
Refresh == Open({"InvalidCredentials", "Banned", "Plain"})
Logout == Open({"Plain"})
CompleteStepUp2FA == Open({"OTPInvalid", "Plain"})

(* Use cases of a signed-in human. *)
GetMe == Open({"NotFound", "Plain"})
CheckMyRole == Guarded({}, {})
CheckMyRoleWithTag == Guarded({}, {})
ListMyRoleAccess == Guarded({}, {})
StartPasswordChangeOTP == Open({"NotFound", "Plain"})
ChangePassword == Open({"NotFound", "InvalidCredentials", "OTPInvalid", "PasswordPolicy", "Plain"})
StartStepUp2FA == Open({"InvalidArgument", "NotFound", "Plain"})
GetStepUp2FAStatus == Open({"NotFound"})
ExpireStepUp2FA == Open({"NotFound", "Plain"})
ListSessions == Open({"Plain"})
RevokeOwnSession == Open({"NotFound", "Plain"})
StartSessionRevokeOTP == Open({"NotFound", "Plain"})
RevokeSessionWithOTP == Open({"OTPInvalid", "NotFound", "Plain"})

(* Use cases of a human or a service. *)
CreateRegistrationInvite == Authorized({"InvalidArgument"}, {})
CreateServiceAccount == Authorized({}, {"InvalidArgument", "PasswordPolicy", "Conflict"})
RotateSigningKey == Authorized({}, {})
ListUsers == Authorized({}, {})
BanUser == Authorized({}, {"NotFound", "CannotBanSelf", "CannotBanSuperuser"})
UnbanUser == Authorized({}, {"NotFound"})
ListRoles == Open({"Plain"})
CreateRole == Authorized({}, {"Conflict"})
DeleteRole == Authorized({}, {})
UpdateRoleDescription == Authorized({}, {})
SetRoleParent == Authorized({}, {})
MountRole == Authorized({}, {})
UnmountRole == Authorized({}, {})
ListSubgroups == Open({"Plain"})
AddRoleTag == Authorized({}, {"Related"})
DeleteRoleTag == Authorized({}, {})
RenameRoleTag == Authorized({}, {})
\* Only the roles of somebody else need authority: whoever asks for their own is not read again.
ListUserRoles == [Authorized({}, {}) EXCEPT !.early = {"ok", "Plain"}]
ListRoleMembers == Authorized({}, {})
AssignRole == Authorized({"InvalidArgument"}, {"Related"})
GrantMembershipTag == Authorized({}, {"NotFound", "TagNotConfigured"})
RevokeMembershipTag == Authorized({}, {})
RemoveRole == Authorized({}, {})
RequestRole == Authorized({}, {"Conflict", "Related"})
ListRoleRequests == Authorized({}, {})
DecideRoleRequest == Authorized({"NotFound", "RequestNotPending", "Plain"}, {"RequestNotPending"})

UseCase == [
    PreviewRegistrationInvite |-> PreviewRegistrationInvite, Register |-> Register, LoginPassword |-> LoginPassword,
    IssueServiceToken |-> IssueServiceToken, CheckTokenRole |-> CheckTokenRole,
    CheckTokenRoleWithTag |-> CheckTokenRoleWithTag, InspectToken |-> InspectToken,
    VerifyAccessToken |-> VerifyAccessToken, VerifyLoginOTP |-> VerifyLoginOTP, StartMagicLink |-> StartMagicLink,
    CompleteMagicLink |-> CompleteMagicLink, StartPasswordReset |-> StartPasswordReset,
    CompletePasswordReset |-> CompletePasswordReset, Refresh |-> Refresh, Logout |-> Logout,
    CompleteStepUp2FA |-> CompleteStepUp2FA, GetMe |-> GetMe, CheckMyRole |-> CheckMyRole,
    CheckMyRoleWithTag |-> CheckMyRoleWithTag, ListMyRoleAccess |-> ListMyRoleAccess,
    StartPasswordChangeOTP |-> StartPasswordChangeOTP, ChangePassword |-> ChangePassword,
    StartStepUp2FA |-> StartStepUp2FA, GetStepUp2FAStatus |-> GetStepUp2FAStatus, ExpireStepUp2FA |-> ExpireStepUp2FA,
    ListSessions |-> ListSessions, RevokeOwnSession |-> RevokeOwnSession,
    StartSessionRevokeOTP |-> StartSessionRevokeOTP, RevokeSessionWithOTP |-> RevokeSessionWithOTP,
    CreateRegistrationInvite |-> CreateRegistrationInvite, CreateServiceAccount |-> CreateServiceAccount,
    RotateSigningKey |-> RotateSigningKey, ListUsers |-> ListUsers, BanUser |-> BanUser, UnbanUser |-> UnbanUser,
    ListRoles |-> ListRoles, CreateRole |-> CreateRole, DeleteRole |-> DeleteRole,
    UpdateRoleDescription |-> UpdateRoleDescription, SetRoleParent |-> SetRoleParent, MountRole |-> MountRole,
    UnmountRole |-> UnmountRole, ListSubgroups |-> ListSubgroups, AddRoleTag |-> AddRoleTag,
    DeleteRoleTag |-> DeleteRoleTag, RenameRoleTag |-> RenameRoleTag, ListUserRoles |-> ListUserRoles,
    ListRoleMembers |-> ListRoleMembers, AssignRole |-> AssignRole, GrantMembershipTag |-> GrantMembershipTag,
    RevokeMembershipTag |-> RevokeMembershipTag, RemoveRole |-> RemoveRole, RequestRole |-> RequestRole,
    ListRoleRequests |-> ListRoleRequests, DecideRoleRequest |-> DecideRoleRequest]

Operation == DOMAIN UseCase

\* What a use case may answer when its actor is banned by then, or is not.
Outcomes(op, banned) ==
    LET u == UseCase[op]
        outcomes == IF u.guarded /\ banned THEN u.early \cup {"Banned", "Plain"}
                    ELSE u.early \cup u.late \cup {"ok"}
    IN  IF "Plain" \in outcomes THEN outcomes \cup {"Check", "Serialization", "Cancelled"} ELSE outcomes
=============================================================================

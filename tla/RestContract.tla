---------------------------- MODULE RestContract ----------------------------
(***************************************************************************)
(* The published contract of the REST transport, as docs/docs.go declares  *)
(* it: for every route, under the name of its operation, whether it wants  *)
(* a bearer (BearerAuth), for whom it wants the X-CSRF-Token header, where *)
(* its other parameters are, and the statuses it answers.                  *)
(***************************************************************************)
EXTENDS Integers

\* The header is wanted of nobody ("none"), of everybody ("required"), unless the bearer is a service's ("humans"),
\* or if the refresh token comes in the cookie ("cookie").
Route(bearer, csrf, parameters, responses) ==
    [bearer |-> bearer, csrf |-> csrf, parameters |-> parameters, responses |-> responses]
Bearer(csrf, parameters, responses) == Route(TRUE, csrf, parameters, responses)
Open(csrf, parameters, responses) == Route(FALSE, csrf, parameters, responses)

CreateRegistrationInvite == Bearer("humans", {"body"}, {201, 400, 401, 403})
CreateServiceAccount == Bearer("humans", {"body"}, {201, 400, 401, 403, 500})
RotateSigningKey == Bearer("humans", {}, {204, 403, 500})
ListUsers == Bearer("none", {"query"}, {200, 403, 500})
BanUser == Bearer("humans", {"path", "body"}, {204, 400, 401, 403, 404, 500})
UnbanUser == Bearer("humans", {"path"}, {204, 400, 401, 403, 404, 500})
CheckTokenRole == Open("none", {"body"}, {200, 400, 401})
CheckTokenRoleWithTag == Open("none", {"body"}, {200, 400, 401})
LoginPassword == Open("none", {"body"}, {200, 400, 401, 403, 423, 500})
StartMagicLink == Open("none", {"body"}, {200, 400, 500})
CompleteMagicLink == Open("none", {"body"}, {200, 400, 401, 500})
VerifyLoginOTP == Open("none", {"body"}, {200, 400, 401, 500})
Logout == Open("cookie", {"body"}, {204, 403})
ChangePassword == Bearer("none", {"body"}, {204, 400, 401, 404})
StartPasswordChangeOTP == Bearer("none", {}, {200, 404})
CompletePasswordReset == Open("none", {"body"}, {204, 400, 401})
StartPasswordReset == Open("none", {"body"}, {200, 400, 500})
Refresh == Open("cookie", {"body"}, {200, 401, 403})
Register == Open("none", {"body"}, {201, 400, 410})
PreviewRegistrationInvite == Open("none", {"query"}, {200, 500})
IssueServiceToken == Open("none", {"body"}, {200, 400, 401, 500})
CompleteStepUp2FA == Open("none", {"body"}, {200, 400, 401})
ExpireStepUp2FA == Bearer("required", {"body"}, {204, 400, 403, 404})
StartStepUp2FA == Bearer("none", {"body"}, {200, 400, 404})
GetStepUp2FAStatus == Bearer("none", {"query"}, {200, 400, 404, 500})
InspectToken == Open("none", {"header"}, {200, 400, 401})
VerifyAccessToken == Open("none", {"header"}, {200, 401})
GetMe == Bearer("none", {}, {200, 401, 404})
CheckMyRole == Bearer("none", {"query"}, {200, 400, 500})
CheckMyRoleWithTag == Bearer("none", {"query"}, {200})
ListMyRoleAccess == Bearer("none", {}, {200, 401, 500})
DecideRoleRequest == Bearer("humans", {"path", "body"}, {204, 400, 403, 404, 500})
ListRoles == Bearer("none", {"query"}, {200, 500})
CreateRole == Bearer("humans", {"body"}, {201, 400, 403})
DeleteRole == Bearer("humans", {"path"}, {204, 400, 403, 500})
UpdateRoleDescription == Bearer("humans", {"path", "body"}, {204, 400, 403, 500})
ListRoleMembers == Bearer("none", {"path"}, {200, 400, 403, 500})
AssignRole == Bearer("humans", {"path", "body"}, {204, 400, 403})
RemoveRole == Bearer("humans", {"path"}, {204, 400, 403, 500})
GrantMembershipTag == Bearer("humans", {"path", "body"}, {204, 400, 401, 403})
RevokeMembershipTag == Bearer("humans", {"path", "body"}, {204, 400, 401, 403})
MountRole == Bearer("humans", {"path", "body"}, {204, 400, 403})
UnmountRole == Bearer("humans", {"path"}, {204, 400, 403})
SetRoleParent == Bearer("humans", {"path", "body"}, {204, 400, 403, 500})
ListRoleRequests == Bearer("none", {"path"}, {200, 400, 403, 500})
RequestRole == Bearer("humans", {"path", "body"}, {201, 400, 403})
ListSubgroups == Bearer("none", {"path", "query"}, {200})
AddRoleTag == Bearer("humans", {"path", "body"}, {204, 400, 401, 403})
DeleteRoleTag == Bearer("humans", {"path", "body"}, {204, 400, 401, 403})
RenameRoleTag == Bearer("humans", {"path", "body"}, {204, 400, 401, 403})
ListSessions == Bearer("none", {}, {200, 500})
StartSessionRevokeOTP == Bearer("none", {}, {200, 400})
RevokeOwnSession == Bearer("none", {"path"}, {204, 400, 404})
RevokeSessionWithOTP == Bearer("none", {"path", "body"}, {204, 400, 401})
ListUserRoles == Bearer("none", {"path"}, {200, 400, 403, 500})

Declared == [
    CreateRegistrationInvite |-> CreateRegistrationInvite, CreateServiceAccount |-> CreateServiceAccount,
    RotateSigningKey |-> RotateSigningKey, ListUsers |-> ListUsers, BanUser |-> BanUser, UnbanUser |-> UnbanUser,
    CheckTokenRole |-> CheckTokenRole, CheckTokenRoleWithTag |-> CheckTokenRoleWithTag,
    LoginPassword |-> LoginPassword, StartMagicLink |-> StartMagicLink, CompleteMagicLink |-> CompleteMagicLink,
    VerifyLoginOTP |-> VerifyLoginOTP, Logout |-> Logout, ChangePassword |-> ChangePassword,
    StartPasswordChangeOTP |-> StartPasswordChangeOTP, CompletePasswordReset |-> CompletePasswordReset,
    StartPasswordReset |-> StartPasswordReset, Refresh |-> Refresh, Register |-> Register,
    PreviewRegistrationInvite |-> PreviewRegistrationInvite, IssueServiceToken |-> IssueServiceToken,
    CompleteStepUp2FA |-> CompleteStepUp2FA, ExpireStepUp2FA |-> ExpireStepUp2FA, StartStepUp2FA |-> StartStepUp2FA,
    GetStepUp2FAStatus |-> GetStepUp2FAStatus, InspectToken |-> InspectToken, VerifyAccessToken |-> VerifyAccessToken,
    GetMe |-> GetMe, CheckMyRole |-> CheckMyRole, CheckMyRoleWithTag |-> CheckMyRoleWithTag,
    ListMyRoleAccess |-> ListMyRoleAccess, DecideRoleRequest |-> DecideRoleRequest, ListRoles |-> ListRoles,
    CreateRole |-> CreateRole, DeleteRole |-> DeleteRole, UpdateRoleDescription |-> UpdateRoleDescription,
    ListRoleMembers |-> ListRoleMembers, AssignRole |-> AssignRole, RemoveRole |-> RemoveRole,
    GrantMembershipTag |-> GrantMembershipTag, RevokeMembershipTag |-> RevokeMembershipTag, MountRole |-> MountRole,
    UnmountRole |-> UnmountRole, SetRoleParent |-> SetRoleParent, ListRoleRequests |-> ListRoleRequests,
    RequestRole |-> RequestRole, ListSubgroups |-> ListSubgroups, AddRoleTag |-> AddRoleTag,
    DeleteRoleTag |-> DeleteRoleTag, RenameRoleTag |-> RenameRoleTag, ListSessions |-> ListSessions,
    StartSessionRevokeOTP |-> StartSessionRevokeOTP, RevokeOwnSession |-> RevokeOwnSession,
    RevokeSessionWithOTP |-> RevokeSessionWithOTP, ListUserRoles |-> ListUserRoles]
=============================================================================

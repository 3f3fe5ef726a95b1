---------------------------- MODULE RestHandlers ----------------------------
(***************************************************************************)
(* The handlers of internal/transport/http, one definition each: whether   *)
(* the handler can refuse the request as malformed (400) before it calls   *)
(* the service, the status of success, the errors it tells apart and the   *)
(* status of every other error.  Bodies and their fields are left out.     *)
(***************************************************************************)
EXTENDS TLC

\* A handler that parses its input, and one that has nothing to parse.
Parses(ok, on, other) == [parses |-> TRUE, ok |-> ok, on |-> on, other |-> other]
Bare(ok, on, other) == [parses |-> FALSE, ok |-> ok, on |-> on, other |-> other]

Nothing == [e \in {} |-> 0]
Forbids == "Forbidden" :> 403
Absent == "NotFound" :> 404
WrongCode == "OTPInvalid" :> 401

(* handlers.go *)
handleRegister == Parses(201, "InvalidInvite" :> 410 @@ "PasswordPolicy" :> 400, 400)
handleRegistrationInvitePreview == Bare(200, Nothing, 500)
handleCreateRegistrationInvite == Parses(201, Forbids, 400)
handleCreateServiceAccount ==
    Parses(201, Forbids @@ "Banned" :> 403 @@ "InvalidArgument" :> 400 @@ "PasswordPolicy" :> 400, 500)
handleLogin ==
    Parses(200, "Banned" :> 403 @@ "InvalidCredentials" :> 401 @@ "Locked" :> 423 @@ "Expired" :> 403, 500)
handleLoginVerify == Parses(200, "Banned" :> 403 @@ WrongCode, 500)
handleMagicLinkStart == Parses(200, "InvalidArgument" :> 400, 500)
handleMagicLinkVerify == Parses(200, "Banned" :> 403 @@ WrongCode, 500)
\* A body that does not parse is ignored: the handler falls back to the cookie.
handleRefresh == Bare(200, Nothing, 401)
\* The error of the service is dropped.
handleLogout == Bare(204, Nothing, 204)
handleStepUp2FAComplete == Parses(200, Nothing, 401)
handleMe == Bare(200, Nothing, 404)
handleChangePassword2FAStart == Bare(200, Absent, 400)
handleChangePassword == Parses(204, WrongCode @@ "InvalidCredentials" :> 401 @@ Absent, 400)
handlePasswordResetStart == Parses(200, "InvalidArgument" :> 400, 500)
handlePasswordResetComplete == Parses(204, WrongCode, 400)
handleListSessions == Bare(200, Nothing, 500)
handleSessionRevokeOTP == Bare(200, Nothing, 400)
handleSessionRevoke == Parses(204, WrongCode, 400)
handleSessionDelete == Parses(204, Absent, 500)
handleListRoles == Parses(200, Nothing, 500)
handleCreateRole == Parses(201, Forbids, 400)
\* Mutated form: a refused actor is answered like a failed read.
handleDeleteRoleUniform == Parses(204, Nothing, 500)
handleDeleteRole == Parses(204, Forbids, 500)
handleSetRoleParent == Parses(204, Forbids, 400)
handleMountRole == Parses(204, Forbids, 400)
handleUnmountRole == Parses(204, Forbids, 500)
handleListSubgroups == Parses(200, Nothing, 500)
handleRoleTagPair == Parses(204, Forbids, 500)
handleAddRoleTag == handleRoleTagPair
handleDeleteRoleTag == handleRoleTagPair
handleRenameRoleTag == Parses(204, Forbids, 400)
handleListRoleMembers == Parses(200, Forbids, 500)
handlePatchRole == Parses(204, Forbids, 500)
handleUserRoles == Parses(200, Forbids, 500)
handleAssignRole == Parses(204, Forbids, 400)
handleUserRoleTagPair == Parses(204, Forbids @@ "NotFound" :> 400 @@ "TagNotConfigured" :> 400, 400)
handleAddUserRoleTag == handleUserRoleTagPair
handleDeleteUserRoleTag == handleUserRoleTagPair
handleRemoveRole == Parses(204, Forbids, 500)
handleRoleRequest == Parses(201, Forbids, 400)
handleListRoleRequests == Parses(200, Forbids, 500)
handleDecideRoleRequest == Parses(204, Absent @@ Forbids, 400)

(* handlers_extra.go *)
handleServiceToken == Parses(200, "InvalidCredentials" :> 401, 500)
handleStepUp2FAStart == Parses(200, Absent, 400)
handleStepUp2FAStatus == Parses(200, Absent, 500)
handleStepUp2FAExpire == Parses(204, Absent, 400)
handleTokenValidate == Bare(200, "Stale" :> 401 @@ "WrongTokenType" :> 400, 401)
handleVerifyAccessTokenOnly == Bare(200, Nothing, 401)
handleRotateSigningKey == Bare(204, Forbids, 500)
handleListUsers == Parses(200, Forbids, 500)
handleBanUser == Parses(204, Forbids @@ "CannotBanSelf" :> 400 @@ "CannotBanSuperuser" :> 400 @@ Absent, 500)
handleUnbanUser == Parses(204, Forbids @@ Absent, 500)
handleTokenRoleCheck == Parses(200, Nothing, 401)
handleTokenCheckRole == handleTokenRoleCheck
handleTokenCheckRoleWithTag == handleTokenRoleCheck
handleRoleAccess == Bare(200, Nothing, 500)
handleCheckRole == Parses(200, Nothing, 500)
handleCheckRoleWithTag == Parses(200, Nothing, 500)

\* Operations by the name of their RPC, each with the handler its route registers.
Handler == [
    PreviewRegistrationInvite |-> handleRegistrationInvitePreview, Register |-> handleRegister,
    LoginPassword |-> handleLogin, IssueServiceToken |-> handleServiceToken, CheckTokenRole |-> handleTokenCheckRole,
    CheckTokenRoleWithTag |-> handleTokenCheckRoleWithTag, InspectToken |-> handleTokenValidate,
    VerifyAccessToken |-> handleVerifyAccessTokenOnly, VerifyLoginOTP |-> handleLoginVerify,
    StartMagicLink |-> handleMagicLinkStart, CompleteMagicLink |-> handleMagicLinkVerify,
    StartPasswordReset |-> handlePasswordResetStart, CompletePasswordReset |-> handlePasswordResetComplete,
    Refresh |-> handleRefresh, Logout |-> handleLogout, CompleteStepUp2FA |-> handleStepUp2FAComplete,
    GetMe |-> handleMe, CheckMyRole |-> handleCheckRole, CheckMyRoleWithTag |-> handleCheckRoleWithTag,
    ListMyRoleAccess |-> handleRoleAccess, StartPasswordChangeOTP |-> handleChangePassword2FAStart,
    ChangePassword |-> handleChangePassword, StartStepUp2FA |-> handleStepUp2FAStart,
    GetStepUp2FAStatus |-> handleStepUp2FAStatus, ExpireStepUp2FA |-> handleStepUp2FAExpire,
    ListSessions |-> handleListSessions, RevokeOwnSession |-> handleSessionDelete,
    StartSessionRevokeOTP |-> handleSessionRevokeOTP, RevokeSessionWithOTP |-> handleSessionRevoke,
    CreateRegistrationInvite |-> handleCreateRegistrationInvite,
    CreateServiceAccount |-> handleCreateServiceAccount, RotateSigningKey |-> handleRotateSigningKey,
    ListUsers |-> handleListUsers, BanUser |-> handleBanUser, UnbanUser |-> handleUnbanUser,
    ListRoles |-> handleListRoles, CreateRole |-> handleCreateRole, DeleteRole |-> handleDeleteRole,
    UpdateRoleDescription |-> handlePatchRole, SetRoleParent |-> handleSetRoleParent, MountRole |-> handleMountRole,
    UnmountRole |-> handleUnmountRole, ListSubgroups |-> handleListSubgroups, AddRoleTag |-> handleAddRoleTag,
    DeleteRoleTag |-> handleDeleteRoleTag, RenameRoleTag |-> handleRenameRoleTag, ListUserRoles |-> handleUserRoles,
    ListRoleMembers |-> handleListRoleMembers, AssignRole |-> handleAssignRole,
    GrantMembershipTag |-> handleAddUserRoleTag, RevokeMembershipTag |-> handleDeleteUserRoleTag,
    RemoveRole |-> handleRemoveRole, RequestRole |-> handleRoleRequest, ListRoleRequests |-> handleListRoleRequests,
    DecideRoleRequest |-> handleDecideRoleRequest]

\* The status a handler writes for an outcome of its use case.
Status(op, outcome) ==
    LET h == Handler[op] IN
    IF outcome = "ok" THEN h.ok ELSE IF outcome \in DOMAIN h.on THEN h.on[outcome] ELSE h.other
=============================================================================

---------------------------- MODULE GrpcMethods -----------------------------
(***************************************************************************)
(* The methods of internal/transport/grpc.  A method checks the shape of   *)
(* its request (InvalidArgument), calls the same use case as the REST      *)
(* handler, and leaves every error to one function, mapError.              *)
(***************************************************************************)

\* Methods that may refuse a request before they call the service, and methods that pass it on as it is.
Checked(ops) == [op \in ops |-> TRUE]
Passed(ops) == [op \in ops |-> FALSE]
Join(f, g) == [op \in DOMAIN f \cup DOMAIN g |-> IF op \in DOMAIN f THEN f[op] ELSE g[op]]

(* auth.go *)
AuthMethods == Join(
    Checked({"Register", "LoginPassword", "CheckTokenRole", "CheckTokenRoleWithTag"}),
    Passed({"PreviewRegistrationInvite", "IssueServiceToken", "InspectToken", "VerifyAccessToken"}))
SignInMethods == Join(
    Checked({"VerifyLoginOTP", "CompleteMagicLink", "Refresh", "Logout"}),
    Passed({"StartMagicLink", "StartPasswordReset", "CompletePasswordReset", "CompleteStepUp2FA"}))

(* identity_session_admin.go *)
IdentityMethods == Join(
    Checked({"CheckMyRole", "CheckMyRoleWithTag", "StartStepUp2FA", "GetStepUp2FAStatus"}),
    Passed({"GetMe", "ListMyRoleAccess", "StartPasswordChangeOTP", "ChangePassword", "ExpireStepUp2FA"}))
SessionMethods == Join(
    Checked({"RevokeOwnSession", "RevokeSessionWithOTP"}),
    Passed({"ListSessions", "StartSessionRevokeOTP"}))
AdminMethods == Join(
    Checked({"CreateRegistrationInvite", "ListUsers", "BanUser", "UnbanUser"}),
    Passed({"CreateServiceAccount", "RotateSigningKey"}))

(* role.go *)
RoleMethods == Checked({"ListRoles", "CreateRole", "DeleteRole", "UpdateRoleDescription", "SetRoleParent",
                        "MountRole", "UnmountRole", "ListSubgroups"})
TagMethods == Checked({"AddRoleTag", "DeleteRoleTag", "RenameRoleTag"})
MemberMethods == Checked({"ListUserRoles", "ListRoleMembers", "AssignRole", "GrantMembershipTag",
                          "RevokeMembershipTag", "RemoveRole"})
RequestMethods == Checked({"RequestRole", "ListRoleRequests", "DecideRoleRequest"})

Checks == Join(AuthMethods, Join(SignInMethods, Join(IdentityMethods, Join(SessionMethods, Join(AdminMethods,
               Join(RoleMethods, Join(TagMethods, Join(MemberMethods, RequestMethods))))))))

mapError(e) ==
    CASE e = "Conflict" -> "AlreadyExists"
      [] e = "Related" -> "FailedPrecondition"
      [] e = "Check" -> "InvalidArgument"
      [] e = "Serialization" -> "Aborted"
      [] e = "Cancelled" -> "Canceled"
      [] e \in {"InvalidCredentials", "OTPInvalid", "Stale", "WrongTokenType"} -> "Unauthenticated"
      [] e \in {"Banned", "Forbidden"} -> "PermissionDenied"
      [] e = "NotFound" -> "NotFound"
      [] e \in {"Locked", "TagNotConfigured", "RequestNotPending", "InvalidInvite"} -> "FailedPrecondition"
      [] e \in {"InvalidArgument", "PasswordPolicy", "CannotBanSelf", "CannotBanSuperuser"} -> "InvalidArgument"
      [] OTHER -> "Internal"

\* LoginPassword reports an expired password in a field of its response.
Code(op, outcome) == IF outcome \in {"ok", "Expired"} THEN "OK" ELSE mapError(outcome)
=============================================================================

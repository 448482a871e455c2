-------------------------------- MODULE Api --------------------------------
(***************************************************************************)
(* The REST interface of the gateway: which requests each handler refuses  *)
(* itself, which RPC it makes of the others, and with what status it       *)
(* answers when the RPC succeeds and when it fails.  Bodies and replies    *)
(* are left out; the handlers of rides, payments and users answer with     *)
(* empty objects whatever the service replied.                             *)
(***************************************************************************)
EXTENDS Naturals

\* A route: the RPC it becomes, the status of success, and what the handler
\* refuses before it calls: a body or parameter that does not bind (400), a
\* resource of somebody else or the wrong role (403).
Route(service, rpc, ok, refusals) ==
    [service |-> service, rpc |-> rpc, ok |-> ok, refusals |-> refusals]

AuthRoutes ==
    {Route("auth", "Register", 201, {400}),
     Route("auth", "Login", 200, {400}),
     Route("auth", "Refresh", 200, {400})}

UserRoutes ==
    {Route("user", "GetProfile", 200, {}),
     Route("user", "UpdateProfile", 200, {400, 403}),
     Route("user", "SetAvailability", 204, {400, 403})}

RideRoutes ==
    {Route("ride", "RequestRide", 201, {400}),
     Route("ride", "RideHistory", 200, {}),
     Route("ride", "GetRide", 200, {}),
     Route("ride", "AcceptRide", 200, {}),
     Route("ride", "CompleteRide", 200, {}),
     Route("ride", "CancelRide", 200, {})}

LocationRoutes ==
    {Route("location", "UpdateLocation", 200, {400, 403}),
     Route("location", "GetNearbyDrivers", 200, {400})}

ChargeRoute == Route("payment", "ChargeRide", 200, {400})

LookupRoute == Route("payment", "GetPayment", 200, {})

PaymentRoutes == {ChargeRoute, LookupRoute}

\* Everything but /v1/auth is behind the token and the limiter of its user.
ProtectedRoutes == UserRoutes \cup RideRoutes \cup LocationRoutes \cup PaymentRoutes

Routes == AuthRoutes \cup ProtectedRoutes

-----------------------------------------------------------------------------

\* The codes of the errors the services return.
AppErrors == {400, 401, 403, 404, 409, 429, 500}

\* The auth service turns the code of its error into a code of gRPC ...
MapError(code) ==
    CASE code = 400 -> "InvalidArgument"
      [] code = 401 -> "Unauthenticated"
      [] code = 403 -> "PermissionDenied"
      [] code = 404 -> "NotFound"
      [] code = 409 -> "AlreadyExists"
      [] code = 429 -> "ResourceExhausted"
      [] OTHER -> "Internal"

\* ... and the handler of the gateway turns that into a status.
HandleError(grpc) ==
    CASE grpc = "Unauthenticated" -> 401
      [] grpc = "AlreadyExists" -> 409
      [] grpc = "InvalidArgument" -> 400
      [] grpc = "ResourceExhausted" -> 429
      [] grpc = "NotFound" -> 404
      [] grpc = "PermissionDenied" -> 403
      [] OTHER -> 500

\* The other services return their errors as they are, and their handlers
\* answer every error alike.
ErrorStatus(service, code) ==
    IF service = "auth" THEN HandleError(MapError(code)) ELSE 500

\* What a route may answer to a request it has passed on.
Replies(route) ==
    {route.ok} \cup {ErrorStatus(route.service, code) : code \in AppErrors}

=============================================================================

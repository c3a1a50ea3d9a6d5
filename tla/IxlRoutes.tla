------------------------------ MODULE IxlRoutes ------------------------------
(***************************************************************************)
(* The interlocking state of the Cloud IXL (IXL_state) and its route       *)
(* logic: cloud_ixl_logic.c over the route table of cloud_ixl_routes.c.    *)
(* The route table is a parameter; MCCloudIxl gives it the table of the    *)
(* repository and a larger one in which routes conflict by sections alone. *)
(***************************************************************************)
CONSTANTS
    Routes,             \* RouteId
    Sections,           \* SectionId
    Points,             \* PointId
    RequiredSections,   \* route |-> the set of its required_sections
    RequiredPoints,     \* route |-> the set of its required_points
    RequiredPosition    \* route |-> point |-> its required_point_states entry

SectionStates == {"S_FREE", "S_OCCUPIED", "S_UNKNOWN", "S_FAILED"}
PointStates   == {"LEFT", "RIGHT", "UNINTENDED", "MOVING", "NO_END"}
RouteStates   == {"FREE", "WRONG_POINTS", "RESERVED", "OCCUPIED",
                  "REQUESTED", "INVALID"}

ASSUME RouteTableAssumption ==
    /\ RequiredSections \in [Routes -> SUBSET Sections]
    /\ RequiredPoints \in [Routes -> SUBSET Points]
    /\ RequiredPosition \in [Routes -> [Points -> PointStates]]

VARIABLES
    route,      \* IXL_state.route
    section,    \* IXL_state.section
    point       \* IXL_state.point

ixlVars == <<route, section, point>>

IxlTypeOK ==
    /\ route \in [Routes -> RouteStates]
    /\ section \in [Sections -> SectionStates]
    /\ point \in [Points -> PointStates]

(* cloud_ixl_state_init: everything free, every point LEFT. *)
IxlInit ==
    /\ route = [r \in Routes |-> "FREE"]
    /\ section = [s \in Sections |-> "S_FREE"]
    /\ point = [p \in Points |-> "LEFT"]

route_state_blocks(s) == s \in {"RESERVED", "REQUESTED", "OCCUPIED"}

routes_share_section(r, q) == RequiredSections[r] \cap RequiredSections[q] # {}

(* Mutation of HasConflictingRoute: only an occupied route conflicts. *)
HasConflictingRoute_Occupied(r) ==
    \E q \in Routes \ {r} : route[q] = "OCCUPIED" /\ routes_share_section(r, q)

(* get_conflicting_route_state: another route that blocks and shares a section. *)
HasConflictingRoute(r) ==
    \E q \in Routes \ {r} :
        route_state_blocks(route[q]) /\ routes_share_section(r, q)

(* The checks are made in the order of the code: the route itself, its     *)
(* sections, the other routes, its points.                                 *)
get_route_state(r) ==
    IF route_state_blocks(route[r]) THEN route[r]
    ELSE IF \E s \in RequiredSections[r] : section[s] # "S_FREE" THEN "OCCUPIED"
    ELSE IF HasConflictingRoute(r) THEN "RESERVED"
    ELSE IF \E p \in RequiredPoints[r] : point[p] # RequiredPosition[r][p]
         THEN "WRONG_POINTS" ELSE "FREE"

Decision(r) == IF get_route_state(r) = "FREE" THEN "GO" ELSE "STOP"

(* request_route_decision reserves a free route at once, before any command *)
(* has been sent for it.                                                    *)
request_route_decision(r) ==
    /\ route' = IF Decision(r) = "GO" THEN [route EXCEPT ![r] = "RESERVED"]
                ELSE route
    /\ UNCHANGED <<section, point>>

release_route(r) ==
    /\ route' = [route EXCEPT ![r] = "FREE"]
    /\ UNCHANGED <<section, point>>

-------------------------------------------------------------------------------
(* Two different routes that need a common section never hold it together:  *)
(* what the conflict test of get_route_state is for.                        *)
RouteExclusion ==
    \A r, q \in Routes :
        r # q /\ routes_share_section(r, q)
            => ~(route_state_blocks(route[r]) /\ route_state_blocks(route[q]))
==============================================================================

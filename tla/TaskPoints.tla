----------------------------- MODULE TaskPoints -----------------------------
(***************************************************************************)
(* The vocabulary of the task executor: the states of its flow machine     *)
(* (enum event::flow), the control states (enum event::status), and the    *)
(* points that travel through pointDeque.  A point is either one of the    *)
(* PlanSize points planned for the running task, a step of the fixed       *)
(* out-clean-return itinerary (FLOW_...), or a command of the operator or  *)
(* of the machine itself (SPECIAL_...).                                    *)
(***************************************************************************)
EXTENDS Naturals, Sequences

CONSTANTS
  Task,          \* identifiers of the tasks that may be launched
  NoTask,        \* the empty task id
  PlanSize       \* number of points planned for a task

ASSUME TaskAssumption == NoTask \notin Task
ASSUME PlanAssumption == PlanSize \in Nat

(* enum event::flow; the two values that only TimelyPointCall uses are left out. *)
Flow ==
  {"waiting_for_task", "out_base_station", "switch_node_work_mode",
   "preliminary_preparation_completed", "ensure_move_to_start_point",
   "cleaning_mechanism_ready", "flowing_water_production",
   "flowing_water_execution_completed", "arrive_base_point_success",
   "try_recharging_again", "try_move_base_point_again",
   "arrive_base_station_success",
   "manual_over_and_move_base_point", "manual_back_try_move_base_point",
   "manual_base_point_and_close_mechanism",
   "manual_mechanism_close_and_charging", "manual_task_pause",
   "manual_cleaning",
   "force_over_and_move_base_point", "force_back_try_move_base_point",
   "force_base_point_and_close_mechanism",
   "force_mechanism_close_and_charging", "force_task_pause",
   "manual_control_over_and_move_base_point",
   "manual_control_back_try_move_base_point",
   "manual_control_base_point_and_charging",
   "hardware_interrupt_task", "software_interrupt_task"}

(* event_flow < preliminary_preparation_completed in the order of the enum. *)
BeforePreparation ==
  {"waiting_for_task", "out_base_station", "switch_node_work_mode"}

Status == {"AUTO", "MANUAL", "FORCE"}

(* The flows in which forceBackToBase refuses to start another return. *)
NoForcedReturn ==
  {"waiting_for_task", "manual_cleaning", "flowing_water_execution_completed",
   "arrive_base_point_success", "try_recharging_again",
   "try_move_base_point_again", "manual_over_and_move_base_point",
   "manual_back_try_move_base_point", "manual_base_point_and_close_mechanism",
   "manual_mechanism_close_and_charging",
   "manual_control_over_and_move_base_point",
   "manual_control_base_point_and_charging", "manual_task_pause",
   "force_task_pause"}

(* The recorded flows from which a released emergency stop is not turned   *)
(* into a pause: the interrupted point is handled once more instead.       *)
ReplayedFlow ==
  {"waiting_for_task", "out_base_station", "switch_node_work_mode",
   "preliminary_preparation_completed", "arrive_base_point_success",
   "try_recharging_again", "arrive_base_station_success",
   "manual_mechanism_close_and_charging",
   "force_base_point_and_close_mechanism",
   "force_mechanism_close_and_charging",
   "manual_control_base_point_and_charging",
   "hardware_interrupt_task", "software_interrupt_task"}

(* The points: id -18 .. -1 by name, ids >= 0 are "PLAN" points numbered n. *)
ReturnId == {"MANUAL_BACK", "FORCE_LOW_BATTERY", "EQUIPMENT_ERROR_BACK",
             "MANUAL_CONTROL_FORCE_BACK"}
SpecialId == ReturnId \cup
  {"MANUAL_RESUME", "MANUAL_PAUSE", "MANUAL_CLEAN_START", "MANUAL_CLEAN_END",
   "STOP_URGENT_IN_BASE"}
FlowId == {"SEIZE_SEAT", "OUT_STATION", "END_SLEEP", "OPEN_MECHANISM",
           "IN_BASE_POINT", "CLOSE_MECHANISM", "IN_STATION"}

Point == [id : SpecialId \cup FlowId \cup {"PLAN"},
          n : 0 .. PlanSize,
          arrive : BOOLEAN]

Special(i) == [id |-> i, n |-> 0, arrive |-> FALSE]
FlowPoint(i, a) == [id |-> i, n |-> 0, arrive |-> a]
PlanPoint(k, a) == [id |-> "PLAN", n |-> k, arrive |-> a]

(* A default-constructed RealPoint has id 0, which is the id of a plan point. *)
NullPoint == PlanPoint(0, FALSE)
SeizeSeat == FlowPoint("SEIZE_SEAT", FALSE)

PlanPoints == [k \in 1 .. PlanSize |-> k]
=============================================================================

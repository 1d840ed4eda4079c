------------------------------ MODULE MCDisplay ------------------------------
(* Small instances of the display and camera models, which share nothing,   *)
(* in one run: a behaviour is about one of them, the part, and the others    *)
(* keep the one initial state chosen for them.                              *)
EXTENDS Panel, Paint, Camera

VARIABLE part

(* Pictures of a panel, as sets of its pixels.                             *)
Drawings == {{<<0, 3>>}, {<<1, 6>>, <<5, 0>>}}

(* Images, the small ones for the shapes, corners, and what is written.    *)
Images == {<<9, 7>>, <<24, 17>>}
Small  == {<<9, 7>>}
Ends   == {<<0, 0>>, <<9, 7>>, <<3, 2>>}
Write(c, x, y, t, font) == [call |-> c, x |-> x, y |-> y, text |-> t, font |-> font]
Text   == {Write("string", 0, 1, <<32, 72, 126, 65>>, Font8),
           Write("string", 2, 3, <<126, 72>>, Font12), Write("string", 9, 0, <<126>>, Font16),
           Write("string", 0, 0, <<126, 33>>, Font20), Write("string", 0, 0, <<126, 33>>, Font24),
           Write("number", 0, 0, <<120, 45, 3>>, Font8), Write("number", 0, 0, <<37, 0, 0>>, Font8),
           Write("number", 0, 0, <<0, 7, 2>>, Font8), Write("time", 0, 0, <<23, 59, 8>>, Font8),
           Write("chinese", 0, 0, <<"ascii", "lead", "t", "t", "Ascii", "other", "t", "t">>, Font12CN),
           Write("chinese", 0, 0, <<"lead", "t", "t", "ascii">>, Font24CN)}

(* Command lines of the camera programs: a window, a turn taken back, a     *)
(* wide screen turned, an impossible turn.                                  *)
Lines == {<< <<"dst">> >>, << <<"r", 270>>, <<"r", 0>> >>,
          << <<"sy", 24>>, <<"r", 90>> >>, << <<"r", 45>> >>}

allvars == <<part, dvars, paintvars, cvars>>

(* An image whose last call was Paint_Clear, for the other parts.           *)
PaintAside ==
    /\ Paint = Paint_NewImage(9, 7, 0) /\ shape = [call |-> "clear"]
    /\ todo = <<>> /\ drawn = {} /\ lost = FALSE /\ strays = {}

DisplayInit ==
    /\ part \in {"panel", "paint", "camera"}
    /\ PanelInit /\ CameraInitial
    /\ IF part = "paint" THEN PaintInit ELSE PaintAside
    /\ part # "panel" => style = "oled"
    /\ part # "camera" => program = "pxpv4l2"

PanelPart  == part = "panel" /\ PanelNext /\ UNCHANGED <<part, paintvars, cvars>>
PaintPart  == part = "paint" /\ PaintNext /\ UNCHANGED <<part, dvars, cvars>>

Camera_(A) == part = "camera" /\ A /\ UNCHANGED <<part, dvars, paintvars>>
CameraMain   == Camera_(Main)
CameraThread == Camera_(device_pxp_thread)
CameraFill   == Camera_(Fill)
CameraShow   == Camera_(Show)
CameraOther  == Camera_(Spurious \/ signal_thread)

DisplayNext == PanelPart \/ PaintPart \/ CameraMain \/ CameraThread
               \/ CameraFill \/ CameraShow \/ CameraOther

(* The fairness of FairCameraSpec: threads run, the drivers deliver.        *)
DisplaySpec ==
    /\ DisplayInit /\ [][DisplayNext]_allvars
    /\ WF_allvars(CameraMain) /\ WF_allvars(CameraThread)
    /\ WF_allvars(CameraFill) /\ WF_allvars(CameraShow)
=============================================================================

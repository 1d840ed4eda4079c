SPECIFICATION DisplaySpec
CONSTANTS
    Proc = {p1, p2}
    Styles = {"oled", "fb", "spidev"}
    Pages = 2
    Columns = 8
    Pictures <- Drawings
    MaxFaults = 1
    Sizes <- Images
    Charts <- Small
    Corners <- Ends
    DotSizes = {1, 2}
    Radii = {0, 1, 2, 6, 40000}
    Scripts <- Text
    Programs = {"pxpv4l2", "pxpv4l2vision", "visionpxp", "visionvideo"}
    V4L2_BUF_NUM = 2
    Commands <- Lines
    MaxFailures = 1
    NoBuffer = nobuffer
    Pairs = 4
    Rows = 3
INVARIANTS  PixelsStayApart  FramesGoRound 
PROPERTIES QuitIsHeeded
CHECK_DEADLOCK FALSE

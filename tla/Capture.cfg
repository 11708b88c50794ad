SPECIFICATION CaptureSpec
CONSTANTS
    RecCodec = {"vulkan", "ffv1", "lossless", "hevc", "ffmpeg"}
    SecCodec = {"ffmpeg"}
    ChanCap = 1
    MaxThread = 2
    MaxFrame = 2
    MaxWork = 3
    ViewerCodec = {"vulkan", "cuda", "vaapi", "nvenc"}
    MaxViewer = 2
    MaxLive = 0
    GOP_LEN = 3
    MaxFrameNum = 4
    MAX_CONSEC_FAIL = 2
    SockCap = 1
CHECK_DEADLOCK FALSE
INVARIANTS
    NoLeakedThread
    FramesFit
    
    GopDecodes

    
    

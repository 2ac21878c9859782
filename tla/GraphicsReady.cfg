SPECIFICATION Spec
INVARIANT GraphicsReadyBeforeDrawing
